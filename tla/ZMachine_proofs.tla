--------------------------- MODULE ZMachine_proofs ---------------------------
(***************************************************************************)
(* What is proved of the objects of the Z-machine, of its saved games, and *)
(* of its stack.                                                           *)
(*                                                                         *)
(* The walk along the siblings is a recursive function, defined for every  *)
(* number of objects by induction (WalkDefined); if the bytes are a chain, *)
(* it finds the list they are a chain of (ChainListed).  Taking an object  *)
(* out and putting it first in a list leave chains of the right objects    *)
(* behind (UnparentedLists, RemovedWellFormed, InsertedWellFormed).  So    *)
(* every tree is well formed, and each step is one of the forest's.        *)
(* As long as a promise stands, the file makes the promised game           *)
(* (PromiseKept).                                                          *)
(*                                                                         *)
(* The words of the stack are laid out as frames, one behind the other     *)
(* (Layout).  Pushing, popping and setting a local change the top frame    *)
(* only, a call adds a frame and a return takes one away (PushFrame,       *)
(* PopFrame, SetFrame, CallFrame, ReturnFrame), and the bases that are     *)
(* stored in the words lead back to every frame (LayoutBases).  So every   *)
(* instruction keeps the layout, and each is one of the frames' steps; the *)
(* machine in a whole file has it too (DiskIsSound), and restore goes on   *)
(* from there.                                                             *)
(***************************************************************************)
EXTENDS ZObjects, ZRoutines, FiniteSetTheorems, Induction

-----------------------------------------------------------------------------
(***************************************************************************)
(* The walk along a list finds the list.                                   *)
(***************************************************************************)
Limit == Cardinality(Objects)

\* The lists found in n steps from every object, by those found in n - 1.
Found(t, w, n) ==
    [x \in ObjectIds |->
        IF n = 0 \/ x = Nothing THEN <<>> ELSE <<x>> \o w[n - 1][t.sibling[x]]]

IsWalk(t, w, limit) == w = [n \in 0 .. limit |-> Found(t, w, n)]

LEMMA LimitType == Limit \in Nat
BY ObjectsAssumption, FS_CardinalityType DEF Limit

LEMMA WalkExtends ==
  ASSUME NEW t, NEW n \in Nat, NEW w, IsWalk(t, w, n)
  PROVE  \E v : IsWalk(t, v, n + 1)
<1> DEFINE v == [m \in 0 .. n + 1 |-> Found(t, w, m)]
<1>1. \A m \in 0 .. n : v[m] = w[m]
  BY DEF IsWalk
<1>2. ASSUME NEW m \in 0 .. n + 1
      PROVE  Found(t, v, m) = Found(t, w, m)
  <2>1. CASE m = 0
    BY <2>1 DEF Found
  <2>2. CASE m # 0
    <3> HIDE DEF v
    <3>1. v[m - 1] = w[m - 1]
      BY <1>1, <2>2
    <3> QED BY <3>1, Zenon DEF Found
  <2> QED BY <2>1, <2>2
<1>3. v = [m \in 0 .. n + 1 |-> Found(t, v, m)]
  BY <1>2
<1> QED BY <1>3 DEF IsWalk

\* The recursion of Walk defines a function.
LEMMA WalkDefined == ASSUME NEW t PROVE IsWalk(t, Walk(t), Limit)
<1> DEFINE S == {n \in Nat : \E w : IsWalk(t, w, n)}
<1>1. 0 \in S
  <2> DEFINE w == [n \in 0 .. 0 |-> [x \in ObjectIds |-> <<>>]]
  <2>1. IsWalk(t, w, 0)
    BY DEF IsWalk, Found
  <2> QED BY <2>1
<1>2. \A n \in Nat : n \in S => n + 1 \in S
  BY WalkExtends
<1>3. \E w : IsWalk(t, w, Limit)
  <2> HIDE DEF S
  <2>1. Limit \in S
    BY <1>1, <1>2, SetInduction, LimitType
  <2> QED BY <2>1 DEF S
<1> QED BY <1>3, Zenon DEF Walk, IsWalk, Found, Limit

\* A list without repetitions is no longer than there are objects.
LEMMA ChainLength ==
  ASSUME NEW list \in Seq(Objects), IsInjective(list)
  PROVE  Len(list) <= Limit
<1>1. list \in [1 .. Len(list) -> Objects] /\ DOMAIN list = 1 .. Len(list)
  OBVIOUS
<1>2. list \in Injection(1 .. Len(list), Objects)
  BY <1>1 DEF Injection
<1>3. Cardinality(1 .. Len(list)) <= Limit
  BY <1>2, FS_Injection, ObjectsAssumption DEF Limit
<1>4. Cardinality(1 .. Len(list)) = Len(list)
  <2>1. 1 \in Int /\ Len(list) \in Int /\ Len(list) >= 0
    OBVIOUS
  <2>2. Cardinality(1 .. Len(list)) = IF 1 > Len(list) THEN 0 ELSE Len(list) - 1 + 1
    BY <2>1, FS_Interval, Zenon
  <2> QED BY <2>1, <2>2
<1> QED BY <1>3, <1>4

LEMMA ChainListed ==
  ASSUME NEW t, NEW x, NEW list, Chain(t, x, list)
  PROVE  ListFrom(t, x) = list
<1> DEFINE Member(k) == IF k > Len(list) THEN Nothing ELSE list[k]
           Rest(k) == SubSeq(list, k, Len(list))
           S == {n \in Nat : n <= Limit =>
                    \A k \in 1 .. Len(list) + 1 : Len(list) + 1 - k <= n =>
                        Walk(t)[n][Member(k)] = Rest(k)}
<1>1. list \in Seq(Objects) /\ Len(list) \in Nat /\ Nothing \notin Objects
  BY ObjectsAssumption DEF Chain
<1>2. \A k \in 1 .. Len(list) + 1 : Member(k) \in ObjectIds
  BY <1>1 DEF ObjectIds
<1>3. ASSUME NEW n \in 0 .. Limit, NEW y \in ObjectIds
      PROVE  Walk(t)[n][y] = IF n = 0 \/ y = Nothing THEN <<>>
                             ELSE <<y>> \o Walk(t)[n - 1][t.sibling[y]]
  <2>1. Walk(t)[n] = Found(t, Walk(t), n)
    BY WalkDefined DEF IsWalk
  <2> QED BY <2>1 DEF Found
<1>4. \A k \in 1 .. Len(list) : list[k] # Nothing /\ t.sibling[list[k]] = Member(k + 1)
  BY <1>1 DEF Chain
<1>5. Rest(Len(list) + 1) = <<>>
  BY <1>1
<1>6. \A k \in 1 .. Len(list) : Rest(k) = <<list[k]>> \o Rest(k + 1)
  BY <1>1
<1>7. 0 \in S
  <2>1. \A k \in 1 .. Len(list) + 1 : Len(list) + 1 - k <= 0 => k = Len(list) + 1
    BY <1>1
  <2>2. Walk(t)[0][Member(Len(list) + 1)] = <<>>
    <3>1. 0 \in 0 .. Limit /\ Member(Len(list) + 1) \in ObjectIds
      BY <1>1, <1>2, LimitType
    <3> HIDE DEF Member
    <3> QED BY <3>1, <1>3
  <2> HIDE DEF Member, Rest
  <2> QED BY <2>1, <2>2, <1>5
<1>8. ASSUME NEW n \in Nat, n \in S
      PROVE  n + 1 \in S
  <2> HIDE DEF Member, Rest
  <2> SUFFICES ASSUME n + 1 <= Limit, NEW k \in 1 .. Len(list) + 1,
                      Len(list) + 1 - k <= n + 1
               PROVE  Walk(t)[n + 1][Member(k)] = Rest(k)
    OBVIOUS
  <2>0. n + 1 \in 0 .. Limit /\ n <= Limit
    BY LimitType
  <2>1. CASE k = Len(list) + 1
    <3>1. Member(k) = Nothing
      BY <1>1, <2>1 DEF Member
    <3>2. Nothing \in ObjectIds
      BY DEF ObjectIds
    <3> QED BY <3>1, <3>2, <2>1, <2>0, <1>3, <1>5
  <2>2. CASE k # Len(list) + 1
    <3>1. k \in 1 .. Len(list) /\ Member(k) = list[k] /\ k + 1 \in 1 .. Len(list) + 1
      BY <1>1, <2>2 DEF Member
    <3>2. Walk(t)[n][Member(k + 1)] = Rest(k + 1)
      <4>1. n <= Limit /\ k + 1 \in 1 .. Len(list) + 1 /\ Len(list) + 1 - (k + 1) <= n
        BY <1>1, <2>0, <3>1
      <4> QED BY <1>8, <4>1
    <3>3. n + 1 # 0 /\ n + 1 - 1 = n /\ Member(k) \in ObjectIds /\ Member(k) # Nothing
      BY <1>2, <1>4, <3>1
    <3>4. Walk(t)[n + 1][Member(k)] =
            IF n + 1 = 0 \/ Member(k) = Nothing THEN <<>>
            ELSE <<Member(k)>> \o Walk(t)[n + 1 - 1][t.sibling[Member(k)]]
      BY <1>3, <2>0, <3>3
    <3> QED BY <3>1, <3>2, <3>3, <3>4, <1>4, <1>6
  <2> QED BY <2>1, <2>2
<1>9. Limit \in S
  <2> HIDE DEF S
  <2> QED BY <1>7, <1>8, SetInduction, LimitType
<1>10. x = Member(1) /\ Rest(1) = list
  BY <1>1 DEF Chain
<1>11. Len(list) <= Limit
  BY ChainLength DEF Chain
<1>12. 1 \in 1 .. Len(list) + 1 /\ Len(list) + 1 - 1 <= Limit /\ Limit <= Limit
  BY <1>1, <1>11, LimitType
<1>13. Walk(t)[Limit][Member(1)] = Rest(1)
  <2> HIDE DEF Member, Rest
  <2> QED BY <1>9, <1>12
<1> QED BY <1>13, <1>10 DEF ListFrom, Limit

-----------------------------------------------------------------------------
(***************************************************************************)
(* Taking an object out of its list.                                       *)
(***************************************************************************)
LEMMA RemovedElement ==
  ASSUME NEW list \in Seq(Objects), IsInjective(list), NEW k \in DOMAIN list
  PROVE  /\ RemoveAt(list, k) \in Seq(Objects)
         /\ Len(RemoveAt(list, k)) = Len(list) - 1
         /\ \A n \in 1 .. Len(list) - 1 :
               RemoveAt(list, k)[n] = IF n < k THEN list[n] ELSE list[n + 1]
         /\ IsInjective(RemoveAt(list, k))
         /\ ToSet(RemoveAt(list, k)) = ToSet(list) \ {list[k]}
<1> DEFINE r == RemoveAt(list, k)
<1>1. /\ r \in Seq(Objects)
      /\ Len(r) = Len(list) - 1
      /\ \A n \in 1 .. Len(list) - 1 : r[n] = IF n < k THEN list[n] ELSE list[n + 1]
  <2> DEFINE left  == SubSeq(list, 1, k - 1)
             right == SubSeq(list, k + 1, Len(list))
  <2>1. k \in 1 .. Len(list) /\ Len(list) \in Nat
    OBVIOUS
  <2>2. /\ left \in Seq(Objects) /\ Len(left) = k - 1
        /\ \A n \in 1 .. k - 1 : left[n] = list[n]
    BY <2>1
  <2>3. /\ right \in Seq(Objects) /\ Len(right) = Len(list) - k
        /\ \A n \in 1 .. Len(list) - k : right[n] = list[k + n]
    BY <2>1
  <2>4. r = left \o right
    BY DEF RemoveAt
  <2> HIDE DEF left, right, r
  <2>5. r \in Seq(Objects) /\ Len(r) = Len(list) - 1
    BY <2>1, <2>2, <2>3, <2>4
  <2>6. ASSUME NEW n \in 1 .. Len(list) - 1
        PROVE  r[n] = IF n < k THEN list[n] ELSE list[n + 1]
    <3>1. CASE n < k
      BY <2>1, <2>2, <2>3, <2>4, <3>1
    <3>2. CASE n >= k
      <4>1. r[n] = right[n - (k - 1)] /\ n - (k - 1) \in 1 .. Len(list) - k
        BY <2>1, <2>2, <2>3, <2>4, <3>2, SMTT(30)
      <4>2. k + (n - (k - 1)) = n + 1
        BY <2>1
      <4> QED BY <2>3, <3>2, <4>1, <4>2
    <3> QED BY <2>1, <3>1, <3>2
  <2> QED BY <2>5, <2>6
<1> HIDE DEF r
<1>2. DOMAIN r = 1 .. Len(list) - 1 /\ DOMAIN list = 1 .. Len(list)
  BY <1>1
<1> DEFINE from(n) == IF n < k THEN n ELSE n + 1
<1>n. \A n \in DOMAIN r : /\ from(n) \in DOMAIN list /\ from(n) # k
                          /\ r[n] = list[from(n)]
  BY <1>1, <1>2
<1>m. \A m, n \in DOMAIN r : from(m) = from(n) => m = n
  BY <1>2
<1> HIDE DEF from
<1>k. k \in DOMAIN list
  OBVIOUS
<1>3. IsInjective(r)
  BY <1>n, <1>m DEF IsInjective
<1>4. ToSet(r) \subseteq ToSet(list) \ {list[k]}
  BY <1>n, <1>k DEF IsInjective, ToSet
<1>5. ASSUME NEW x \in ToSet(list) \ {list[k]}
      PROVE  x \in ToSet(r)
  <2>1. PICK n \in DOMAIN list : x = list[n]
    BY DEF ToSet
  <2>2. CASE n < k
    BY <2>1, <2>2, <1>1, <1>2 DEF ToSet
  <2>3. CASE n > k
    <3>1. n - 1 \in DOMAIN r /\ r[n - 1] = x
      BY <2>1, <2>3, <1>1, <1>2
    <3> QED BY <3>1 DEF ToSet
  <2> QED BY <2>1, <2>2, <2>3, <1>2
<1> QED BY <1>1, <1>3, <1>4, <1>5 DEF r

\* What the others hold once o has been taken out.
Remaining(t, o) == Forest!Without(Contents(t), o)

LEMMA RemainingLists ==
  ASSUME NEW t \in Trees, WellFormed(t), NEW o \in Objects, NEW holder \in Objects
  PROVE  /\ ToSet(ListOf(t, holder)) = {x \in Objects : t.parent[x] = holder}
         /\ t.parent[o] # holder => Remaining(t, o)[holder] = ListOf(t, holder)
         /\ t.parent[o] = holder =>
              \E k \in DOMAIN ListOf(t, holder) :
                  /\ ListOf(t, holder)[k] = o
                  /\ Remaining(t, o)[holder] = RemoveAt(ListOf(t, holder), k)
<1> DEFINE list == ListOf(t, holder)
<1>1. list \in Seq(Objects) /\ \A x \in Objects : t.parent[x] = holder <=> x \in ToSet(list)
  BY DEF WellFormed, Chain
<1>2. ToSet(list) \subseteq Objects
  BY <1>1 DEF ToSet
<1>3. Remaining(t, o)[holder] =
        IF o \in ToSet(list) THEN RemoveAt(list, CHOOSE n \in DOMAIN list : list[n] = o)
        ELSE list
  <2>1. \A l, k : Forest!ToSet(l) = ToSet(l) /\ Forest!RemoveAt(l, k) = RemoveAt(l, k)
    BY Zenon DEF Forest!ToSet, Forest!RemoveAt, ToSet, RemoveAt
  <2>2. Contents(t)[holder] = list
    BY DEF Contents
  <2> DEFINE Where(l) == CHOOSE n \in DOMAIN l : l[n] = o
             Short(l) == IF o \in Forest!ToSet(l) THEN Forest!RemoveAt(l, Where(l)) ELSE l
  <2>3. Remaining(t, o)[holder] = Short(Contents(t)[holder])
    BY Zenon DEF Remaining, Forest!Without
  <2>4. Short(list) = IF o \in ToSet(list) THEN RemoveAt(list, Where(list)) ELSE list
    <3> HIDE DEF Where, list
    <3> QED BY <2>1
  <2> HIDE DEF list, Short
  <2> QED BY <2>2, <2>3, <2>4
<1>4. CASE t.parent[o] # holder
  BY <1>1, <1>2, <1>3, <1>4
<1>5. CASE t.parent[o] = holder
  <2>1. o \in ToSet(list)
    BY <1>1, <1>5
  <2>2. \E n \in DOMAIN list : list[n] = o
    BY <2>1 DEF ToSet
  <2> DEFINE k == CHOOSE n \in DOMAIN list : list[n] = o
  <2>3. k \in DOMAIN list /\ list[k] = o
    BY <2>2
  <2> QED BY <1>1, <1>2, <1>3, <1>5, <2>1, <2>3
<1> QED BY <1>4, <1>5

LEMMA UnparentedLists ==
  ASSUME NEW t \in Trees, WellFormed(t), NEW o \in Objects
  PROVE  /\ Unparented(t, o) \in Trees
         /\ Unparented(t, o).parent = t.parent
         /\ ~ Lost(t, o)
         /\ \A holder \in Objects :
               /\ Chain(Unparented(t, o), Unparented(t, o).child[holder],
                        Remaining(t, o)[holder])
               /\ ToSet(Remaining(t, o)[holder])
                    = {x \in Objects : t.parent[x] = holder} \ {o}
<1> DEFINE u == Unparented(t, o)
           p == t.parent[o]
           list(h) == ListOf(t, h)
<1>1. /\ t.parent \in [Objects -> ObjectIds]
      /\ t.sibling \in [Objects -> ObjectIds]
      /\ t.child \in [Objects -> ObjectIds]
      /\ t = [parent |-> t.parent, sibling |-> t.sibling, child |-> t.child]
  BY DEF Trees
<1>2. Nothing \notin Objects /\ ObjectIds = Objects \cup {Nothing}
  BY ObjectsAssumption DEF ObjectIds
<1>3. \A h \in Objects : /\ Chain(t, t.child[h], list(h))
                         /\ ToSet(list(h)) = {x \in Objects : t.parent[x] = h}
  BY RemainingLists DEF WellFormed
<1>4. CASE p = Nothing
  <2>1. u = t /\ ~ Lost(t, o)
    BY <1>4 DEF Unparented, Lost
  <2>2. \A h \in Objects : Remaining(t, o)[h] = list(h)
    BY <1>2, <1>4, RemainingLists
  <2> QED BY <1>2, <1>3, <1>4, <2>1, <2>2
<1>5. CASE p # Nothing
  <2>1. p \in Objects
    BY <1>1, <1>2, <1>5
  <2>2. PICK k \in DOMAIN list(p) : list(p)[k] = o /\ Remaining(t, o)[p] = RemoveAt(list(p), k)
    BY <2>1, RemainingLists
  <2>3. /\ list(p) \in Seq(Objects) /\ IsInjective(list(p))
        /\ t.child[p] = list(p)[1]
        /\ \A n \in DOMAIN list(p) :
             t.sibling[list(p)[n]] = IF n = Len(list(p)) THEN Nothing ELSE list(p)[n + 1]
    BY <1>3, <2>1, <2>2 DEF Chain
  <2>4. DOMAIN list(p) = 1 .. Len(list(p)) /\ Len(list(p)) \in Nat
    BY <2>3
  <2>5. Before(t, o) = IF k = 1 THEN {} ELSE {list(p)[k - 1]}
    <3>1. Before(t, o) = {x \in ToSet(list(p)) : t.sibling[x] = o}
      BY DEF Before
    <3>2. \A n \in DOMAIN list(p) : t.sibling[list(p)[n]] = o <=> n + 1 = k
      BY <1>2, <2>2, <2>3, <2>4 DEF IsInjective
    <3> HIDE DEF list
    <3> QED BY <2>2, <2>4, <3>1, <3>2 DEF ToSet
  <2>6. t.child[p] = o <=> k = 1
    BY <2>2, <2>3, <2>4 DEF IsInjective
  <2>7. ~ Lost(t, o)
    BY <2>5, <2>6 DEF Lost
  <2>8. /\ u.parent = t.parent
        /\ u.child = IF k = 1 THEN [t.child EXCEPT ![p] = t.sibling[o]] ELSE t.child
        /\ u.sibling = IF k = 1 THEN t.sibling
                       ELSE [x \in Objects |-> IF x = list(p)[k - 1] THEN t.sibling[o]
                                               ELSE t.sibling[x]]
        /\ u \in Trees
    BY <1>1, <1>5, <2>1, <2>5, <2>6 DEF Unparented, Trees
  <2>9. ASSUME NEW h \in Objects, h # p
        PROVE  /\ Chain(u, u.child[h], Remaining(t, o)[h])
               /\ ToSet(Remaining(t, o)[h]) = {x \in Objects : t.parent[x] = h} \ {o}
    <3>1. Remaining(t, o)[h] = list(h) /\ u.child[h] = t.child[h]
      BY <1>1, <2>8, <2>9, RemainingLists
    <3>2. \A n \in DOMAIN list(h) : u.sibling[list(h)[n]] = t.sibling[list(h)[n]]
      <4>1. ASSUME NEW n \in DOMAIN list(h) PROVE list(h)[n] \in Objects /\ t.parent[list(h)[n]] = h
        BY <1>3 DEF ToSet
      <4>2. k # 1 => t.parent[list(p)[k - 1]] = p
        <5>1. k # 1 => list(p)[k - 1] \in ToSet(list(p))
          BY <2>4 DEF ToSet
        <5> QED BY <1>3, <2>1, <5>1
      <4> HIDE DEF list, u
      <4> QED BY <2>8, <2>9, <4>1, <4>2
    <3>3. ToSet(list(h)) = {x \in Objects : t.parent[x] = h} \ {o}
      BY <1>3, <2>9
    <3> HIDE DEF list, u
    <3>4. Chain(u, t.child[h], list(h))
      BY <1>3, <3>2 DEF Chain
    <3> QED BY <3>1, <3>3, <3>4
  <2>10. /\ Chain(u, u.child[p], Remaining(t, o)[p])
         /\ ToSet(Remaining(t, o)[p]) = {x \in Objects : t.parent[x] = p} \ {o}
    <3> DEFINE r == Remaining(t, o)[p]
               s == list(p)
    <3>1. /\ r \in Seq(Objects) /\ IsInjective(r) /\ Len(r) = Len(s) - 1
          /\ \A n \in 1 .. Len(s) - 1 : r[n] = IF n < k THEN s[n] ELSE s[n + 1]
          /\ ToSet(r) = ToSet(s) \ {o}
      <4> HIDE DEF list
      <4> QED BY <2>2, <2>3, RemovedElement DEF r, s
    <3>2. DOMAIN r = 1 .. Len(s) - 1
      BY <3>1
    <3>3. s \in Seq(Objects) /\ DOMAIN s = 1 .. Len(s) /\ s[k] = o /\ k \in 1 .. Len(s)
      BY <2>2, <2>3
    <3>4. \A n \in 1 .. Len(s) : t.sibling[s[n]] = IF n = Len(s) THEN Nothing ELSE s[n + 1]
      BY <2>3, <3>3
    <3>5. \A m, n \in 1 .. Len(s) : s[m] = s[n] => m = n
      BY <2>3, <3>3 DEF IsInjective
    <3>6. u.child[p] = IF r = <<>> THEN Nothing ELSE r[1]
      <4> HIDE DEF list, u, r, s
      <4>1. CASE k = 1
        <5>1. u.child[p] = t.sibling[s[k]]
          BY <1>1, <2>1, <2>8, <3>3, <4>1
        <5> QED BY <5>1, <3>1, <3>2, <3>3, <3>4, <4>1
      <4>2. CASE k # 1
        <5>1. u.child[p] = s[1] /\ Len(r) >= 1
          BY <2>3, <2>8, <3>1, <3>3, <4>2 DEF s
        <5> QED BY <5>1, <3>1, <3>2, <3>3, <4>2
      <4> QED BY <4>1, <4>2
    <3>7. ASSUME NEW n \in DOMAIN r
          PROVE  u.sibling[r[n]] = IF n = Len(r) THEN Nothing ELSE r[n + 1]
      <4> HIDE DEF list, u, r
      <4>1. \A m \in 1 .. Len(s) : u.sibling[s[m]] = IF k # 1 /\ m = k - 1 THEN t.sibling[s[k]]
                                                    ELSE t.sibling[s[m]]
        <5>1. \A m \in 1 .. Len(s) : s[m] \in Objects
          BY <3>3
        <5>2. k # 1 => k - 1 \in 1 .. Len(s)
          BY <3>3
        <5>3. CASE k = 1
          BY <2>8, <5>3
        <5>4. CASE k # 1
          BY <2>8, <3>3, <3>5, <5>1, <5>2, <5>4
        <5> QED BY <5>3, <5>4
      <4> HIDE DEF s
      <4>2. CASE n + 1 < k
        BY <3>1, <3>2, <3>3, <3>4, <4>1, <4>2
      <4>3. CASE n + 1 = k
        BY <3>1, <3>2, <3>3, <3>4, <4>1, <4>3
      <4>4. CASE n >= k
        <5>1. n + 1 \in 1 .. Len(s) /\ n + 1 # k - 1 /\ r[n] = s[n + 1]
          BY <3>1, <3>2, <3>3, <4>4
        <5>2. u.sibling[r[n]] = t.sibling[s[n + 1]]
          BY <4>1, <5>1
        <5>3. n # Len(r) => n + 1 \in 1 .. Len(s) - 1 /\ r[n + 1] = s[n + 1 + 1]
          BY <3>1, <3>2, <3>3, <4>4
        <5> QED BY <3>1, <3>2, <3>3, <3>4, <5>1, <5>2, <5>3
      <4> QED BY <3>2, <3>3, <4>2, <4>3, <4>4
    <3>8. ToSet(r) = {x \in Objects : t.parent[x] = p} \ {o}
      BY <1>3, <2>1, <3>1
    <3> HIDE DEF r, u
    <3> QED BY <3>1, <3>6, <3>7, <3>8 DEF Chain, r
  <2> QED BY <2>7, <2>8, <2>9, <2>10
<1> QED BY <1>4, <1>5

-----------------------------------------------------------------------------
(***************************************************************************)
(* Moves make well-formed trees of well-formed trees.                      *)
(***************************************************************************)
\* Lists that are chains of the right objects are the lists of the tree.
HasLists(t, lists) ==
    \A h \in Objects : /\ Chain(t, t.child[h], lists[h])
                       /\ ToSet(lists[h]) = {x \in Objects : t.parent[x] = h}

LEMMA ListsDetermined ==
  ASSUME NEW t, NEW lists \in [Objects -> Seq(Objects)], HasLists(t, lists)
  PROVE  WellFormed(t) /\ Contents(t) = lists
<1>1. \A h \in Objects : ListOf(t, h) = lists[h]
  BY ChainListed DEF ListOf, HasLists
<1> QED BY <1>1 DEF WellFormed, Contents, HasLists

LEMMA RemainingType ==
  ASSUME NEW t \in Trees, WellFormed(t), NEW o \in Objects
  PROVE  Remaining(t, o) \in [Objects -> Seq(Objects)]
<1>1. \A h \in Objects : Remaining(t, o)[h] \in Seq(Objects)
  BY UnparentedLists DEF Chain
<1> DEFINE Where(l) == CHOOSE n \in DOMAIN l : l[n] = o
           Short(l) == IF o \in Forest!ToSet(l) THEN Forest!RemoveAt(l, Where(l)) ELSE l
<1>2. Remaining(t, o) = [h \in Objects |-> Short(Contents(t)[h])]
  BY Zenon DEF Remaining, Forest!Without
<1> HIDE DEF Short
<1> QED BY <1>1, <1>2

LEMMA RemovedWellFormed ==
  ASSUME NEW t \in Trees, WellFormed(t), NEW o \in Objects
  PROVE  /\ Removed(t, o) \in Trees
         /\ WellFormed(Removed(t, o))
         /\ Contents(Removed(t, o)) = Remaining(t, o)
<1> DEFINE u == Unparented(t, o)
           v == Removed(t, o)
           rest == Remaining(t, o)
<1>1. /\ u \in Trees /\ u.parent = t.parent
      /\ \A h \in Objects : /\ Chain(u, u.child[h], rest[h])
                            /\ ToSet(rest[h]) = {x \in Objects : t.parent[x] = h} \ {o}
  BY UnparentedLists
<1>2. Nothing \notin Objects /\ ObjectIds = Objects \cup {Nothing}
  BY ObjectsAssumption DEF ObjectIds
<1> HIDE DEF u, rest
<1>3. /\ v \in Trees
      /\ v.parent = [u.parent EXCEPT ![o] = Nothing]
      /\ v.sibling = [u.sibling EXCEPT ![o] = Nothing]
      /\ v.child = u.child
  BY <1>1, <1>2 DEF Removed, Trees, u
<1> HIDE DEF v
<1>4. ASSUME NEW h \in Objects
      PROVE  /\ Chain(v, v.child[h], rest[h])
             /\ ToSet(rest[h]) = {x \in Objects : v.parent[x] = h}
  <2>1. \A n \in DOMAIN rest[h] : rest[h][n] \in Objects \ {o}
    BY <1>1 DEF ToSet
  <2>2. \A n \in DOMAIN rest[h] : v.sibling[rest[h][n]] = u.sibling[rest[h][n]]
    BY <1>1, <1>3, <2>1 DEF Trees
  <2>3. Chain(v, v.child[h], rest[h])
    BY <1>1, <1>3, <2>2 DEF Chain
  <2>4. {x \in Objects : t.parent[x] = h} \ {o} = {x \in Objects : v.parent[x] = h}
    BY <1>1, <1>2, <1>3 DEF Trees
  <2> QED BY <1>1, <2>3, <2>4
<1>5. rest \in [Objects -> Seq(Objects)]
  BY RemainingType DEF rest
<1>6. WellFormed(v) /\ Contents(v) = rest
  BY <1>4, <1>5, ListsDetermined DEF HasLists
<1> QED BY <1>3, <1>6 DEF v, rest

LEMMA InsertedWellFormed ==
  ASSUME NEW t \in Trees, WellFormed(t), NEW o \in Objects, NEW dst \in Objects
  PROVE  /\ Inserted(t, o, dst) \in Trees
         /\ WellFormed(Inserted(t, o, dst))
         /\ Contents(Inserted(t, o, dst)) = [Remaining(t, o) EXCEPT ![dst] = <<o>> \o @]
<1> DEFINE u == Unparented(t, o)
           v == Inserted(t, o, dst)
           rest == Remaining(t, o)
           lists == [rest EXCEPT ![dst] = <<o>> \o @]
<1>1. /\ u \in Trees /\ u.parent = t.parent
      /\ \A h \in Objects : /\ Chain(u, u.child[h], rest[h])
                            /\ ToSet(rest[h]) = {x \in Objects : t.parent[x] = h} \ {o}
  BY UnparentedLists
<1>2. Nothing \notin Objects /\ ObjectIds = Objects \cup {Nothing}
  BY ObjectsAssumption DEF ObjectIds
<1>3. rest \in [Objects -> Seq(Objects)]
  BY RemainingType
<1> HIDE DEF u, rest
<1>4. /\ v \in Trees
      /\ v.parent = [u.parent EXCEPT ![o] = dst]
      /\ v.sibling = [u.sibling EXCEPT ![o] = u.child[dst]]
      /\ v.child = [u.child EXCEPT ![dst] = o]
  BY <1>1, <1>2 DEF Inserted, Trees, u
<1>5. /\ lists \in [Objects -> Seq(Objects)]
      /\ lists[dst] = <<o>> \o rest[dst]
      /\ \A h \in Objects : h # dst => lists[h] = rest[h]
  BY <1>3
<1> HIDE DEF v, lists
<1>6. \A h \in Objects : \A n \in DOMAIN rest[h] :
        /\ rest[h][n] \in Objects \ {o}
        /\ v.sibling[rest[h][n]] = u.sibling[rest[h][n]]
  <2> TAKE h \in Objects
  <2>1. \A n \in DOMAIN rest[h] : rest[h][n] \in Objects \ {o}
    BY <1>1 DEF ToSet
  <2> QED BY <1>1, <1>4, <2>1 DEF Trees
<1>7. ASSUME NEW h \in Objects, h # dst
      PROVE  /\ Chain(v, v.child[h], lists[h])
             /\ ToSet(lists[h]) = {x \in Objects : v.parent[x] = h}
  <2>1. v.child[h] = u.child[h]
    BY <1>1, <1>4, <1>7 DEF Trees
  <2>2. Chain(v, v.child[h], rest[h])
    BY <1>1, <1>6, <2>1 DEF Chain
  <2>3. {x \in Objects : t.parent[x] = h} \ {o} = {x \in Objects : v.parent[x] = h}
    BY <1>1, <1>4, <1>7 DEF Trees
  <2> QED BY <1>1, <1>5, <1>7, <2>2, <2>3
<1>8. Chain(v, v.child[dst], lists[dst])
  <2> DEFINE r == rest[dst]
             s == lists[dst]
  <2>1. /\ r \in Seq(Objects) /\ IsInjective(r)
        /\ u.child[dst] = IF r = <<>> THEN Nothing ELSE r[1]
        /\ \A n \in DOMAIN r : u.sibling[r[n]] = IF n = Len(r) THEN Nothing ELSE r[n + 1]
    BY <1>1 DEF Chain
  <2>2. DOMAIN r = 1 .. Len(r) /\ Len(r) \in Nat
    BY <2>1
  <2>3. \A n \in 1 .. Len(r) : r[n] \in Objects \ {o} /\ v.sibling[r[n]] = u.sibling[r[n]]
    BY <1>6, <2>2
  <2>4. s = <<o>> \o r
    BY <1>5
  <2> HIDE DEF r, s
  <2>5. /\ s \in Seq(Objects) /\ Len(s) = Len(r) + 1 /\ DOMAIN s = 1 .. Len(r) + 1
        /\ s[1] = o /\ s # <<>>
        /\ \A n \in 1 .. Len(r) : s[n + 1] = r[n]
    BY <2>1, <2>2, <2>4
  <2>6. \A n \in 2 .. Len(r) + 1 : s[n] = r[n - 1] /\ n - 1 \in 1 .. Len(r)
    BY <2>2, <2>5
  <2>7. IsInjective(s)
    <3>1. \A m, n \in 1 .. Len(r) : r[m] = r[n] => m = n
      BY <2>1, <2>2 DEF IsInjective
    <3>2. ASSUME NEW m \in 1 .. Len(r) + 1, NEW n \in 1 .. Len(r) + 1, s[m] = s[n]
          PROVE  m = n
      <4>1. m # 1 => m \in 2 .. Len(r) + 1
        BY <2>2
      <4>2. n # 1 => n \in 2 .. Len(r) + 1
        BY <2>2
      <4> QED BY <2>2, <2>3, <2>5, <2>6, <3>1, <3>2, <4>1, <4>2
    <3> QED BY <2>5, <3>2 DEF IsInjective
  <2>8. v.child[dst] = o /\ v.sibling[o] = u.child[dst]
    BY <1>1, <1>4 DEF Trees
  <2>9. ASSUME NEW n \in 1 .. Len(r) + 1
        PROVE  v.sibling[s[n]] = IF n = Len(s) THEN Nothing ELSE s[n + 1]
    <3>1. CASE n = 1
      <4>1. r = <<>> <=> Len(r) = 0
        BY <2>1
      <4> QED BY <2>1, <2>2, <2>5, <2>8, <3>1, <4>1
    <3>2. CASE n # 1
      <4>1. n \in 2 .. Len(r) + 1
        BY <2>2, <3>2
      <4>2. v.sibling[s[n]] = u.sibling[r[n - 1]]
        BY <2>3, <2>6, <4>1
      <4>3. n - 1 # Len(r) => s[n + 1] = r[n - 1 + 1]
        BY <2>2, <2>5, <4>1
      <4> QED BY <2>1, <2>2, <2>5, <2>6, <4>1, <4>2, <4>3, SMTT(30)
    <3> QED BY <3>1, <3>2
  <2> QED BY <2>5, <2>7, <2>8, <2>9 DEF Chain, s
<1>9. ToSet(lists[dst]) = {x \in Objects : v.parent[x] = dst}
  <2>1. rest[dst] \in Seq(Objects)
    BY <1>3
  <2>2. ToSet(<<o>> \o rest[dst]) = {o} \cup ToSet(rest[dst])
    <3> DEFINE r == rest[dst]
               s == <<o>> \o r
    <3>1. /\ DOMAIN s = 1 .. Len(r) + 1 /\ s[1] = o /\ DOMAIN r = 1 .. Len(r)
          /\ \A n \in 1 .. Len(r) : s[n + 1] = r[n]
          /\ Len(r) \in Nat
      BY <2>1
    <3>2. \A n \in 1 .. Len(r) + 1 : n = 1 \/ (n - 1 \in 1 .. Len(r) /\ s[n] = r[n - 1])
      BY <3>1
    <3> HIDE DEF r, s
    <3>3. ToSet(s) \subseteq {o} \cup ToSet(r)
      BY <3>1, <3>2 DEF ToSet
    <3>4. ASSUME NEW x \in ToSet(r) PROVE x \in ToSet(s)
      <4>1. PICK n \in 1 .. Len(r) : x = r[n]
        BY <3>1 DEF ToSet
      <4>2. n + 1 \in DOMAIN s /\ s[n + 1] = x
        BY <3>1, <4>1
      <4> QED BY <4>2 DEF ToSet
    <3>5. o \in ToSet(s)
      BY <3>1 DEF ToSet
    <3> QED BY <3>3, <3>4, <3>5 DEF r, s
  <2>3. {o} \cup ({x \in Objects : t.parent[x] = dst} \ {o}) = {x \in Objects : v.parent[x] = dst}
    BY <1>1, <1>4 DEF Trees
  <2> QED BY <1>1, <1>5, <2>2, <2>3
<1>10. HasLists(v, lists)
  BY <1>7, <1>8, <1>9 DEF HasLists
<1>11. WellFormed(v) /\ Contents(v) = lists
  BY <1>5, <1>10, ListsDetermined
<1> QED BY <1>4, <1>11 DEF v, lists, rest
-----------------------------------------------------------------------------
(***************************************************************************)
(* The invariant: the tree in memory and the one in a complete file are    *)
(* well formed, whatever has been moved, saved, restored or lost; and the  *)
(* file makes the game that was promised.                                  *)
(***************************************************************************)
Whole(pieces) ==
    /\ pieces[1][2] \in Trees
    /\ WellFormed(pieces[1][2])
    /\ pieces[2][2] \in Places

PromiseKept == promise # NoPromise => Complete(file) /\ GameInFile = promise

ObjInv ==
    /\ ObjTypeOK
    /\ WellFormed(tree)
    /\ Complete(file) => Whole(file)
    /\ NeverLost
    /\ PromiseKept
    /\ status # "running" => tree = StoryTree /\ place = StoryPlace

LEMMA NoFileIncomplete == ~ Complete(NoFile)
<1>1. DOMAIN NoFile = 1 .. 1
  BY DEF NoFile
<1>2. 5 \in 1 .. 5 /\ 5 \notin 1 .. 1
  OBVIOUS
<1> QED BY <1>1, <1>2 DEF Complete

LEMMA InitInv == ObjInit => ObjInv
BY NoFileIncomplete, StoryAssumption DEF ObjInit, ObjInv, ObjTypeOK, NeverLost, PromiseKept

\* Nothing is promised that the file does not hold, while neither of them changes.
LEMMA PromiseStays ==
  ASSUME PromiseKept, UNCHANGED <<file, promise>>
  PROVE  PromiseKept'
BY DEF PromiseKept, GameInFile

\* A game that ends, whatever has become of the file.
LEMMA EndedInv ==
  ASSUME ObjInv, NEW how \in {"running", "dead", "astray", "undefined"}, Ended(how),
         Complete(file') => Whole(file'),
         promise' = NoPromise \/ (UNCHANGED <<file, promise>>)
  PROVE  ObjInv'
<1>1. PromiseKept'
  BY PromiseStays DEF ObjInv, PromiseKept
<1>2. promise' \in [tree : Trees, place : Places] \cup {NoPromise}
  BY DEF ObjInv, ObjTypeOK
<1> QED BY <1>1, <1>2, StoryAssumption DEF ObjInv, ObjTypeOK, NeverLost, Ended

LEMMA WrittenPieces ==
  ASSUME NEW which \in SUBSET (1 .. 5)
  PROVE  /\ Complete(Written(which)) <=> which = 1 .. 5
         /\ which = 1 .. 5 => /\ Written(which)[1][2] = tree
                              /\ Written(which)[2][2] = place
<1>1. DOMAIN Written(which) = which
  BY DEF Written
<1>2. Pieces[1][2] = tree /\ Pieces[2][2] = place
  BY DEF Pieces
<1>3. which = 1 .. 5 => Written(which)[1] = Pieces[1] /\ Written(which)[2] = Pieces[2]
  BY DEF Written
<1> QED BY <1>1, <1>2, <1>3 DEF Complete

\* A branch leads to a place, and a file that is whole makes a game.
LEMMA BranchType ==
  ASSUME NEW p \in Places, NEW truth \in BOOLEAN
  PROVE  BranchOf[p][truth] \in Places
BY BranchAssumption

LEMMA GameType ==
  ASSUME Complete(file), Whole(file)
  PROVE  /\ GameInFile.tree = file[1][2] /\ GameInFile.tree \in Trees
         /\ WellFormed(GameInFile.tree)
         /\ GameInFile.place \in Places
         /\ GameInFile = [tree |-> GameInFile.tree, place |-> GameInFile.place]
<1>1. GameInFile.tree = file[1][2] /\ GameInFile.place = BranchOf[file[2][2]][TRUE]
  BY DEF GameInFile
<1>2. GameInFile.place \in Places
  BY <1>1, BranchType DEF Whole
<1> QED BY <1>1, <1>2, Zenon DEF Whole, GameInFile

\* The file after a save, or a kill within one.
LEMMA FileWritten ==
  ASSUME ObjInv, NEW kept \in Outcomes, file' = Written(kept)
  PROVE  /\ Complete(file') => Whole(file')
         /\ Complete(file') <=> kept = 1 .. 5
         /\ Complete(file') => GameInFile' = [tree |-> tree, place |-> BranchOf[place][TRUE]]
<1>1. kept \in SUBSET (1 .. 5)
  BY OutcomesAssumption
<1>2. Complete(file') <=> kept = 1 .. 5
  BY <1>1, WrittenPieces
<1>3. ASSUME Complete(file')
      PROVE  file'[1][2] = tree /\ file'[2][2] = place
  BY <1>1, <1>2, <1>3, WrittenPieces
<1>4. Complete(file') => Whole(file')
  BY <1>3 DEF Whole, ObjInv, ObjTypeOK
<1>5. GameInFile' = [tree |-> file'[1][2], place |-> BranchOf[file'[2][2]][TRUE]]
  BY DEF GameInFile
<1> QED BY <1>2, <1>3, <1>4, <1>5

LEMMA StepInv == ObjInv /\ [ObjNext]_objVars => ObjInv'
<1> SUFFICES ASSUME ObjInv, [ObjNext]_objVars PROVE ObjInv'
  OBVIOUS
<1> USE DEF ObjInv
<1>a. file' = file => (Complete(file') => Whole(file'))
  OBVIOUS
<1>b. (UNCHANGED <<file, promise>>) => PromiseKept'
  BY PromiseStays
<1>1. ASSUME status = "running", NEW o \in Objects, NEW dst \in Objects, InsertObj(o, dst)
      PROVE  ObjInv'
  <2>1. ~ Lost(tree, o)
    BY UnparentedLists DEF ObjTypeOK
  <2>2. tree' \in Trees /\ WellFormed(tree')
    BY <1>1, InsertedWellFormed DEF ObjTypeOK, InsertObj, Move
  <2> QED BY <1>1, <2>1, <2>2, <1>a, <1>b DEF ObjTypeOK, InsertObj, Move, NeverLost
<1>2. ASSUME status = "running", NEW o \in Objects, RemoveObj(o)
      PROVE  ObjInv'
  <2>1. ~ Lost(tree, o)
    BY UnparentedLists DEF ObjTypeOK
  <2>2. tree' \in Trees /\ WellFormed(tree')
    BY <1>2, RemovedWellFormed DEF ObjTypeOK, RemoveObj, Move
  <2> QED BY <1>2, <2>1, <2>2, <1>a, <1>b DEF ObjTypeOK, RemoveObj, Move, NeverLost
<1>3. ASSUME status = "running", NEW o \in ObjectIds, Jin(o)
      PROVE  ObjInv'
  <2>1. CASE o = Nothing
    BY <1>3, <2>1, <1>a, EndedInv DEF Jin, Halt
  <2>2. CASE o # Nothing
    BY <1>3, <2>2, <1>a, <1>b DEF Jin, Continue, ObjTypeOK, NeverLost
  <2> QED BY <2>1, <2>2
<1>4. ASSUME status = "running", Other
      PROVE  ObjInv'
  BY <1>4, <1>a, <1>b DEF Other, Continue, ObjTypeOK, NeverLost
<1>5. ASSUME Die \/ Restart \/ SaveUnopened \/ RestoreUnopened
      PROVE  ObjInv'
  BY <1>5, <1>a, EndedInv DEF Die, Restart, SaveUnopened, RestoreUnopened, Halt
<1>6. ASSUME status = "running", NEW written \in Outcomes, NEW kept \in Outcomes,
             Save(written, kept)
      PROVE  ObjInv'
  <2>1. /\ Complete(file') => Whole(file')
        /\ Complete(file') <=> kept = 1 .. 5
        /\ Complete(file') => GameInFile' = [tree |-> tree, place |-> BranchOf[place][TRUE]]
    BY <1>6, FileWritten DEF Save
  <2>2. Answer(written) \in BOOLEAN /\ (Answer(written) <=> written = 1 .. 5)
    BY DEF Answer
  <2>3. place' = BranchOf[place][Answer(written)] /\ place' \in Places
    BY <1>6, <2>2, BranchType DEF Save, ObjTypeOK
  <2>4. ASSUME promise' # NoPromise
        PROVE  /\ Answer(written) = TRUE /\ kept = 1 .. 5
               /\ promise' = [tree |-> tree, place |-> place']
    <3>1. Answer(written) /\ kept = written /\ promise' = [tree |-> tree, place |-> place']
      BY <1>6, <2>4 DEF Save
    <3> QED BY <2>2, <3>1
  <2>5. PromiseKept'
    BY <2>1, <2>3, <2>4 DEF PromiseKept
  <2>6. promise' \in [tree : Trees, place : Places] \cup {NoPromise}
    <3>1. tree \in Trees
      BY DEF ObjTypeOK
    <3>2. [tree |-> tree, place |-> place'] \in [tree : Trees, place : Places]
      BY <2>3, <3>1
    <3> QED BY <2>4, <3>2
  <2> QED BY <1>6, <2>1, <2>3, <2>5, <2>6 DEF Save, ObjTypeOK, NeverLost
<1>7. ASSUME NEW kept \in Outcomes, KilledWhileSaving(kept)
      PROVE  ObjInv'
  <2>1. Complete(file') => Whole(file')
    BY <1>7, FileWritten DEF KilledWhileSaving
  <2> QED BY <1>7, <2>1, EndedInv DEF KilledWhileSaving
<1>8. ASSUME status = "running", Restore
      PROVE  ObjInv'
  <2>1. CASE Complete(file)
    <3>1. /\ GameInFile.tree \in Trees /\ WellFormed(GameInFile.tree)
          /\ GameInFile.place \in Places
      BY <2>1, GameType
    <3> QED BY <1>8, <2>1, <3>1, <1>a, <1>b DEF Restore, ObjTypeOK, NeverLost
  <2>2. CASE ~ Complete(file)
    BY <1>8, <2>2, <1>a, EndedInv DEF Restore, Halt
  <2> QED BY <2>1, <2>2
<1>9. ASSUME RunAgain
      PROVE  ObjInv'
  BY <1>9, <1>a, <1>b DEF RunAgain, ObjTypeOK, NeverLost
<1>10. ASSUME UNCHANGED objVars
       PROVE  ObjInv'
  BY <1>10, <1>a, <1>b DEF objVars, ObjTypeOK, NeverLost
<1> QED BY <1>1, <1>2, <1>3, <1>4, <1>5, <1>6, <1>7, <1>8, <1>9, <1>10 DEF ObjNext

LEMMA InvHolds == ObjSpec => []ObjInv
BY InitInv, StepInv, PTL DEF ObjSpec
-----------------------------------------------------------------------------
(***************************************************************************)
(* The refinement: one step per action of the machine.                     *)
(***************************************************************************)
Game(t, p) == [contents |-> Contents(t), place |-> p]

Playing == IF status = "running" THEN Game(tree, place) ELSE <<>>
Saved == IF Complete(file) THEN Game(GameInFile.tree, GameInFile.place) ELSE <<>>

LEMMA GameIsNotNoGame == ASSUME NEW t, NEW p PROVE Game(t, p) # <<>>
<1>1. DOMAIN Game(t, p) = {"contents", "place"}
  BY DEF Game
<1>2. "place" \notin DOMAIN <<>>
  OBVIOUS
<1> QED BY <1>1, <1>2

\* The actions of the forest, with the game and the saved game of the machine.
LEMMA ForestMoveInto ==
  ASSUME NEW o \in Objects, NEW holder \in Objects, NEW p \in Places, Playing # <<>>,
         Playing' = [contents |-> [Forest!Without(Playing.contents, o)
                                      EXCEPT ![holder] = <<o>> \o @], place |-> p],
         Saved' = Saved
  PROVE  Forest!ForestNext
BY DEF Playing, Saved, Game, Forest!ForestNext, Forest!Playing, Forest!Move, Forest!MoveInto

LEMMA ForestTakeAway ==
  ASSUME NEW o \in Objects, NEW p \in Places, Playing # <<>>,
         Playing' = [contents |-> Forest!Without(Playing.contents, o), place |-> p],
         Saved' = Saved
  PROVE  Forest!ForestNext
BY DEF Playing, Saved, Game, Forest!ForestNext, Forest!Playing, Forest!Move, Forest!TakeAway

LEMMA ForestPlay ==
  ASSUME NEW p \in Places, Playing # <<>>, Playing' = [Playing EXCEPT !.place = p],
         Saved' = Saved
  PROVE  Forest!ForestNext
BY DEF Playing, Saved, Game, Forest!ForestNext, Forest!Playing, Forest!Move, Forest!Play

LEMMA ForestSave ==
  ASSUME NEW p \in Places, Playing # <<>>,
         Playing' \in {[Playing EXCEPT !.place = p], <<>>},
         Saved' \in {[Playing EXCEPT !.place = p], <<>>}
  PROVE  Forest!ForestNext
BY DEF Playing, Saved, Game, Forest!ForestNext, Forest!Playing, Forest!Save

LEMMA ForestRestore ==
  ASSUME Playing # <<>>, Saved # <<>>, Playing' = Saved, Saved' = Saved
  PROVE  Forest!ForestNext
BY DEF Playing, Saved, Game, Forest!ForestNext, Forest!Playing, Forest!Restore

LEMMA ForestRestart ==
  ASSUME Playing' = Game(StoryTree, StoryPlace), Saved' = Saved
  PROVE  Forest!ForestNext
BY DEF Playing, Saved, Game, Forest!ForestNext, Forest!Restart

LEMMA ForestStop ==
  ASSUME Playing' = <<>>, Saved' = Saved
  PROVE  Forest!ForestNext
BY DEF Playing, Saved, Game, Forest!ForestNext, Forest!Stop

LEMMA InitRefines == ObjInit => Forest!ForestInit
BY NoFileIncomplete DEF ObjInit, Forest!ForestInit

\* The end of a game that leaves the file alone.
LEMMA HaltRefines ==
  ASSUME NEW how \in {"running", "dead", "astray", "undefined"}, Halt(how)
  PROVE  Forest!ForestNext
<1>1. Saved' = Saved
  BY DEF Saved, Halt, GameInFile
<1>2. CASE how = "running"
  <2>1. Playing' = Game(StoryTree, StoryPlace)
    BY <1>2 DEF Playing, Halt, Ended
  <2> QED BY <1>1, <2>1, ForestRestart
<1>3. CASE how # "running"
  <2>1. Playing' = <<>>
    BY <1>3 DEF Playing, Halt, Ended
  <2> QED BY <1>1, <2>1, ForestStop
<1> QED BY <1>2, <1>3

LEMMA StepRefines ==
  ObjInv /\ ObjInv' /\ [ObjNext]_objVars => [Forest!ForestNext]_Forest!forestVars
<1> SUFFICES ASSUME ObjInv, ObjInv', [ObjNext]_objVars
             PROVE  [Forest!ForestNext]_Forest!forestVars
  OBVIOUS
<1>a. status = "running" => Playing = Game(tree, place) /\ Playing # <<>>
  BY GameIsNotNoGame DEF Playing
<1>b. status' = "running" => Playing' = Game(tree', place')
  BY DEF Playing
<1>c. file' = file => Saved' = Saved
  BY DEF Saved, GameInFile
<1>d. \A t, p : Game(t, p).contents = Contents(t)
  BY DEF Game
<1>e. status' = status /\ status = "running" /\ tree' = tree =>
        Playing' = [Playing EXCEPT !.place = place']
  BY <1>a, <1>b DEF Game
<1>1. ASSUME status = "running", NEW o \in Objects, NEW dst \in Objects, InsertObj(o, dst)
      PROVE  Forest!ForestNext
  <2>1. /\ tree' = Inserted(tree, o, dst) /\ place' \in Places /\ file' = file
        /\ status' = "running"
    BY <1>1, UnparentedLists DEF InsertObj, Move, ObjInv, ObjTypeOK
  <2>2. Contents(tree') = [Forest!Without(Playing.contents, o) EXCEPT ![dst] = <<o>> \o @]
    BY <1>1, <1>a, <1>d, <2>1, InsertedWellFormed DEF Remaining, ObjInv, ObjTypeOK
  <2> QED BY <1>1, <1>a, <1>b, <1>c, <2>1, <2>2, ForestMoveInto DEF Game
<1>2. ASSUME status = "running", NEW o \in Objects, RemoveObj(o)
      PROVE  Forest!ForestNext
  <2>1. tree' = Removed(tree, o) /\ place' \in Places /\ file' = file /\ status' = "running"
    BY <1>2, UnparentedLists DEF RemoveObj, Move, ObjInv, ObjTypeOK
  <2>2. Contents(tree') = Forest!Without(Playing.contents, o)
    BY <1>2, <1>a, <1>d, <2>1, RemovedWellFormed DEF Remaining, ObjInv, ObjTypeOK
  <2> QED BY <1>2, <1>a, <1>b, <1>c, <2>1, <2>2, ForestTakeAway DEF Game
<1>3. ASSUME status = "running", NEW o \in ObjectIds, Jin(o)
      PROVE  Forest!ForestNext
  <2>1. CASE o = Nothing
    BY <1>3, <2>1, HaltRefines DEF Jin
  <2>2. CASE o # Nothing
    BY <1>3, <2>2, <1>a, <1>c, <1>e, ForestPlay DEF Jin, Continue
  <2> QED BY <2>1, <2>2
<1>4. ASSUME status = "running", Other
      PROVE  Forest!ForestNext
  BY <1>4, <1>a, <1>c, <1>e, ForestPlay DEF Other, Continue
<1>5. ASSUME Die \/ Restart \/ SaveUnopened \/ RestoreUnopened
      PROVE  Forest!ForestNext
  BY <1>5, HaltRefines DEF Die, Restart, SaveUnopened, RestoreUnopened
<1>6. ASSUME status = "running", NEW kept \in Outcomes, file' = Written(kept)
      PROVE  /\ Saved' # <<>> => Complete(file')
             /\ Saved' \in {[Playing EXCEPT !.place = BranchOf[place][TRUE]], <<>>}
  <2>1. Complete(file') => GameInFile' = [tree |-> tree, place |-> BranchOf[place][TRUE]]
    BY <1>6, FileWritten
  <2>2. CASE Complete(file')
    <3>1. PICK p : p = BranchOf[place][TRUE]
      OBVIOUS
    <3>2. (GameInFile.tree)' = tree /\ (GameInFile.place)' = p
      <4>1. PICK g : g = GameInFile'
        OBVIOUS
      <4>2. g = [tree |-> tree, place |-> p]
        BY <2>1, <2>2, <3>1, <4>1, Zenon
      <4>3. g.tree = tree /\ g.place = p
        BY <4>2
      <4> QED BY <4>1, <4>3
    <3>3. Saved' = Game(tree, p)
      BY <2>2, <3>2 DEF Saved
    <3>4. [Playing EXCEPT !.place = p] = Game(tree, p)
      <4>1. Playing = [contents |-> Contents(tree), place |-> place]
        BY <1>6, <1>a, Zenon DEF Game
      <4>2. [Playing EXCEPT !.place = p] = [contents |-> Contents(tree), place |-> p]
        BY <4>1
      <4> QED BY <4>2, Zenon DEF Game
    <3> QED BY <2>2, <3>1, <3>3, <3>4
  <2>3. CASE ~ Complete(file')
    BY <2>3 DEF Saved
  <2> QED BY <2>2, <2>3
<1>7. ASSUME status = "running", NEW written \in Outcomes, NEW kept \in Outcomes,
             Save(written, kept)
      PROVE  Forest!ForestNext
  <2>1. /\ Saved' # <<>> => Complete(file')
        /\ Saved' \in {[Playing EXCEPT !.place = BranchOf[place][TRUE]], <<>>}
    BY <1>6, <1>7 DEF Save
  <2>2. Playing' = [Playing EXCEPT !.place = place'] /\ place' \in Places
    BY <1>7, <1>e DEF Save, ObjInv, ObjTypeOK
  <2>3. ASSUME Complete(file')
        PROVE  place' = BranchOf[place][TRUE]
    <3>1. kept = 1 .. 5 /\ kept \subseteq written /\ written \subseteq 1 .. 5
      BY <1>7, <2>3, FileWritten, OutcomesAssumption DEF Save
    <3>2. Answer(written) = TRUE
      BY <3>1 DEF Answer
    <3> QED BY <1>7, <3>2 DEF Save
  <2> QED BY <1>7, <1>a, <2>1, <2>2, <2>3, ForestSave
<1>8. ASSUME status = "running", NEW kept \in Outcomes, KilledWhileSaving(kept)
      PROVE  Forest!ForestNext
  <2>1. Playing' = <<>>
    BY <1>8 DEF KilledWhileSaving, Ended, Playing
  <2>2. BranchOf[place][TRUE] \in Places
    BY BranchType DEF ObjInv, ObjTypeOK
  <2>3. Saved' \in {[Playing EXCEPT !.place = BranchOf[place][TRUE]], <<>>}
    BY <1>6, <1>8 DEF KilledWhileSaving
  <2> QED BY <1>8, <1>a, <2>1, <2>2, <2>3, ForestSave
<1>9. ASSUME status = "running", Restore
      PROVE  Forest!ForestNext
  <2>1. CASE Complete(file)
    <3>1. Playing' = Saved /\ Saved' = Saved /\ Saved # <<>>
      BY <1>9, <2>1, <1>b, <1>c, GameIsNotNoGame DEF Restore, Saved
    <3> QED BY <1>9, <1>a, <3>1, ForestRestore
  <2>2. CASE ~ Complete(file)
    BY <1>9, <2>2, HaltRefines DEF Restore
  <2> QED BY <2>1, <2>2
<1>10. ASSUME RunAgain
       PROVE  Forest!ForestNext
  <2>1. Playing' = Game(StoryTree, StoryPlace) /\ Saved' = Saved
    BY <1>10, <1>b, <1>c DEF RunAgain, ObjInv
  <2> QED BY <2>1, ForestRestart
<1>11. ASSUME UNCHANGED objVars
       PROVE  UNCHANGED Forest!forestVars
  BY <1>11 DEF objVars, GameInFile, Forest!forestVars
<1> QED BY <1>1, <1>2, <1>3, <1>4, <1>5, <1>7, <1>8, <1>9, <1>10, <1>11 DEF ObjNext

-----------------------------------------------------------------------------
\* The bytes of the objects, the place and the promise are what they should be.
THEOREM ObjTypeCorrect == ObjSpec => []ObjTypeOK
<1>1. ObjInv => ObjTypeOK
  BY DEF ObjInv
<1> QED BY <1>1, InvHolds, PTL

\* unparentObject never runs off the end of a list, for any number of objects, any
\* well-formed story, and any succession of moves, saves, kills and restores.
THEOREM NeverLostHolds == ObjSpec => []NeverLost
<1>1. ObjInv => NeverLost
  BY DEF ObjInv
<1> QED BY <1>1, InvHolds, PTL

\* Every object is once in the list of its parent, and in no other list.
THEOREM ListsAreWhole == ObjSpec => []ListsWhole
<1>1. ObjInv => ListsWhole
  BY DEF ObjInv, ListsWhole, Whole
<1> QED BY <1>1, InvHolds, PTL

\* A story that was told its game is saved goes on, when it restores it, as it went on
\* after that save, for any branches and any ways a save can go, whatever comes in
\* between (mojozork.c:1501-1550).
THEOREM SavedGamesAreResumed == ObjSpec => SavedGamesResume
<1>1. ASSUME ObjInv, [ObjNext]_objVars, objVars' # objVars,
             Restore \/ RestoreUnopened, promise # NoPromise
      PROVE  status' = "running" /\ [tree |-> tree', place |-> place'] = promise
  <2>1. Complete(file) /\ Whole(file) /\ GameInFile = promise
    BY <1>1 DEF ObjInv, PromiseKept
  <2>2. Restore
    BY <1>1, <2>1, NoFileIncomplete DEF RestoreUnopened
  <2>3. tree' = GameInFile.tree /\ place' = GameInFile.place /\ status' = status
    BY <2>1, <2>2 DEF Restore
  <2>4. status' = "running"
    BY <1>1, <2>3 DEF ObjNext, RunAgain
  <2> QED BY <2>1, <2>3, <2>4, GameType
<1> DEFINE Resumes ==
    (Restore \/ RestoreUnopened) /\ promise # NoPromise =>
        status' = "running" /\ [tree |-> tree', place |-> place'] = promise
<1>2. ObjInv /\ [ObjNext]_objVars => [Resumes]_objVars
  BY <1>1
<1> QED BY <1>2, InvHolds, PTL DEF ObjSpec, SavedGamesResume

\* The three bytes of the objects implement the lists of the forest, and the five
\* pieces of the file the game that was saved last.
THEOREM ObjectsImplementForest == ObjSpec => ImplementsForest
BY InitRefines, StepRefines, InvHolds, PTL DEF ObjSpec, ImplementsForest, Forest!ForestSpec

-----------------------------------------------------------------------------
(***************************************************************************)
(* The layout of the stack.                                                *)
(***************************************************************************)
Word == 0 .. Radix - 1

LocalsAt(words, base) == IF base = 0 THEN 0 ELSE words[base]

SoundFrame(words, base, top) ==
    /\ base = 0 \/ /\ base \in 5 .. Len(words)
                   /\ words[base] \in 0 .. 15
                   /\ words[base - 4] \in Variables
                   /\ ReturnPlace(words, base) \in Positions
    /\ base + LocalsAt(words, base) <= top
    /\ \A p \in base + 1 .. top : words[p] \in Values

\* The words are the frames that start at bases, with nothing between them: each
\* frame is sound up to the one it has called, where its base is stored.
Layout(words, base, bases) ==
    /\ bases \in Seq(Nat) /\ bases # <<>> /\ bases[1] = 0 /\ bases[Len(bases)] = base
    /\ \A i \in 1 .. Len(bases) : SoundFrame(words, bases[i], FrameTop(words, bases, i))
    /\ \A i, j \in 1 .. Len(bases) : i < j => bases[i] < bases[j]
    /\ \A i \in 1 .. Len(bases) - 1 : words[bases[i + 1] - 1] = bases[i]

\* What fits into a word of the stack.
LEMMA WordFacts ==
    /\ Word \subseteq Nat /\ Values \subseteq Word /\ Variables \subseteq Word
    /\ \A n \in 0 .. StackSize : n \in Word
    /\ \A n \in 0 .. 15 : n \in Word
BY StackAssumption, ValuesAssumption, VariablesAssumption DEF Word

\* What lies below the running frame.
LEMMA LowerFrames ==
  ASSUME NEW words \in Seq(Word), NEW base, NEW bases, Layout(words, base, bases),
         NEW i \in 1 .. Len(bases) - 1
  PROVE  /\ bases[i] \in Nat /\ bases[i + 1] \in Nat /\ base \in Nat
         /\ bases[i] < bases[i + 1] /\ bases[i + 1] <= base
         /\ bases[i + 1] \in 5 .. Len(words)
         /\ LocalsAt(words, bases[i]) \in 0 .. 15
         /\ bases[i] + LocalsAt(words, bases[i]) <= bases[i + 1] - 5
         /\ bases[i] # 0 => bases[i] >= 5
<1>1. i \in 1 .. Len(bases) /\ i + 1 \in 1 .. Len(bases) /\ Len(bases) \in 1 .. Len(bases)
  BY DEF Layout
<1>2. bases[i] \in Nat /\ bases[i + 1] \in Nat /\ base \in Nat
  BY <1>1, SMTT(30) DEF Layout
<1>3. bases[i] < bases[i + 1] /\ bases[i + 1] <= base
  BY <1>1, <1>2, SMTT(30) DEF Layout
<1>4. SoundFrame(words, bases[i + 1], FrameTop(words, bases, i + 1))
  BY <1>1 DEF Layout
<1>5. bases[i + 1] \in 5 .. Len(words)
  BY <1>2, <1>3, <1>4 DEF SoundFrame
<1>6. SoundFrame(words, bases[i], bases[i + 1] - 5)
  BY <1>1 DEF Layout, FrameTop
<1> QED BY <1>2, <1>3, <1>5, <1>6 DEF SoundFrame, LocalsAt

\* The running frame itself.
LEMMA TopFrame ==
  ASSUME NEW words \in Seq(Word), NEW base, NEW bases, Layout(words, base, bases)
  PROVE  /\ base \in Nat /\ base <= Len(words)
         /\ base # 0 => base \in 5 .. Len(words)
         /\ LocalsAt(words, base) \in 0 .. 15
         /\ base + LocalsAt(words, base) <= Len(words)
         /\ SoundFrame(words, base, Len(words))
         /\ FrameTop(words, bases, Len(bases)) = Len(words)
         /\ Len(bases) \in Nat /\ Len(bases) \in 1 .. Len(bases)
         /\ base = 0 <=> Len(bases) <= 1
<1>1. Len(bases) \in 1 .. Len(bases) /\ 1 \in 1 .. Len(bases)
  BY DEF Layout
<1>2. base \in Nat
  BY <1>1 DEF Layout
<1>3. FrameTop(words, bases, Len(bases)) = Len(words)
  BY DEF FrameTop
<1>4. SoundFrame(words, base, Len(words))
  BY <1>1, <1>3 DEF Layout
<1>5. base = 0 <=> Len(bases) <= 1
  <2>1. 1 < Len(bases) => bases[1] < bases[Len(bases)]
    BY <1>1 DEF Layout
  <2>2. Len(bases) \in Nat /\ Len(bases) >= 1 /\ bases[1] = 0 /\ bases[Len(bases)] = base
    BY <1>1 DEF Layout
  <2> QED BY <2>1, <2>2, <1>2
<1> QED BY <1>1, <1>2, <1>3, <1>4, <1>5 DEF SoundFrame, LocalsAt

\* Slices of sequences, and sequences without their last element.
LEMMA SliceFacts ==
  ASSUME NEW S, NEW s \in Seq(S), NEW a \in Nat \ {0}, NEW b \in Nat, b <= Len(s)
  PROVE  /\ SubSeq(s, a, b) \in Seq(S)
         /\ a <= b + 1 => /\ Len(SubSeq(s, a, b)) = b - a + 1
                          /\ DOMAIN SubSeq(s, a, b) = 1 .. b - a + 1
                          /\ \A i \in 1 .. b - a + 1 : SubSeq(s, a, b)[i] = s[a + i - 1]
         /\ b < a => SubSeq(s, a, b) = <<>>
         /\ a <= b => SubSeq(s, a, b) # <<>>
<1>1. SubSeq(s, a, b) \in Seq(S) /\ (b < a => SubSeq(s, a, b) = <<>>)
  OBVIOUS
<1>2. ASSUME a <= b + 1
      PROVE  /\ Len(SubSeq(s, a, b)) = b - a + 1
             /\ DOMAIN SubSeq(s, a, b) = 1 .. b - a + 1
             /\ \A i \in 1 .. b - a + 1 : SubSeq(s, a, b)[i] = s[a + i - 1]
  BY <1>2
<1>3. ASSUME a <= b
      PROVE  SubSeq(s, a, b) # <<>>
  <2>1. PICK n \in Nat : n = b - a + 1 /\ n > 0 /\ Len(SubSeq(s, a, b)) = n
    BY <1>2, <1>3
  <2> QED BY <2>1
<1> QED BY <1>1, <1>2, <1>3

LEMMA FrontFacts ==
  ASSUME NEW S, NEW s \in Seq(S), Len(s) > 0
  PROVE  /\ Front(s) \in Seq(S) /\ Len(Front(s)) = Len(s) - 1
         /\ \A p \in 1 .. Len(s) - 1 : Front(s)[p] = s[p]
         /\ Last(s) \in S /\ Last(s) = s[Len(s)]
<1>1. PICK n \in Nat : n + 1 = Len(s)
  OBVIOUS
<1>2. Front(s) = SubSeq(s, 1, n)
  BY <1>1 DEF Front
<1>3. Last(s) = s[n + 1] /\ s[n + 1] \in S
  BY <1>1 DEF Last
<1> QED BY <1>1, <1>2, <1>3

Alike(words, other, k, n) == \A p \in k .. n : other[p] = words[p]

LEMMA SubSeqSame ==
  ASSUME NEW words, NEW other, NEW k \in Nat, NEW n \in Nat, Alike(words, other, k, n)
  PROVE  SubSeq(other, k, n) = SubSeq(words, k, n)
BY DEF Alike

\* A frame is made of the words below its top.
Agree(words, other, t) == \A p \in 1 .. t : other[p] = words[p]

LEMMA SameFrame ==
  ASSUME NEW words, NEW other, NEW b \in Nat, NEW t \in Nat,
         SoundFrame(words, b, t), t <= Len(other), Len(other) \in Nat,
         Agree(words, other, t)
  PROVE  /\ FrameFrom(other, b, t) = FrameFrom(words, b, t)
         /\ SoundFrame(other, b, t)
<1>1. \A p \in 1 .. t : other[p] = words[p]
  BY DEF Agree
<1>2. \A p \in b + 1 .. t : other[p] \in Values
  BY <1>1 DEF SoundFrame
<1>3. CASE b = 0
  <2>1. SubSeq(other, 1, t) = SubSeq(words, 1, t)
    BY <1>1, SubSeqSame DEF Alike
  <2>2. FrameFrom(other, b, t) = FrameFrom(words, b, t)
    BY <2>1, <1>3 DEF FrameFrom
  <2>3. SoundFrame(other, b, t)
    BY <1>2, <1>3 DEF SoundFrame, LocalsAt
  <2> QED BY <2>2, <2>3
<1>4. CASE b # 0
  <2>1. PICK n \in Nat : n = words[b] /\ b + n <= t /\ b >= 5
    BY <1>4, SMTT(30) DEF SoundFrame, LocalsAt
  <2>2. /\ other[b] = words[b] /\ other[b - 4] = words[b - 4]
        /\ other[b - 3] = words[b - 3] /\ other[b - 2] = words[b - 2]
    BY <1>1, <2>1, SMTT(30)
  <2>7. ReturnPlace(other, b) = ReturnPlace(words, b)
    BY <2>2 DEF ReturnPlace
  <2>3. SubSeq(other, b + 1, b + n) = SubSeq(words, b + 1, b + n)
    <3>1. b + 1 \in Nat /\ b + n \in Nat /\ Alike(words, other, b + 1, b + n)
      BY <1>1, <2>1, SMTT(30) DEF Alike
    <3> QED BY <3>1, SubSeqSame
  <2>4. SubSeq(other, b + n + 1, t) = SubSeq(words, b + n + 1, t)
    <3>1. b + n + 1 \in Nat /\ Alike(words, other, b + n + 1, t)
      BY <1>1, <2>1, SMTT(30) DEF Alike
    <3> QED BY <3>1, SubSeqSame
  <2>5. FrameFrom(other, b, t) = FrameFrom(words, b, t)
    BY <1>4, <2>1, <2>2, <2>3, <2>4, <2>7 DEF FrameFrom
  <2>6. SoundFrame(other, b, t)
    <3>1. b \in 5 .. Len(other)
      BY <2>1
    <3> QED BY <1>2, <1>4, <2>1, <2>2, <2>7, <3>1 DEF SoundFrame, LocalsAt
  <2> QED BY <2>5, <2>6
<1> QED BY <1>3, <1>4

\* A stack with the same words up to the running routine's base has the same frames
\* below it.
LEMMA SameBelow ==
  ASSUME NEW words \in Seq(Word), NEW other \in Seq(Word), NEW base, NEW bases,
         Layout(words, base, bases), base <= Len(other), Agree(words, other, base),
         NEW i \in 1 .. Len(bases) - 1
  PROVE  /\ FrameTop(other, bases, i) = FrameTop(words, bases, i)
         /\ FrameFrom(other, bases[i], FrameTop(other, bases, i))
              = FrameFrom(words, bases[i], FrameTop(words, bases, i))
         /\ SoundFrame(other, bases[i], FrameTop(other, bases, i))
         /\ other[bases[i + 1] - 1] = words[bases[i + 1] - 1]
<1>1. FrameTop(other, bases, i) = bases[i + 1] - 5 /\ FrameTop(words, bases, i) = bases[i + 1] - 5
  BY DEF FrameTop
<1>2. /\ bases[i] \in Nat /\ bases[i + 1] \in Nat /\ base \in Nat
      /\ bases[i] < bases[i + 1] /\ bases[i + 1] <= base
      /\ bases[i + 1] \in 5 .. Len(words)
  BY LowerFrames
<1>3. PICK b \in Nat, c \in Nat, t \in Nat :
        /\ b = bases[i] /\ c = bases[i + 1] /\ t = bases[i + 1] - 5 /\ t + 5 = c /\ c <= base
  BY <1>2, SMTT(30)
<1>4. SoundFrame(words, b, t)
  BY <1>1, <1>3, SMTT(30) DEF Layout
<1>5. Len(other) \in Nat /\ t <= Len(other) /\ Agree(words, other, t) /\ other[c - 1] = words[c - 1]
  <2>1. Len(other) \in Nat /\ t <= Len(other)
    BY <1>2, <1>3, SMTT(30)
  <2>2. \A p \in 1 .. c : p \in 1 .. base
    BY <1>2, <1>3, SMTT(30)
  <2>3. \A p \in 1 .. t : p \in 1 .. c
    BY <1>3, SMTT(30)
  <2>4. c - 1 \in 1 .. c
    BY <1>3, SMTT(30)
  <2> QED BY <2>1, <2>2, <2>3, <2>4, Zenon DEF Agree
<1>6. /\ FrameFrom(other, b, t) = FrameFrom(words, b, t)
      /\ SoundFrame(other, b, t)
  BY <1>4, <1>5, SameFrame
<1> QED BY <1>1, <1>3, <1>5, <1>6, Zenon

-----------------------------------------------------------------------------
(***************************************************************************)
(* What the machine does to the stack, as changes of the frames.           *)
(***************************************************************************)
\* The frames are as many as their bases.
LEMMA FramesInType ==
  ASSUME NEW words, NEW bases \in Seq(Nat)
  PROVE  /\ \E S : FramesIn(words, bases) \in Seq(S)
         /\ Len(FramesIn(words, bases)) = Len(bases)
         /\ \A i \in 1 .. Len(bases) : FramesIn(words, bases)[i]
                = FrameFrom(words, bases[i], FrameTop(words, bases, i))
<1> DEFINE F == FramesIn(words, bases)
           S == {F[i] : i \in 1 .. Len(bases)}
<1>1. F = [i \in 1 .. Len(bases) |-> F[i]]
  BY DEF FramesIn
<1>2. \A i \in 1 .. Len(bases) : F[i] = FrameFrom(words, bases[i], FrameTop(words, bases, i))
  BY DEF FramesIn
<1>3. Len(bases) \in Nat
  OBVIOUS
<1> HIDE DEF F
<1>4. F \in [1 .. Len(bases) -> S]
  BY <1>1
<1>5. F \in Seq(S) /\ Len(F) = Len(bases)
  BY <1>3, <1>4
<1> QED BY <1>2, <1>5 DEF F

\* Two lists that differ in the last element only.
LEMMA LastReplaced ==
  ASSUME NEW S, NEW T, NEW s \in Seq(S), NEW t \in Seq(T), NEW n \in Nat \ {0},
         Len(s) = n, Len(t) = n, \A i \in 1 .. n - 1 : t[i] = s[i]
  PROVE  /\ t = Append(Front(s), t[n])
         /\ Last(s) = s[n] /\ Last(t) = t[n] /\ Front(t) = Front(s)
<1>1. /\ Front(s) \in Seq(S) /\ Len(Front(s)) = n - 1
      /\ \A i \in 1 .. n - 1 : Front(s)[i] = s[i]
  BY DEF Front
<1>2. /\ Front(t) \in Seq(T) /\ Len(Front(t)) = n - 1
      /\ \A i \in 1 .. n - 1 : Front(t)[i] = t[i]
  BY DEF Front
<1>3. Front(t) = Front(s)
  BY <1>1, <1>2
<1>4. t = Append(Front(t), t[n])
  BY <1>2
<1> QED BY <1>3, <1>4 DEF Last

LEMMA TopChanged ==
  ASSUME NEW words \in Seq(Word), NEW other \in Seq(Word), NEW base, NEW bases,
         Layout(words, base, bases), base <= Len(other), Agree(words, other, base),
         SoundFrame(other, base, Len(other))
  PROVE  /\ Layout(other, base, bases)
         /\ FramesIn(other, bases) = Append(Front(FramesIn(words, bases)),
                                            FrameFrom(other, base, Len(other)))
         /\ Last(FramesIn(words, bases)) = FrameFrom(words, base, Len(words))
<1> DEFINE n == Len(bases)
           s == FramesIn(words, bases)
           t == FramesIn(other, bases)
<1>1. bases \in Seq(Nat) /\ bases[n] = base /\ n \in Nat \ {0}
  BY DEF Layout
<1>2. /\ FrameTop(words, bases, n) = Len(words) /\ FrameTop(other, bases, n) = Len(other)
  BY DEF FrameTop
<1>3. \A i \in 1 .. n - 1 : /\ t[i] = s[i]
                            /\ SoundFrame(other, bases[i], FrameTop(other, bases, i))
                            /\ other[bases[i + 1] - 1] = words[bases[i + 1] - 1]
  <2> TAKE i \in 1 .. n - 1
  <2>1. t[i] = FrameFrom(other, bases[i], FrameTop(other, bases, i))
    BY <1>1, FramesInType
  <2>2. s[i] = FrameFrom(words, bases[i], FrameTop(words, bases, i))
    BY <1>1, FramesInType
  <2> QED BY <2>1, <2>2, SameBelow
<1>4. t[n] = FrameFrom(other, base, Len(other)) /\ s[n] = FrameFrom(words, base, Len(words))
  BY <1>1, <1>2, FramesInType
<1>5. Layout(other, base, bases)
  <2>1. \A i \in 1 .. n : i = n \/ i \in 1 .. n - 1
    BY <1>1
  <2>2. \A i \in 1 .. n : SoundFrame(other, bases[i], FrameTop(other, bases, i))
    BY <1>1, <1>2, <1>3, <2>1, Zenon
  <2>3. \A i \in 1 .. n - 1 : other[bases[i + 1] - 1] = bases[i]
    BY <1>3, Zenon DEF Layout
  <2> QED BY <2>2, <2>3, Zenon DEF Layout
<1>6. PICK S, T : s \in Seq(S) /\ t \in Seq(T) /\ Len(s) = n /\ Len(t) = n
  BY <1>1, FramesInType
<1> HIDE DEF s, t, n
<1>7. t = Append(Front(s), t[n]) /\ Last(s) = s[n]
  BY <1>1, <1>3, <1>6, LastReplaced
<1> QED BY <1>4, <1>5, <1>7 DEF s, t

\* The parts of a frame, also of the story's own.
StoreAt(words, base) == IF base = 0 THEN 0 ELSE words[base - 4]
BackAt(words, base) == IF base = 0 THEN 0 ELSE ReturnPlace(words, base)

LEMMA FrameParts ==
  ASSUME NEW words, NEW base \in Nat, NEW n, n = LocalsAt(words, base), NEW top
  PROVE  FrameFrom(words, base, top) =
           [locals |-> SubSeq(words, base + 1, base + n),
            temps  |-> SubSeq(words, base + n + 1, top),
            store  |-> StoreAt(words, base), back |-> BackAt(words, base)]
<1>1. CASE base = 0
  <2>1. n = 0 /\ base + 1 = 1 /\ base + n = 0 /\ base + n + 1 = 1
    BY <1>1 DEF LocalsAt
  <2>2. SubSeq(words, base + 1, base + n) = <<>>
    BY <2>1
  <2> QED BY <1>1, <2>1, <2>2, Zenon DEF FrameFrom, StoreAt, BackAt
<1>2. CASE base # 0
  BY <1>2 DEF FrameFrom, LocalsAt, StoreAt, BackAt
<1> QED BY <1>1, <1>2

\* A change above the base of the running routine leaves what describes its frame.
LEMMA SameHeader ==
  ASSUME NEW words, NEW other, NEW base \in Nat, Agree(words, other, base),
         base # 0 => base >= 5
  PROVE  /\ LocalsAt(other, base) = LocalsAt(words, base)
         /\ StoreAt(other, base) = StoreAt(words, base)
         /\ BackAt(other, base) = BackAt(words, base)
<1>1. CASE base = 0
  BY <1>1 DEF LocalsAt, StoreAt, BackAt
<1>2. CASE base # 0
  <2>1. /\ base \in 1 .. base /\ base - 2 \in 1 .. base /\ base - 3 \in 1 .. base
        /\ base - 4 \in 1 .. base
    BY <1>2
  <2>2. /\ other[base] = words[base] /\ other[base - 2] = words[base - 2]
        /\ other[base - 3] = words[base - 3] /\ other[base - 4] = words[base - 4]
    BY <2>1, Zenon DEF Agree
  <2> QED BY <1>2, <2>2 DEF LocalsAt, StoreAt, BackAt, ReturnPlace
<1> QED BY <1>1, <1>2

LEMMA SoundAgain ==
  ASSUME NEW words \in Seq(Word), NEW other \in Seq(Word), NEW base \in Nat,
         SoundFrame(words, base, Len(words)), Agree(words, other, base),
         base + LocalsAt(words, base) <= Len(other),
         \A p \in base + 1 .. Len(other) : other[p] \in Values
  PROVE  /\ base <= Len(other)
         /\ SoundFrame(other, base, Len(other))
<1>1. /\ base # 0 => base \in 5 .. Len(words) /\ LocalsAt(words, base) \in 0 .. 15
      /\ base + LocalsAt(words, base) <= Len(words)
  BY DEF SoundFrame, LocalsAt
<1>2. /\ LocalsAt(other, base) = LocalsAt(words, base)
      /\ StoreAt(other, base) = StoreAt(words, base)
      /\ BackAt(other, base) = BackAt(words, base)
  BY <1>1, SameHeader
<1>3. PICK n \in Nat : n = LocalsAt(words, base)
  BY <1>1 DEF LocalsAt
<1>4. base <= Len(other)
  BY <1>3
<1>5. CASE base = 0
  BY <1>2, <1>5 DEF SoundFrame
<1>6. CASE base # 0
  <2>1. base \in 5 .. Len(other)
    BY <1>1, <1>4, <1>6
  <2>2. /\ other[base] = words[base] /\ other[base - 4] = words[base - 4]
        /\ ReturnPlace(other, base) = ReturnPlace(words, base)
    BY <1>2, <1>6 DEF LocalsAt, StoreAt, BackAt
  <2> QED BY <1>2, <1>6, <2>1, <2>2 DEF SoundFrame
<1> QED BY <1>4, <1>5, <1>6

LEMMA SubSeqPush ==
  ASSUME NEW S, NEW s \in Seq(S), NEW t \in Seq(S), Len(t) = Len(s) + 1,
         \A p \in 1 .. Len(s) : t[p] = s[p], NEW k \in 1 .. Len(s) + 1
  PROVE  SubSeq(t, k, Len(t)) = Append(SubSeq(s, k, Len(s)), t[Len(t)])
<1>1. PICK n \in Nat, m \in Nat : n = Len(s) /\ n + 1 = Len(t) /\ m = n - k + 1
  OBVIOUS
<1> DEFINE a == SubSeq(t, k, n + 1)
           b == SubSeq(s, k, n)
<1>2. /\ b \in Seq(S) /\ Len(b) = m /\ \A i \in 1 .. m : b[i] = s[k + i - 1]
  BY <1>1
<1>3. /\ a \in Seq(S) /\ Len(a) = m + 1 /\ \A i \in 1 .. m + 1 : a[i] = t[k + i - 1]
  BY <1>1
<1> HIDE DEF a, b
<1>4. ASSUME NEW i \in 1 .. m
      PROVE  a[i] = b[i]
  <2>1. k + i - 1 \in 1 .. Len(s) /\ i \in 1 .. m + 1
    BY <1>1
  <2> QED BY <1>2, <1>3, <2>1
<1>5. a[m + 1] = t[n + 1] /\ t[n + 1] \in S
  <2>1. k + (m + 1) - 1 = n + 1 /\ m + 1 \in 1 .. m + 1 /\ n + 1 \in 1 .. Len(t)
    BY <1>1
  <2> QED BY <1>3, <2>1
<1>6. PICK c : c = Append(b, t[n + 1])
  OBVIOUS
<1>7. /\ c \in Seq(S) /\ Len(c) = m + 1 /\ c[m + 1] = t[n + 1]
      /\ \A i \in 1 .. m : c[i] = b[i]
  BY <1>2, <1>5, <1>6
<1>8. \A i \in 1 .. m + 1 : a[i] = c[i]
  <2>1. \A i \in 1 .. m + 1 : i \in 1 .. m \/ i = m + 1
    OBVIOUS
  <2> QED BY <1>4, <1>5, <1>7, <2>1, Zenon
<1>9. a = c
  BY <1>3, <1>7, <1>8
<1> QED BY <1>1, <1>6, <1>9 DEF a, b

\* What an instruction does to the running frame, and to the list of frames.
FramePushed(frame, value) == [frame EXCEPT !.temps = Append(@, value)]
FramePopped(frame) == [frame EXCEPT !.temps = Front(@)]
FrameSet(frame, var, value) == [frame EXCEPT !.locals[var] = value]
TopReplaced(frames, frame) == Append(Front(frames), frame)

LEMMA PushFrame ==
  ASSUME NEW words \in Seq(Word), NEW base, NEW bases, Layout(words, base, bases),
         NEW value \in Values
  PROVE  LET other == words \o <<value>>
             frame == FrameFrom(words, base, Len(words))
         IN  /\ other \in Seq(Word) /\ Len(other) = Len(words) + 1
             /\ Layout(other, base, bases)
             /\ Last(FramesIn(words, bases)) = frame
             /\ FramesIn(other, bases) =
                  TopReplaced(FramesIn(words, bases), FramePushed(frame, value))
<1> DEFINE other == words \o <<value>>
           frame == FrameFrom(words, base, Len(words))
<1>1. /\ other \in Seq(Word) /\ Len(other) = Len(words) + 1
      /\ \A p \in 1 .. Len(words) : other[p] = words[p]
      /\ other[Len(words) + 1] = value
  BY WordFacts, SMTT(30)
<1>2. /\ base \in Nat /\ base <= Len(words) /\ SoundFrame(words, base, Len(words))
      /\ LocalsAt(words, base) \in 0 .. 15
      /\ base + LocalsAt(words, base) <= Len(words)
      /\ base # 0 => base >= 5
  BY TopFrame
<1> HIDE DEF other
<1>3. Agree(words, other, base)
  BY <1>1, <1>2 DEF Agree
<1>4. \A p \in base + 1 .. Len(other) : other[p] \in Values
  <2>1. \A p \in base + 1 .. Len(words) : words[p] \in Values
    BY <1>2 DEF SoundFrame
  <2> QED BY <1>1, <1>2, <2>1
<1>5. PICK n \in 0 .. 15 : n = LocalsAt(words, base) /\ base + n <= Len(words)
  BY <1>2
<1>6. /\ LocalsAt(other, base) = n
      /\ StoreAt(other, base) = StoreAt(words, base)
      /\ BackAt(other, base) = BackAt(words, base)
  BY <1>2, <1>3, <1>5, SameHeader
<1>7. SoundFrame(other, base, Len(other))
  BY <1>1, <1>2, <1>3, <1>4, <1>5, SoundAgain
<1>8. FrameFrom(other, base, Len(other)) = [frame EXCEPT !.temps = Append(@, value)]
  <2>1. SubSeq(other, base + 1, base + n) = SubSeq(words, base + 1, base + n)
    <3>1. Alike(words, other, base + 1, base + n)
      <4>1. \A p \in base + 1 .. base + n : p \in 1 .. Len(words)
        BY <1>2, <1>5
      <4>2. \A p \in 1 .. Len(words) : other[p] = words[p]
        BY <1>1
      <4> QED BY <4>1, <4>2, Zenon DEF Alike
    <3>2. base + 1 \in Nat /\ base + n \in Nat
      BY <1>2
    <3> QED BY <3>1, <3>2, SubSeqSame
  <2>2. SubSeq(other, base + n + 1, Len(other))
          = Append(SubSeq(words, base + n + 1, Len(words)), value)
    <3>1. base + n + 1 \in 1 .. Len(words) + 1
      BY <1>2, <1>5, SMTT(30)
    <3> QED BY <1>1, <3>1, SubSeqPush
  <2>3. frame = [locals |-> SubSeq(words, base + 1, base + n),
                 temps  |-> SubSeq(words, base + n + 1, Len(words)),
                 store  |-> StoreAt(words, base), back |-> BackAt(words, base)]
    BY <1>2, <1>5, FrameParts
  <2>4. FrameFrom(other, base, Len(other)) =
          [locals |-> SubSeq(other, base + 1, base + n),
           temps  |-> SubSeq(other, base + n + 1, Len(other)),
           store  |-> StoreAt(other, base), back |-> BackAt(other, base)]
    BY <1>2, <1>6, FrameParts
  <2> HIDE DEF frame
  <2>5. PICK l, u, s, b : /\ l = SubSeq(words, base + 1, base + n)
                          /\ u = SubSeq(words, base + n + 1, Len(words))
                          /\ s = StoreAt(words, base) /\ b = BackAt(words, base)
    OBVIOUS
  <2>6. frame = [locals |-> l, temps |-> u, store |-> s, back |-> b]
    BY <2>3, <2>5, Zenon
  <2>7. [frame EXCEPT !.temps = Append(@, value)]
          = [locals |-> l, temps |-> Append(u, value), store |-> s, back |-> b]
    <3>1. PICK w : w = Append(u, value)
      OBVIOUS
    <3>2. frame.temps = u
      BY <2>6
    <3>3. [frame EXCEPT !.temps = w] = [locals |-> l, temps |-> w, store |-> s, back |-> b]
      BY <2>6
    <3> QED BY <3>1, <3>2, <3>3, Zenon
  <2> QED BY <1>6, <2>1, <2>2, <2>4, <2>5, <2>7, Zenon
<1>9. /\ Layout(other, base, bases)
      /\ FramesIn(other, bases) = Append(Front(FramesIn(words, bases)),
                                         FrameFrom(other, base, Len(other)))
      /\ Last(FramesIn(words, bases)) = frame
  BY <1>1, <1>2, <1>3, <1>7, TopChanged
<1> QED BY <1>1, <1>8, <1>9, Zenon DEF other, TopReplaced, FramePushed

\* The locals of the running routine, and whether it has pushed anything.
LEMMA FrameContents ==
  ASSUME NEW words \in Seq(Word), NEW base, NEW bases, Layout(words, base, bases)
  PROVE  LET frame == FrameFrom(words, base, Len(words))
         IN  /\ Last(FramesIn(words, bases)) = frame
             /\ Len(frame.locals) = LocalsAt(words, base)
             /\ DOMAIN frame.locals = 1 .. LocalsAt(words, base)
             /\ \A var \in 1 .. LocalsAt(words, base) :
                   /\ frame.locals[var] = words[base + var]
                   /\ words[base + var] \in Values
             /\ base + LocalsAt(words, base) >= Len(words) => frame.temps = <<>>
             /\ base + LocalsAt(words, base) < Len(words) => frame.temps # <<>>
<1> DEFINE frame == FrameFrom(words, base, Len(words))
<1>1. /\ base \in Nat /\ base <= Len(words) /\ SoundFrame(words, base, Len(words))
      /\ LocalsAt(words, base) \in 0 .. 15
      /\ base + LocalsAt(words, base) <= Len(words)
  BY TopFrame
<1>2. PICK n \in 0 .. 15 : n = LocalsAt(words, base) /\ base + n <= Len(words)
  BY <1>1
<1>3. Last(FramesIn(words, bases)) = frame
  BY <1>1, TopChanged DEF Agree
<1>4. frame = [locals |-> SubSeq(words, base + 1, base + n),
               temps  |-> SubSeq(words, base + n + 1, Len(words)),
               store  |-> StoreAt(words, base), back |-> BackAt(words, base)]
  BY <1>1, <1>2, FrameParts
<1>5. /\ frame.locals = SubSeq(words, base + 1, base + n)
      /\ frame.temps = SubSeq(words, base + n + 1, Len(words))
  <2> HIDE DEF frame
  <2> QED BY <1>4
<1> HIDE DEF frame
<1>6. /\ Len(frame.locals) = n /\ DOMAIN frame.locals = 1 .. n
      /\ \A var \in 1 .. n : frame.locals[var] = words[base + var]
  <2>1. \E a \in Nat \ {0} : a = base + 1
    BY <1>1
  <2>3. PICK a \in Nat \ {0} : a = base + 1
    BY <2>1
  <2>4. PICK b \in Nat : b = base + n
    BY <1>1
  <2>5. b <= Len(words) /\ a <= b + 1 /\ b - a + 1 = n
    BY <1>1, <1>2, <2>3, <2>4, SMTT(30)
  <2>2. /\ Len(frame.locals) = n /\ DOMAIN frame.locals = 1 .. n
        /\ \A var \in 1 .. n : frame.locals[var] = words[a + var - 1]
    <3>1. /\ Len(SubSeq(words, a, b)) = b - a + 1
          /\ DOMAIN SubSeq(words, a, b) = 1 .. b - a + 1
          /\ \A i \in 1 .. b - a + 1 : SubSeq(words, a, b)[i] = words[a + i - 1]
      BY <2>5, SliceFacts
    <3>2. frame.locals = SubSeq(words, a, b)
      BY <1>5, <2>3, <2>4
    <3> QED BY <2>5, <3>1, <3>2, Zenon
  <2>6. \A var \in 1 .. n : a + var - 1 = base + var
    BY <1>1, <2>3
  <2> QED BY <2>2, <2>6
<1>7. \A var \in 1 .. n : words[base + var] \in Values
  BY <1>1, <1>2 DEF SoundFrame
<1>8. /\ base + n >= Len(words) => frame.temps = <<>>
      /\ base + n < Len(words) => frame.temps # <<>>
  <2>1. PICK a \in Nat \ {0}, b \in Nat : a = base + n + 1 /\ b = Len(words)
    BY <1>1, <1>2, SMTT(30)
  <2>2. (b < a => frame.temps = <<>>) /\ (a <= b => frame.temps # <<>>)
    <3>1. frame.temps = SubSeq(words, a, b)
      BY <1>5, <2>1
    <3>2. b <= Len(words)
      BY <2>1
    <3>3. /\ b < a => SubSeq(words, a, b) = <<>>
          /\ a <= b => SubSeq(words, a, b) # <<>>
      BY <3>2, SliceFacts
    <3> QED BY <3>1, <3>3, Zenon
  <2> QED BY <1>1, <2>1, <2>2
<1> QED BY <1>2, <1>3, <1>6, <1>7, <1>8 DEF frame

LEMMA SubSeqPop ==
  ASSUME NEW S, NEW s \in Seq(S), NEW k \in 1 .. Len(s)
  PROVE  /\ SubSeq(Front(s), k, Len(s) - 1) = Front(SubSeq(s, k, Len(s)))
         /\ Last(SubSeq(s, k, Len(s))) = Last(s)
<1>1. PICK n \in Nat, m \in Nat : n = Len(s) /\ m = n - k
  OBVIOUS
<1> DEFINE a == SubSeq(s, k, n)
           b == SubSeq(Front(s), k, n - 1)
<1>2. /\ a \in Seq(S) /\ Len(a) = m + 1 /\ \A i \in 1 .. m + 1 : a[i] = s[k + i - 1]
  BY <1>1
<1>3. Front(s) \in Seq(S) /\ Len(Front(s)) = n - 1 /\ \A p \in 1 .. n - 1 : Front(s)[p] = s[p]
  BY <1>1 DEF Front
<1>4. /\ b \in Seq(S) /\ Len(b) = m /\ \A i \in 1 .. m : b[i] = Front(s)[k + i - 1]
  BY <1>1, <1>3
<1> HIDE DEF a, b
<1>5. /\ Front(a) \in Seq(S) /\ Len(Front(a)) = m /\ \A i \in 1 .. m : Front(a)[i] = a[i]
  BY <1>2 DEF Front
<1>6. ASSUME NEW i \in 1 .. m
      PROVE  b[i] = Front(a)[i]
  <2>1. k + i - 1 \in 1 .. n - 1 /\ i \in 1 .. m + 1
    BY <1>1
  <2> QED BY <1>2, <1>3, <1>4, <1>5, <2>1
<1>7. b = Front(a)
  BY <1>4, <1>5, <1>6
<1>8. a[m + 1] = s[n] /\ Len(a) = m + 1
  <2>1. k + (m + 1) - 1 = n /\ m + 1 \in 1 .. m + 1
    BY <1>1
  <2> QED BY <1>2, <2>1
<1> QED BY <1>1, <1>7, <1>8 DEF a, b, Last

LEMMA PopFrame ==
  ASSUME NEW words \in Seq(Word), NEW base, NEW bases, Layout(words, base, bases),
         base + LocalsAt(words, base) < Len(words)
  PROVE  LET other == Front(words)
             frame == FrameFrom(words, base, Len(words))
         IN  /\ other \in Seq(Word) /\ Len(other) = Len(words) - 1
             /\ Layout(other, base, bases)
             /\ Last(words) \in Values /\ Last(words) = Last(frame.temps)
             /\ FramesIn(other, bases) =
                  TopReplaced(FramesIn(words, bases), FramePopped(frame))
<1> DEFINE other == Front(words)
           frame == FrameFrom(words, base, Len(words))
<1>1. /\ base \in Nat /\ base <= Len(words) /\ SoundFrame(words, base, Len(words))
      /\ LocalsAt(words, base) \in 0 .. 15
      /\ base # 0 => base >= 5
  BY TopFrame
<1>2. PICK n \in 0 .. 15 : n = LocalsAt(words, base) /\ base + n < Len(words)
  BY <1>1
<1>3. /\ other \in Seq(Word) /\ Len(other) = Len(words) - 1
      /\ \A p \in 1 .. Len(words) - 1 : other[p] = words[p]
  <2>1. Len(words) > 0
    BY <1>1, <1>2, SMTT(30)
  <2> QED BY <2>1, FrontFacts
<1> HIDE DEF other
<1>4. Agree(words, other, base)
  BY <1>1, <1>2, <1>3, SMTT(30) DEF Agree
<1>5. \A p \in base + 1 .. Len(words) : words[p] \in Values
  BY <1>1 DEF SoundFrame
<1>6. \A p \in base + 1 .. Len(other) : other[p] \in Values
  BY <1>1, <1>3, <1>5
<1>7. /\ LocalsAt(other, base) = n
      /\ StoreAt(other, base) = StoreAt(words, base)
      /\ BackAt(other, base) = BackAt(words, base)
  BY <1>1, <1>2, <1>4, SameHeader
<1>8. SoundFrame(other, base, Len(other))
  <2>1. base + n <= Len(other)
    BY <1>1, <1>2, <1>3
  <2> QED BY <1>1, <1>2, <1>3, <1>4, <1>6, <2>1, SoundAgain
<1>9. PICK l, u, s, b : /\ l = SubSeq(words, base + 1, base + n)
                        /\ u = SubSeq(words, base + n + 1, Len(words))
                        /\ s = StoreAt(words, base) /\ b = BackAt(words, base)
  OBVIOUS
<1>10. frame = [locals |-> l, temps |-> u, store |-> s, back |-> b]
  BY <1>1, <1>2, <1>9, FrameParts
<1>11. frame.temps = u
  <2> HIDE DEF frame
  <2> QED BY <1>10
<1>12. base + n + 1 \in 1 .. Len(words)
  BY <1>1, <1>2, SMTT(30)
<1>13. SubSeq(other, base + n + 1, Len(other)) = Front(u) /\ Last(u) = Last(words)
  BY <1>3, <1>9, <1>12, SubSeqPop DEF other
<1>14. FrameFrom(other, base, Len(other)) = [frame EXCEPT !.temps = Front(@)]
  <2>1. SubSeq(other, base + 1, base + n) = l
    <3>1. Alike(words, other, base + 1, base + n)
      BY <1>1, <1>2, <1>3, SMTT(30) DEF Alike
    <3>2. base + 1 \in Nat /\ base + n \in Nat
      BY <1>1
    <3> QED BY <1>9, <3>1, <3>2, SubSeqSame, SMTT(30)
  <2>2. FrameFrom(other, base, Len(other)) =
          [locals |-> SubSeq(other, base + 1, base + n),
           temps  |-> SubSeq(other, base + n + 1, Len(other)),
           store  |-> StoreAt(other, base), back |-> BackAt(other, base)]
    BY <1>1, <1>7, FrameParts
  <2>3. PICK w : w = Front(u)
    OBVIOUS
  <2>4. FrameFrom(other, base, Len(other)) = [locals |-> l, temps |-> w, store |-> s, back |-> b]
    BY <1>7, <1>9, <1>13, <2>1, <2>2, <2>3, Zenon
  <2>5. [frame EXCEPT !.temps = w] = [locals |-> l, temps |-> w, store |-> s, back |-> b]
    <3> HIDE DEF frame
    <3> QED BY <1>10
  <2> QED BY <1>11, <2>3, <2>4, <2>5, Zenon
<1>15. /\ Layout(other, base, bases)
       /\ FramesIn(other, bases) = Append(Front(FramesIn(words, bases)),
                                          FrameFrom(other, base, Len(other)))
  <2>1. base <= Len(other)
    BY <1>1, <1>2, <1>3, SMTT(30)
  <2> QED BY <1>3, <1>4, <1>8, <2>1, TopChanged
<1>16. Last(words) \in Values
  BY <1>1, <1>2, <1>5, SMTT(30) DEF Last
<1> QED BY <1>3, <1>11, <1>13, <1>14, <1>15, <1>16, Zenon DEF other, TopReplaced, FramePopped

LEMMA SetFrame ==
  ASSUME NEW words \in Seq(Word), NEW base, NEW bases, Layout(words, base, bases),
         NEW var \in 1 .. LocalsAt(words, base), NEW value \in Values
  PROVE  LET other == [words EXCEPT ![base + var] = value]
             frame == FrameFrom(words, base, Len(words))
         IN  /\ other \in Seq(Word) /\ Len(other) = Len(words)
             /\ Layout(other, base, bases)
             /\ FramesIn(other, bases) =
                  TopReplaced(FramesIn(words, bases), FrameSet(frame, var, value))
<1> DEFINE other == [words EXCEPT ![base + var] = value]
           frame == FrameFrom(words, base, Len(words))
<1>1. /\ base \in Nat /\ base <= Len(words) /\ SoundFrame(words, base, Len(words))
      /\ LocalsAt(words, base) \in 0 .. 15
      /\ base + LocalsAt(words, base) <= Len(words)
      /\ base # 0 => base >= 5
  BY TopFrame
<1>2. PICK n \in 0 .. 15 : n = LocalsAt(words, base) /\ base + n <= Len(words) /\ var \in 1 .. n
  BY <1>1
<1>3. base + var \in 1 .. Len(words) /\ value \in Word
  BY <1>1, <1>2, WordFacts, SMTT(30)
<1>4. /\ other \in Seq(Word) /\ Len(other) = Len(words)
      /\ \A p \in 1 .. Len(words) : other[p] = IF p = base + var THEN value ELSE words[p]
  BY <1>3
<1> HIDE DEF other
<1>5. Agree(words, other, base)
  BY <1>1, <1>2, <1>4 DEF Agree
<1>6. \A p \in base + 1 .. Len(other) : other[p] \in Values
  <2>1. \A p \in base + 1 .. Len(words) : words[p] \in Values /\ p \in 1 .. Len(words)
    BY <1>1 DEF SoundFrame
  <2> QED BY <1>4, <2>1
<1>7. /\ LocalsAt(other, base) = n
      /\ StoreAt(other, base) = StoreAt(words, base)
      /\ BackAt(other, base) = BackAt(words, base)
  BY <1>1, <1>2, <1>5, SameHeader
<1>8. SoundFrame(other, base, Len(other))
  BY <1>1, <1>2, <1>4, <1>5, <1>6, SoundAgain
<1>9. PICK l, u, s, b : /\ l = SubSeq(words, base + 1, base + n)
                        /\ u = SubSeq(words, base + n + 1, Len(words))
                        /\ s = StoreAt(words, base) /\ b = BackAt(words, base)
  OBVIOUS
<1>10. frame = [locals |-> l, temps |-> u, store |-> s, back |-> b]
  BY <1>1, <1>2, <1>9, FrameParts
<1>11. SubSeq(other, base + 1, base + n) = [l EXCEPT ![var] = value]
  <2>1. PICK x \in Nat \ {0} : x = base + 1
    BY <1>1
  <2>2. PICK y \in Nat : y = base + n
    BY <1>1
  <2>3. y <= Len(words) /\ x <= y + 1 /\ y - x + 1 = n /\ y <= Len(other)
    <3>1. y <= Len(words)
      BY <1>1, <1>2, <2>2
    <3>2. x <= y + 1 /\ y - x + 1 = n
      BY <1>1, <2>1, <2>2
    <3>3. Len(other) = Len(words)
      BY <1>4
    <3> QED BY <3>1, <3>2, <3>3
  <2>4. PICK k : k = SubSeq(other, x, y)
    OBVIOUS
  <2>5. /\ k \in Seq(Word) /\ Len(k) = y - x + 1
        /\ \A i \in 1 .. y - x + 1 : k[i] = other[x + i - 1]
    BY <1>4, <2>3, <2>4, SliceFacts, SMTT(30)
  <2>6. /\ SubSeq(words, x, y) \in Seq(Word) /\ Len(SubSeq(words, x, y)) = y - x + 1
        /\ \A i \in 1 .. y - x + 1 : SubSeq(words, x, y)[i] = words[x + i - 1]
    BY <2>3, SliceFacts
  <2>7. l = SubSeq(words, x, y)
    BY <1>9, <2>1, <2>2
  <2>8. /\ l \in Seq(Word) /\ Len(l) = n /\ \A i \in 1 .. n : l[i] = words[base + i]
    <3>1. \A i \in 1 .. n : x + i - 1 = base + i
      BY <1>1, <2>1
    <3> QED BY <2>3, <2>6, <2>7, <3>1
  <2>9. /\ Len(k) = n /\ \A i \in 1 .. n : k[i] = other[base + i]
    <3>1. \A i \in 1 .. n : x + i - 1 = base + i
      BY <1>1, <2>1
    <3> QED BY <2>3, <2>5, <3>1
  <2>10. \A i \in 1 .. n : k[i] = IF i = var THEN value ELSE l[i]
    <3> TAKE i \in 1 .. n
    <3>1. base + i \in 1 .. Len(words) /\ (base + i = base + var <=> i = var)
      BY <1>1, <1>2
    <3> QED BY <1>4, <2>8, <2>9, <3>1
  <2>11. k = [l EXCEPT ![var] = value]
    <3>1. k = [i \in 1 .. n |-> k[i]] /\ l = [i \in 1 .. n |-> l[i]]
      BY <2>5, <2>8, <2>9
    <3> QED BY <2>10, <3>1
  <2> QED BY <2>1, <2>2, <2>4, <2>11
<1>12. FrameFrom(other, base, Len(other)) = [frame EXCEPT !.locals[var] = value]
  <2>1. SubSeq(other, base + n + 1, Len(other)) = u
    <3>1. Alike(words, other, base + n + 1, Len(words))
      BY <1>1, <1>2, <1>4 DEF Alike
    <3>2. base + n + 1 \in Nat /\ Len(words) \in Nat
      BY <1>1
    <3> QED BY <1>4, <1>9, <3>1, <3>2, SubSeqSame, SMTT(30)
  <2>2. FrameFrom(other, base, Len(other)) =
          [locals |-> SubSeq(other, base + 1, base + n),
           temps  |-> SubSeq(other, base + n + 1, Len(other)),
           store  |-> StoreAt(other, base), back |-> BackAt(other, base)]
    BY <1>1, <1>7, FrameParts
  <2>3. PICK w : w = [l EXCEPT ![var] = value]
    OBVIOUS
  <2>4. FrameFrom(other, base, Len(other)) = [locals |-> w, temps |-> u, store |-> s, back |-> b]
    BY <1>7, <1>9, <1>11, <2>1, <2>2, <2>3, Zenon
  <2>5. [frame EXCEPT !.locals = w] = [locals |-> w, temps |-> u, store |-> s, back |-> b]
    <3> HIDE DEF frame
    <3> QED BY <1>10
  <2>6. frame.locals = l
    <3> HIDE DEF frame
    <3> QED BY <1>10
  <2> HIDE DEF frame
  <2>7. [frame EXCEPT !.locals[var] = value] = [frame EXCEPT !.locals = w]
    BY <2>3, <2>6
  <2> QED BY <2>4, <2>5, <2>7, Zenon
<1>13. /\ Layout(other, base, bases)
       /\ FramesIn(other, bases) = Append(Front(FramesIn(words, bases)),
                                          FrameFrom(other, base, Len(other)))
  <2>1. base <= Len(other)
    BY <1>1, <1>4
  <2> QED BY <1>4, <1>5, <1>8, <2>1, TopChanged
<1> QED BY <1>4, <1>12, <1>13, Zenon DEF other, TopReplaced, FrameSet

LEMMA FrameBound ==
  ASSUME NEW words \in Seq(Word), NEW base, NEW bases, Layout(words, base, bases),
         NEW i \in 1 .. Len(bases)
  PROVE  /\ bases[i] \in Nat /\ FrameTop(words, bases, i) \in Nat
         /\ FrameTop(words, bases, i) <= Len(words)
         /\ SoundFrame(words, bases[i], FrameTop(words, bases, i))
         /\ i < Len(bases) => FrameTop(words, bases, i) = bases[i + 1] - 5
<1>1. SoundFrame(words, bases[i], FrameTop(words, bases, i)) /\ bases[i] \in Nat
  BY DEF Layout
<1>2. CASE i = Len(bases)
  BY <1>1, <1>2 DEF FrameTop
<1>3. CASE i # Len(bases)
  <2>1. i \in 1 .. Len(bases) - 1
    BY <1>3 DEF Layout
  <2>2. bases[i + 1] \in 5 .. Len(words)
    BY <2>1, LowerFrames
  <2> QED BY <1>1, <1>3, <2>2 DEF FrameTop
<1> QED BY <1>2, <1>3

\* The words of a call.
LEMMA PlaceSplit ==
  ASSUME NEW pos \in Positions
  PROVE  /\ pos % Radix \in Word /\ pos \div Radix \in Word
         /\ (pos % Radix) + Radix * (pos \div Radix) = pos
<1>1. /\ pos \in Int /\ pos >= 0 /\ pos < Radix * Radix
      /\ Radix \in Int /\ Radix > 0
  BY PositionsAssumption, StackAssumption
<1>2. \A p, r, q, m \in Int : /\ p >= 0 /\ p < r * r /\ r > 0 /\ p = r * q + m
                              /\ 0 <= m /\ m < r
                              => q >= 0 /\ q < r
  <2> SUFFICES ASSUME NEW p \in Int, NEW r \in Int, NEW q \in Int, NEW m \in Int,
                      p >= 0, p < r * r, r > 0, p = r * q + m, 0 <= m, m < r
               PROVE  q >= 0 /\ q < r
    OBVIOUS
  <2>1. q >= 0
    <3> SUFFICES ASSUME q <= -1 PROVE FALSE
      OBVIOUS
    <3>1. r * q <= r * (-1)
      OBVIOUS
    <3> QED BY <3>1
  <2>2. q < r
    <3> SUFFICES ASSUME q >= r PROVE FALSE
      OBVIOUS
    <3>1. r * q >= r * r
      OBVIOUS
    <3> QED BY <3>1
  <2> QED BY <2>1, <2>2
<1>3. /\ pos % Radix \in Int /\ pos \div Radix \in Int
      /\ pos = Radix * (pos \div Radix) + (pos % Radix)
      /\ 0 <= pos % Radix /\ pos % Radix < Radix
  BY <1>1
<1>4. pos \div Radix >= 0 /\ pos \div Radix < Radix
  BY <1>1, <1>2, <1>3
<1> QED BY <1>1, <1>3, <1>4 DEF Word

\* Concatenation.
LEMMA ConcatFacts ==
  ASSUME NEW S, NEW s \in Seq(S), NEW t \in Seq(S), NEW a \in Nat, NEW b \in Nat,
         a = Len(s), b = Len(t)
  PROVE  /\ s \o t \in Seq(S) /\ Len(s \o t) = a + b
         /\ \A p \in 1 .. a : (s \o t)[p] = s[p]
         /\ \A p \in 1 .. b : (s \o t)[a + p] = t[p]
<1>1. PICK o : o = s \o t
  OBVIOUS
<1>2. /\ o \in Seq(S) /\ Len(o) = a + b
      /\ \A p \in 1 .. a + b : o[p] = IF p <= a THEN s[p] ELSE t[p - a]
  BY <1>1
<1>3. \A p \in 1 .. a : o[p] = s[p]
  BY <1>2
<1>4. ASSUME NEW p \in 1 .. b
      PROVE  o[a + p] = t[p]
  <2>1. a + p \in 1 .. a + b /\ ~ (a + p <= a) /\ (a + p) - a = p
    OBVIOUS
  <2> QED BY <1>2, <2>1
<1> QED BY <1>1, <1>2, <1>3, <1>4, Zenon

LEMMA SeqWords == Seq(Values) \subseteq Seq(Word)
<1> SUFFICES ASSUME NEW s \in Seq(Values) PROVE s \in Seq(Word)
  OBVIOUS
<1>1. \A i \in 1 .. Len(s) : s[i] \in Word
  <2>1. Values \subseteq Word
    BY WordFacts
  <2> QED BY <2>1
<1> QED BY <1>1

\* What a call puts below the locals, and the frame it makes of them.
CallWords(store, pos, base, n) == <<store, pos % Radix, pos \div Radix, base, n>>
CalledFrame(locals, store, pos) ==
    [locals |-> locals, temps |-> <<>>, store |-> store, back |-> pos]

Calling(words, base, bases, store, pos, locals, n, other, called) ==
    /\ other = words \o (CallWords(store, pos, base, n) \o locals)
    /\ called = Append(bases, Len(words) + 5)

HasCalled(words, bases, store, pos, locals, n, other, called) ==
    /\ other \in Seq(Word) /\ Len(other) = Len(words) + 5 + n
    /\ Layout(other, Len(words) + 5, called)
    /\ FramesIn(other, called) =
         Append(FramesIn(words, bases), CalledFrame(locals, store, pos))

\* A call puts a frame on top, and changes no other.
LEMMA CallFrame ==
  ASSUME NEW words \in Seq(Word), NEW base, NEW bases, Layout(words, base, bases),
         NEW store \in Variables, NEW pos \in Positions,
         NEW locals \in Seq(Values), NEW n \in 0 .. 15, n = Len(locals),
         Len(words) + 5 + n <= StackSize, NEW other, NEW called,
         Calling(words, base, bases, store, pos, locals, n, other, called)
  PROVE  HasCalled(words, bases, store, pos, locals, n, other, called)
<1> DEFINE head == <<store, pos % Radix, pos \div Radix, base, n>>
<1>0. other = words \o (head \o locals) /\ called = Append(bases, Len(words) + 5)
  BY Zenon DEF Calling, CallWords
<1>1. /\ base \in Nat /\ base <= Len(words) /\ Len(words) \in Nat /\ base \in Word
  <2>1. /\ base \in Nat /\ base <= Len(words) /\ Len(words) \in Nat
    BY TopFrame
  <2>2. base \in 0 .. StackSize
    BY <2>1, StackAssumption
  <2> QED BY <2>1, <2>2, WordFacts
<1>2. head \in Seq(Word)
  <2>1. store \in Word /\ n \in Word
    BY WordFacts
  <2>2. pos % Radix \in Word /\ pos \div Radix \in Word
    BY PlaceSplit
  <2>3. PICK x, y : x = pos % Radix /\ y = pos \div Radix /\ x \in Word /\ y \in Word
    BY <2>2
  <2>4. <<store, x, y, base, n>> \in Seq(Word)
    BY <1>1, <2>1, <2>3
  <2> QED BY <2>3, <2>4
<1>18. PICK h \in Nat : h = Len(head) /\ h = 5
  OBVIOUS
<1>3. /\ head[1] = store /\ head[2] = pos % Radix /\ head[3] = pos \div Radix
      /\ head[4] = base /\ head[5] = n
  OBVIOUS
<1>4. locals \in Seq(Word)
  BY SeqWords
<1> HIDE DEF head
<1>5. PICK a \in Nat, b \in Nat : a = Len(words) /\ b = a + 5 /\ b = Len(words) + 5
  BY <1>1
<1>6. /\ other \in Seq(Word) /\ Len(other) = a + 5 + n
      /\ \A p \in 1 .. a : other[p] = words[p]
      /\ \A p \in 1 .. 5 : other[a + p] = head[p]
      /\ \A p \in 1 .. n : other[a + 5 + p] = locals[p]
  <2>1. PICK u : u = head \o locals
    OBVIOUS
  <2>2. PICK k \in Nat : k = h + n
    OBVIOUS
  <2>3. /\ u \in Seq(Word) /\ Len(u) = k
        /\ \A p \in 1 .. h : u[p] = head[p]
        /\ \A p \in 1 .. n : u[h + p] = locals[p]
    <3>1. h = Len(head) /\ n \in Nat
      BY <1>18
    <3>2. /\ head \o locals \in Seq(Word) /\ Len(head \o locals) = h + n
          /\ \A p \in 1 .. h : (head \o locals)[p] = head[p]
          /\ \A p \in 1 .. n : (head \o locals)[h + p] = locals[p]
      BY <1>2, <1>4, <3>1, ConcatFacts, SMT
    <3> QED BY <2>1, <2>2, <3>2, Zenon
  <2>4. PICK o : o = words \o u
    OBVIOUS
  <2>5. /\ o \in Seq(Word) /\ Len(o) = a + k
        /\ \A p \in 1 .. a : o[p] = words[p]
        /\ \A p \in 1 .. k : o[a + p] = u[p]
    <3>2. a = Len(words) /\ k = Len(u) /\ u \in Seq(Word)
      BY <1>5, <2>3
    <3>1. /\ words \o u \in Seq(Word) /\ Len(words \o u) = a + k
          /\ \A p \in 1 .. a : (words \o u)[p] = words[p]
          /\ \A p \in 1 .. k : (words \o u)[a + p] = u[p]
      BY <3>2, ConcatFacts, SMT
    <3> QED BY <2>4, <3>1, Zenon
  <2>6. \A p \in 1 .. 5 : p \in 1 .. h /\ p \in 1 .. k
    BY <1>18, <2>2
  <2>7. \A p \in 1 .. n : h + p \in 1 .. k /\ a + (h + p) = a + 5 + p
    BY <1>18, <2>2
  <2>8. a + k = a + 5 + n
    BY <1>18, <2>2
  <2>9. o = other
    BY <1>0, <2>1, <2>4
  <2> QED BY <2>3, <2>5, <2>6, <2>7, <2>8, <2>9, ZenonT(30)
<1>7. /\ other[b - 4] = store /\ other[b - 3] = pos % Radix
      /\ other[b - 2] = pos \div Radix /\ other[b - 1] = base /\ other[b] = n
  <2>1. /\ b - 4 = a + 1 /\ b - 3 = a + 2 /\ b - 2 = a + 3 /\ b - 1 = a + 4 /\ b = a + 5
    BY <1>5
  <2>2. 1 \in 1 .. 5 /\ 2 \in 1 .. 5 /\ 3 \in 1 .. 5 /\ 4 \in 1 .. 5 /\ 5 \in 1 .. 5
    OBVIOUS
  <2> QED BY <1>3, <1>6, <2>1, <2>2, Zenon
<1>8. ReturnPlace(other, b) = pos
  BY <1>7, PlaceSplit, Zenon DEF ReturnPlace
<1>9. b # 0 /\ LocalsAt(other, b) = n /\ StoreAt(other, b) = store /\ BackAt(other, b) = pos
  BY <1>5, <1>7, <1>8 DEF LocalsAt, StoreAt, BackAt
<1>10. PICK m \in Nat \ {0} : m = Len(bases) /\ bases \in Seq(Nat) /\ bases[m] = base
  BY DEF Layout
<1>11. /\ called \in Seq(Nat) /\ Len(called) = m + 1 /\ called[m + 1] = b
       /\ \A i \in 1 .. m : called[i] = bases[i]
  BY <1>0, <1>5, <1>10
<1>12. ASSUME NEW i \in 1 .. m
       PROVE  /\ called[i] = bases[i]
              /\ FrameTop(other, called, i) = FrameTop(words, bases, i)
              /\ SoundFrame(other, called[i], FrameTop(other, called, i))
              /\ FrameFrom(other, called[i], FrameTop(other, called, i))
                   = FrameFrom(words, bases[i], FrameTop(words, bases, i))
  <2>1. called[i] = bases[i] /\ i # Len(called) /\ i \in 1 .. Len(bases)
    BY <1>10, <1>11
  <2>2. PICK t \in Nat : t = FrameTop(words, bases, i) /\ t <= a /\ bases[i] \in Nat
                         /\ SoundFrame(words, bases[i], t)
    BY <1>5, <2>1, FrameBound
  <2>3. FrameTop(other, called, i) = t
    <3>1. FrameTop(other, called, i) = called[i + 1] - 5
      BY <2>1 DEF FrameTop
    <3>2. CASE i = m
      <4>1. FrameTop(words, bases, i) = a
        BY <1>5, <1>10, <3>2 DEF FrameTop
      <4>2. called[i + 1] = b
        BY <1>11, <3>2
      <4> QED BY <1>5, <2>2, <3>1, <4>1, <4>2
    <3>3. CASE i # m
      <4>1. FrameTop(words, bases, i) = bases[i + 1] - 5
        BY <1>10, <3>3 DEF FrameTop
      <4>2. called[i + 1] = bases[i + 1]
        BY <1>11, <3>3
      <4> QED BY <2>2, <3>1, <4>1, <4>2
    <3> QED BY <3>2, <3>3
  <2>4. Agree(words, other, t) /\ t <= Len(other) /\ Len(other) \in Nat
    BY <1>5, <1>6, <2>2, SMTT(30) DEF Agree
  <2>5. /\ FrameFrom(other, bases[i], t) = FrameFrom(words, bases[i], t)
        /\ SoundFrame(other, bases[i], t)
    BY <2>2, <2>4, SameFrame
  <2> QED BY <2>1, <2>2, <2>3, <2>5
<1>13. FrameTop(other, called, m + 1) = Len(other)
  BY <1>11 DEF FrameTop
<1>14. SoundFrame(other, b, Len(other))
  <2>1. b \in 5 .. Len(other) /\ b + n <= Len(other)
    BY <1>5, <1>6
  <2>2. \A p \in b + 1 .. Len(other) : other[p] \in Values
    <3> TAKE p \in b + 1 .. Len(other)
    <3>1. PICK i \in 1 .. n : p = a + 5 + i
      <4>1. p - b \in 1 .. n /\ p = a + 5 + (p - b)
        BY <1>5, <1>6
      <4> QED BY <4>1
    <3>2. locals[i] \in Values
      OBVIOUS
    <3> QED BY <1>6, <3>1, <3>2
  <2> QED BY <1>7, <1>8, <1>9, <2>1, <2>2 DEF SoundFrame
<1>15. Layout(other, b, called)
  <2>1. called # <<>> /\ called[1] = 0
    <3>1. bases[1] = 0 /\ 1 \in 1 .. m
      BY DEF Layout
    <3> QED BY <1>11, <3>1
  <2>2. \A i \in 1 .. Len(called) : SoundFrame(other, called[i], FrameTop(other, called, i))
    <3>1. \A i \in 1 .. m + 1 : i \in 1 .. m \/ i = m + 1
      OBVIOUS
    <3> QED BY <1>11, <1>12, <1>13, <1>14, <3>1, Zenon
  <2>3. \A i, j \in 1 .. Len(called) : i < j => called[i] < called[j]
    <3> SUFFICES ASSUME NEW i \in 1 .. m + 1, NEW j \in 1 .. m + 1, i < j
                 PROVE  called[i] < called[j]
      BY <1>11
    <3>1. i \in 1 .. m /\ called[i] = bases[i] /\ bases[i] \in Nat
      <4>1. i \in 1 .. m
        OBVIOUS
      <4> QED BY <1>10, <1>11, <4>1, SMTT(30)
    <3>2. bases[i] <= base
      <4>1. CASE i = m
        BY <1>1, <1>10, <4>1
      <4>2. CASE i # m
        <5>1. bases[i] < bases[m]
          BY <1>10, <3>1, <4>2 DEF Layout
        <5> QED BY <1>1, <1>10, <3>1, <5>1
      <4> QED BY <4>1, <4>2
    <3>3. CASE j = m + 1
      BY <1>1, <1>5, <1>11, <3>1, <3>2, <3>3
    <3>4. CASE j # m + 1
      <4>1. j \in 1 .. m /\ called[j] = bases[j]
        BY <1>11, <3>4, SMTT(30)
      <4>2. bases[i] < bases[j]
        BY <1>10, <3>1, <4>1 DEF Layout
      <4> QED BY <3>1, <4>1, <4>2
    <3> QED BY <3>3, <3>4
  <2>4. \A i \in 1 .. Len(called) - 1 : other[called[i + 1] - 1] = called[i]
    <3> SUFFICES ASSUME NEW i \in 1 .. m
                 PROVE  other[called[i + 1] - 1] = called[i]
      BY <1>11
    <3>1. CASE i = m
      BY <1>7, <1>10, <1>11, <3>1
    <3>2. CASE i # m
      <4>1. i \in 1 .. Len(bases) - 1
        BY <1>10, <3>2
      <4>2. bases[i + 1] \in 5 .. Len(words) /\ words[bases[i + 1] - 1] = bases[i]
        BY <4>1, LowerFrames DEF Layout
      <4>3. called[i + 1] = bases[i + 1] /\ called[i] = bases[i]
        BY <1>10, <1>11, <4>1
      <4>4. bases[i + 1] - 1 \in 1 .. a
        BY <1>5, <4>2
      <4> QED BY <1>6, <4>2, <4>3, <4>4
    <3> QED BY <3>1, <3>2
  <2>5. called[Len(called)] = b
    BY <1>11
  <2> QED BY <1>11, <2>1, <2>2, <2>3, <2>4, <2>5 DEF Layout
<1>16. FrameFrom(other, b, Len(other))
         = [locals |-> locals, temps |-> <<>>, store |-> store, back |-> pos]
  <2>1. SubSeq(other, b + 1, b + n) = locals
    <3>1. PICK x \in Nat \ {0} : x = b + 1
      OBVIOUS
    <3>2. PICK y \in Nat : y = b + n
      OBVIOUS
    <3>3. y <= Len(other) /\ x <= y + 1 /\ y - x + 1 = n
      BY <1>5, <1>6, <3>1, <3>2
    <3>4. PICK k : k = SubSeq(other, x, y)
      OBVIOUS
    <3>5. /\ k \in Seq(Word) /\ Len(k) = y - x + 1
          /\ \A i \in 1 .. y - x + 1 : k[i] = other[x + i - 1]
      <4>1. other \in Seq(Word)
        BY <1>6
      <4> QED BY <3>3, <3>4, <4>1, SliceFacts, SMTT(30)
    <3>6. \A i \in 1 .. n : x + i - 1 = a + 5 + i
      BY <1>5, <3>1
    <3>7. Len(k) = n /\ \A i \in 1 .. n : k[i] = locals[i]
      BY <1>6, <3>3, <3>5, <3>6
    <3>8. k = locals
      <4>1. k \in Seq(Word) /\ locals \in Seq(Word)
        BY <1>4, <3>5
      <4>2. Len(k) = Len(locals) /\ \A i \in 1 .. Len(locals) : k[i] = locals[i]
        BY <3>7
      <4> QED BY <4>1, <4>2, SMTT(30)
    <3> QED BY <3>1, <3>2, <3>4, <3>8
  <2>2. SubSeq(other, b + n + 1, Len(other)) = <<>>
    <3>1. PICK x \in Nat \ {0} : x = b + n + 1
      OBVIOUS
    <3>4. PICK y \in Nat : y = Len(other)
      BY <1>6
    <3>2. SubSeq(other, x, y) = <<>>
      <4>1. other \in Seq(Word)
        BY <1>6
      <4>2. y < x /\ y <= Len(other)
        BY <1>5, <1>6, <3>1, <3>4
      <4> QED BY <4>1, <4>2, SliceFacts
    <3> QED BY <3>1, <3>2, <3>4
  <2>3. FrameFrom(other, b, Len(other)) =
          [locals |-> SubSeq(other, b + 1, b + n),
           temps  |-> SubSeq(other, b + n + 1, Len(other)),
           store  |-> StoreAt(other, b), back |-> BackAt(other, b)]
    BY <1>9, FrameParts
  <2> QED BY <1>9, <2>1, <2>2, <2>3, Zenon
<1>17. FramesIn(other, called) = Append(FramesIn(words, bases), FrameFrom(other, b, Len(other)))
  <2> DEFINE f == FramesIn(words, bases)
             g == FramesIn(other, called)
  <2>1. PICK S : f \in Seq(S)
    BY <1>10, FramesInType
  <2>2. PICK T : g \in Seq(T)
    BY <1>11, FramesInType
  <2>3. Len(f) = m /\ Len(g) = m + 1
    BY <1>10, <1>11, FramesInType
  <2>4. \A i \in 1 .. m : g[i] = f[i]
    <3> TAKE i \in 1 .. m
    <3>1. f[i] = FrameFrom(words, bases[i], FrameTop(words, bases, i))
      BY <1>10, FramesInType
    <3>2. i \in 1 .. m + 1
      OBVIOUS
    <3>3. g[i] = FrameFrom(other, called[i], FrameTop(other, called, i))
      BY <1>11, <3>2, FramesInType
    <3> QED BY <1>12, <3>1, <3>3
  <2>5. g[m + 1] = FrameFrom(other, b, Len(other))
    <3>1. m + 1 \in 1 .. m + 1
      OBVIOUS
    <3> QED BY <1>11, <1>13, <3>1, FramesInType, SMTT(30)
  <2> HIDE DEF f, g
  <2>6. g = Append(f, g[m + 1])
    BY <2>1, <2>2, <2>3, <2>4
  <2> QED BY <2>5, <2>6 DEF f, g
<1> QED BY <1>5, <1>6, <1>15, <1>16, <1>17, Zenon DEF CalledFrame, HasCalled

\* A return takes the top frame off, and changes no other.
LEMMA ReturnFrame ==
  ASSUME NEW words \in Seq(Word), NEW base, NEW bases, Layout(words, base, bases),
         base # 0
  PROVE  LET other == SubSeq(words, 1, base - 5)
             frame == Last(FramesIn(words, bases))
         IN  /\ other \in Seq(Word) /\ Len(other) = base - 5 /\ base - 5 < Len(words)
             /\ Layout(other, words[base - 1], Front(bases))
             /\ FramesIn(other, Front(bases)) = Front(FramesIn(words, bases))
             /\ Len(FramesIn(words, bases)) > 1
             /\ frame.store = words[base - 4] /\ words[base - 4] \in Variables
             /\ frame.back = ReturnPlace(words, base) /\ ReturnPlace(words, base) \in Positions
<1> DEFINE other == SubSeq(words, 1, base - 5)
           caller == Front(bases)
<1>1. /\ base \in Nat /\ base >= 5 /\ base <= Len(words) /\ Len(words) \in Nat
      /\ SoundFrame(words, base, Len(words))
  BY TopFrame
<1>2. PICK t \in Nat : t = base - 5 /\ t < Len(words)
  BY <1>1
<1>3. /\ other \in Seq(Word) /\ Len(other) = t /\ \A p \in 1 .. t : other[p] = words[p]
  BY <1>2
<1> HIDE DEF other
<1>4. PICK m \in Nat : m + 1 = Len(bases) /\ m >= 1
  <2>1. Len(bases) \in Nat /\ ~ (Len(bases) <= 1)
    BY TopFrame
  <2>2. \A k \in Nat : ~ (k <= 1) => \E m \in Nat : m + 1 = k /\ m >= 1
    <3> TAKE k \in Nat
    <3> HAVE ~ (k <= 1)
    <3>1. k - 1 \in Nat /\ (k - 1) + 1 = k /\ k - 1 >= 1
      OBVIOUS
    <3> QED BY <3>1
  <2> QED BY <2>1, <2>2, Zenon
<1>5. bases \in Seq(Nat) /\ bases[m + 1] = base /\ bases[1] = 0
  BY <1>4 DEF Layout
<1>6. /\ caller \in Seq(Nat) /\ Len(caller) = m /\ \A i \in 1 .. m : caller[i] = bases[i]
  <2>1. Len(bases) > 0 /\ Len(bases) - 1 = m
    BY <1>4
  <2> QED BY <1>5, <2>1, FrontFacts
<1> HIDE DEF caller
<1>7. ASSUME NEW i \in 1 .. m
      PROVE  /\ caller[i] = bases[i]
             /\ FrameTop(other, caller, i) = FrameTop(words, bases, i)
             /\ SoundFrame(other, caller[i], FrameTop(other, caller, i))
             /\ FrameFrom(other, caller[i], FrameTop(other, caller, i))
                  = FrameFrom(words, bases[i], FrameTop(words, bases, i))
  <2>1. i \in 1 .. Len(bases) - 1 /\ i \in 1 .. Len(bases) /\ i < Len(bases)
    BY <1>4
  <2>2. /\ bases[i + 1] <= base /\ bases[i] \in Nat /\ bases[i + 1] \in Nat
    BY <2>1, LowerFrames
  <2>3. PICK k \in Nat : k = FrameTop(words, bases, i) /\ k = bases[i + 1] - 5
                         /\ SoundFrame(words, bases[i], k)
    BY <2>1, FrameBound
  <2>4. k <= t
    BY <1>1, <1>2, <2>2, <2>3, SMTT(30)
  <2>5. FrameTop(other, caller, i) = k
    <3>1. CASE i = m
      <4>1. FrameTop(other, caller, i) = t
        BY <1>3, <1>6, <3>1 DEF FrameTop
      <4>2. bases[i + 1] = base
        BY <1>5, <3>1
      <4> QED BY <1>2, <2>3, <4>1, <4>2
    <3>2. CASE i # m
      <4>1. FrameTop(other, caller, i) = caller[i + 1] - 5
        BY <1>6, <3>2 DEF FrameTop
      <4>2. caller[i + 1] = bases[i + 1]
        BY <1>6, <3>2
      <4> QED BY <2>3, <4>1, <4>2
    <3> QED BY <3>1, <3>2
  <2>6. Agree(words, other, k) /\ k <= Len(other) /\ Len(other) \in Nat
    BY <1>3, <2>4 DEF Agree
  <2>7. /\ FrameFrom(other, bases[i], k) = FrameFrom(words, bases[i], k)
        /\ SoundFrame(other, bases[i], k)
    BY <2>2, <2>3, <2>6, SameFrame
  <2>8. caller[i] = bases[i]
    BY <1>6
  <2> QED BY <2>3, <2>5, <2>7, <2>8
<1>8. words[base - 1] = bases[m]
  <2>1. m \in 1 .. Len(bases) - 1
    BY <1>4
  <2>2. words[bases[m + 1] - 1] = bases[m]
    BY <2>1 DEF Layout
  <2> QED BY <1>5, <2>2
<1>9. Layout(other, words[base - 1], caller)
  <2>1. caller # <<>> /\ caller[1] = 0 /\ caller[Len(caller)] = bases[m]
    <3>1. 1 \in 1 .. m /\ m \in 1 .. m
      BY <1>4
    <3> QED BY <1>5, <1>6, <3>1
  <2>2. \A i \in 1 .. Len(caller) : SoundFrame(other, caller[i], FrameTop(other, caller, i))
    BY <1>6, <1>7, Zenon
  <2>3. \A i, j \in 1 .. Len(caller) : i < j => caller[i] < caller[j]
    <3>1. \A i \in 1 .. m : i \in 1 .. Len(bases)
      BY <1>4
    <3>2. \A i, j \in 1 .. m : i < j => bases[i] < bases[j]
      BY <3>1, Zenon DEF Layout
    <3> QED BY <1>6, <3>2, Zenon
  <2>4. \A i \in 1 .. Len(caller) - 1 : other[caller[i + 1] - 1] = caller[i]
    <3> SUFFICES ASSUME NEW i \in 1 .. m - 1
                 PROVE  other[caller[i + 1] - 1] = caller[i]
      BY <1>6
    <3>1. i \in 1 .. Len(bases) - 1 /\ i + 1 \in 1 .. Len(bases) - 1
      BY <1>4
    <3>2. words[bases[i + 1] - 1] = bases[i]
      BY <3>1 DEF Layout
    <3>3. bases[i + 1] \in 5 .. Len(words)
      BY <3>1, LowerFrames
    <3>4. bases[i + 1] <= t
      <4>1. /\ bases[i + 1] + LocalsAt(words, bases[i + 1]) <= bases[(i + 1) + 1] - 5
            /\ LocalsAt(words, bases[i + 1]) \in 0 .. 15
            /\ bases[(i + 1) + 1] <= base /\ bases[(i + 1) + 1] \in Nat
        BY <3>1, LowerFrames
      <4>2. PICK l \in 0 .. 15 : l = LocalsAt(words, bases[i + 1])
        BY <4>1
      <4>3. PICK x \in Nat, y \in Nat : x = bases[i + 1] /\ y = bases[(i + 1) + 1]
        BY <3>3, <4>1
      <4>4. x + l <= y - 5 /\ y <= base
        BY <4>1, <4>2, <4>3, Zenon
      <4>5. x <= t
        BY <1>1, <1>2, <4>4
      <4> QED BY <4>3, <4>5
    <3>5. caller[i] = bases[i] /\ caller[i + 1] = bases[i + 1]
      BY <1>6
    <3>6. bases[i + 1] - 1 \in 1 .. t
      BY <3>3, <3>4
    <3> QED BY <1>3, <3>2, <3>5, <3>6
  <2> QED BY <1>6, <1>8, <2>1, <2>2, <2>3, <2>4, Zenon DEF Layout
<1> DEFINE f == FramesIn(words, bases)
           g == FramesIn(other, caller)
<1>10. g = Front(f) /\ Len(f) > 1
  <2>1. PICK S : f \in Seq(S)
    BY <1>5, FramesInType
  <2>2. PICK T : g \in Seq(T)
    BY <1>6, FramesInType
  <2>3. Len(f) = m + 1 /\ Len(g) = m
    BY <1>4, <1>5, <1>6, FramesInType
  <2>4. \A i \in 1 .. m : g[i] = f[i]
    <3> TAKE i \in 1 .. m
    <3>1. i \in 1 .. Len(bases)
      BY <1>4
    <3>2. f[i] = FrameFrom(words, bases[i], FrameTop(words, bases, i))
      BY <1>5, <3>1, FramesInType
    <3>3. g[i] = FrameFrom(other, caller[i], FrameTop(other, caller, i))
      BY <1>6, FramesInType
    <3> QED BY <1>7, <3>2, <3>3
  <2> HIDE DEF f, g
  <2>5. Len(f) > 1
    BY <1>4, <2>3
  <2>6. PICK r : r = Front(f)
    OBVIOUS
  <2>7. r \in Seq(S) /\ Len(r) = m /\ \A i \in 1 .. m : r[i] = f[i]
    BY <2>1, <2>3, <2>6, FrontFacts, SMTT(30)
  <2>8. r = g
    BY <2>2, <2>3, <2>4, <2>7
  <2> QED BY <2>5, <2>6, <2>8
<1>11. /\ Last(f).store = words[base - 4] /\ words[base - 4] \in Variables
       /\ Last(f).back = ReturnPlace(words, base) /\ ReturnPlace(words, base) \in Positions
  <2>1. Last(f) = FrameFrom(words, base, Len(words))
    BY FrameContents
  <2>2. PICK n : n = LocalsAt(words, base)
    OBVIOUS
  <2>3. FrameFrom(words, base, Len(words)) =
           [locals |-> SubSeq(words, base + 1, base + n),
            temps  |-> SubSeq(words, base + n + 1, Len(words)),
            store  |-> StoreAt(words, base), back |-> BackAt(words, base)]
    BY <1>1, <2>2, FrameParts
  <2> HIDE DEF f
  <2>4. Last(f).store = StoreAt(words, base) /\ Last(f).back = BackAt(words, base)
    BY <2>1, <2>3
  <2> QED BY <1>1, <2>4 DEF StoreAt, BackAt, SoundFrame
<1> QED BY <1>2, <1>3, <1>9, <1>10, <1>11, Zenon DEF other, caller

\* The story itself is the only frame of an empty stack.
LEMMA EmptyLayout ==
  /\ Layout(<<>>, 0, <<0>>)
  /\ FramesIn(<<>>, <<0>>) =
       <<[locals |-> <<>>, temps |-> <<>>, store |-> 0, back |-> 0]>>
<1>1. SoundFrame(<<>>, 0, 0)
  BY DEF SoundFrame, LocalsAt
<1>2. FrameTop(<<>>, <<0>>, 1) = 0
  BY DEF FrameTop
<1>3. Layout(<<>>, 0, <<0>>)
  BY <1>1, <1>2 DEF Layout
<1>4. FrameFrom(<<>>, 0, 0) = [locals |-> <<>>, temps |-> <<>>, store |-> 0, back |-> 0]
  BY DEF FrameFrom
<1> QED BY <1>2, <1>3, <1>4 DEF FramesIn

-----------------------------------------------------------------------------
(***************************************************************************)
(* The bases found by going from caller to caller are those of the layout. *)
(***************************************************************************)
FoundBases(words, f, base) ==
    IF base \in 5 .. Len(words) /\ words[base - 1] < base
    THEN Append(f[words[base - 1]], base)
    ELSE <<base>>

AreBases(words, f, limit) == f = [base \in 0 .. limit |-> FoundBases(words, f, base)]

\* The recursion of Bases, one step further.
LEMMA BasesExtend ==
  ASSUME NEW words \in Seq(Nat), NEW n \in Nat, NEW f, AreBases(words, f, n)
  PROVE  \E g : AreBases(words, g, n + 1)
<1> DEFINE g == [m \in 0 .. n + 1 |-> FoundBases(words, f, m)]
<1>1. \A m \in 0 .. n : g[m] = f[m]
  <2>1. \A m \in 0 .. n : f[m] = FoundBases(words, f, m)
    BY DEF AreBases
  <2> QED BY <2>1
<1>2. ASSUME NEW m \in 0 .. n + 1
      PROVE  FoundBases(words, g, m) = FoundBases(words, f, m)
  <2>1. CASE m \in 5 .. Len(words) /\ words[m - 1] < m
    <3>1. words[m - 1] \in 0 .. n
      <4>1. m - 1 \in 1 .. Len(words)
        BY <2>1
      <4>2. words[m - 1] \in Nat
        BY <4>1
      <4> QED BY <2>1, <4>2
    <3> HIDE DEF g
    <3>2. g[words[m - 1]] = f[words[m - 1]]
      BY <1>1, <3>1
    <3> QED BY <3>2, Zenon DEF FoundBases
  <2>2. CASE ~ (m \in 5 .. Len(words) /\ words[m - 1] < m)
    BY <2>2, Zenon DEF FoundBases
  <2> QED BY <2>1, <2>2
<1>3. g = [m \in 0 .. n + 1 |-> FoundBases(words, g, m)]
  BY <1>2
<1> QED BY <1>3 DEF AreBases

\* The recursion of Bases defines a function.
LEMMA BasesDefined ==
  ASSUME NEW words \in Seq(Nat)
  PROVE  AreBases(words, Bases(words), StackSize)
<1> DEFINE S == {n \in Nat : \E f : AreBases(words, f, n)}
<1>1. 0 \in S
  <2> DEFINE f == [m \in 0 .. 0 |-> <<m>>]
  <2>1. \A m \in 0 .. 0 : FoundBases(words, f, m) = <<m>>
    BY DEF FoundBases
  <2>2. AreBases(words, f, 0)
    BY <2>1 DEF AreBases
  <2> HIDE DEF f
  <2> QED BY <2>2
<1>2. \A n \in Nat : n \in S => n + 1 \in S
  BY BasesExtend
<1>3. \E f : AreBases(words, f, StackSize)
  <2> HIDE DEF S
  <2>1. StackSize \in S
    BY <1>1, <1>2, SetInduction, StackAssumption
  <2> QED BY <2>1 DEF S
<1> QED BY <1>3, Zenon DEF Bases, AreBases, FoundBases

LEMMA PrefixExtends ==
  ASSUME NEW S, NEW s \in Seq(S), NEW k \in Nat, k + 1 <= Len(s)
  PROVE  SubSeq(s, 1, k + 1) = Append(SubSeq(s, 1, k), s[k + 1])
<1> DEFINE a == SubSeq(s, 1, k)
           b == SubSeq(s, 1, k + 1)
<1>1. a \in Seq(S) /\ Len(a) = k /\ \A i \in 1 .. k : a[i] = s[i]
  OBVIOUS
<1>2. b \in Seq(S) /\ Len(b) = k + 1 /\ \A i \in 1 .. k + 1 : b[i] = s[i]
  OBVIOUS
<1>3. s[k + 1] \in S
  OBVIOUS
<1> HIDE DEF a, b
<1>4. PICK c : c = Append(a, s[k + 1])
  OBVIOUS
<1>5. /\ c \in Seq(S) /\ Len(c) = k + 1 /\ c[k + 1] = s[k + 1]
      /\ \A i \in 1 .. k : c[i] = a[i]
  BY <1>1, <1>3, <1>4
<1>6. \A i \in 1 .. k + 1 : c[i] = b[i]
  <2> TAKE i \in 1 .. k + 1
  <2>1. CASE i = k + 1
    BY <1>2, <1>5, <2>1
  <2>2. CASE i # k + 1
    <3>1. i \in 1 .. k
      BY <2>2
    <3> QED BY <1>1, <1>2, <1>5, <3>1
  <2> QED BY <2>1, <2>2
<1>7. b = c
  BY <1>2, <1>5, <1>6
<1> QED BY <1>4, <1>7 DEF a, b

\* Bases finds the bases of any layout.
LEMMA LayoutBases ==
  ASSUME NEW words \in Seq(Word), NEW base, NEW bases, Layout(words, base, bases),
         Len(words) <= StackSize
  PROVE  Bases(words)[base] = bases
<1> DEFINE S == {k \in Nat : k + 1 <= Len(bases) =>
                    Bases(words)[bases[k + 1]] = SubSeq(bases, 1, k + 1)}
<1>1. bases \in Seq(Nat) /\ Len(bases) \in Nat /\ Len(bases) >= 1
      /\ bases[1] = 0 /\ bases[Len(bases)] = base
  BY DEF Layout
<1>2. \A b \in 0 .. StackSize : Bases(words)[b] = FoundBases(words, Bases(words), b)
  <2>1. words \in Seq(Nat)
    <3>1. Word \subseteq Nat
      BY WordFacts
    <3>2. \A i \in 1 .. Len(words) : words[i] \in Word
      OBVIOUS
    <3>3. \A i \in 1 .. Len(words) : words[i] \in Nat
      BY <3>1, <3>2, Zenon
    <3> QED BY <3>3
  <2>2. AreBases(words, Bases(words), StackSize)
    BY <2>1, BasesDefined
  <2> QED BY <2>2 DEF AreBases
<1>3. 0 \in S
  <2>1. Bases(words)[0] = <<0>>
    <3>1. 0 \in 0 .. StackSize
      BY StackAssumption
    <3>2. FoundBases(words, Bases(words), 0) = <<0>>
      BY DEF FoundBases
    <3> QED BY <1>2, <3>1, <3>2
  <2>2. SubSeq(bases, 1, 0 + 1) = <<0>>
    <3>1. SubSeq(bases, 1, 0 + 1) = Append(SubSeq(bases, 1, 0), bases[0 + 1])
      BY <1>1, PrefixExtends
    <3>2. SubSeq(bases, 1, 0) = <<>>
      BY <1>1
    <3>3. Append(<<>>, 0) = <<0>>
      OBVIOUS
    <3>4. 0 + 1 = 1
      OBVIOUS
    <3> QED BY <1>1, <3>1, <3>2, <3>3, <3>4, Zenon
  <2>3. bases[0 + 1] = 0
    BY <1>1
  <2> QED BY <2>1, <2>2, <2>3
<1>4. ASSUME NEW k \in Nat, k \in S
      PROVE  k + 1 \in S
  <2> SUFFICES ASSUME (k + 1) + 1 <= Len(bases)
               PROVE  Bases(words)[bases[(k + 1) + 1]] = SubSeq(bases, 1, (k + 1) + 1)
    OBVIOUS
  <2>1. k + 1 \in 1 .. Len(bases) - 1 /\ k + 1 <= Len(bases)
    BY <1>1
  <2>2. Bases(words)[bases[k + 1]] = SubSeq(bases, 1, k + 1)
    BY <1>4, <2>1
  <2>3. PICK b : b = bases[(k + 1) + 1]
    OBVIOUS
  <2>4. /\ b \in 5 .. Len(words) /\ b \in Nat
        /\ bases[k + 1] < b /\ words[b - 1] = bases[k + 1]
    BY <2>1, <2>3, LowerFrames DEF Layout
  <2>5. b \in 0 .. StackSize
    BY <2>4, StackAssumption
  <2>6. Bases(words)[b] = Append(Bases(words)[words[b - 1]], b)
    BY <1>2, <2>4, <2>5 DEF FoundBases
  <2>7. SubSeq(bases, 1, (k + 1) + 1) = Append(SubSeq(bases, 1, k + 1), b)
    BY <1>1, <2>1, <2>3, PrefixExtends
  <2> QED BY <2>2, <2>3, <2>4, <2>6, <2>7
<1> HIDE DEF S
<1>5. PICK n \in Nat : n + 1 = Len(bases)
  BY <1>1
<1>6. n \in S
  BY <1>3, <1>4, SetInduction
<1>7. Bases(words)[bases[n + 1]] = SubSeq(bases, 1, n + 1)
  BY <1>5, <1>6 DEF S
<1>8. SubSeq(bases, 1, n + 1) = bases
  BY <1>1, <1>5
<1> QED BY <1>1, <1>5, <1>7, <1>8

-----------------------------------------------------------------------------
(***************************************************************************)
(* The machine as a record.                                                *)
(***************************************************************************)
Machines == [stack : Seq(Word), bp : Nat, globals : [Globals -> Values],
             pc : Positions, zstatus : Stopped \cup {"running"}]

\* What DeathsExplained says, of any machine.
Explains(words, bases, why) ==
    LET frames == FramesIn(words, bases)
    IN  /\ why = "overflow"  => Len(words) = StackSize
        /\ why = "underflow" => Last(frames).temps = <<>>
        /\ why = "no local"  => \E var \in Variables \cap LocalVars :
                                   var > Len(Last(frames).locals)
        /\ why = "no caller" => Len(frames) = 1

Sound(m, bases) ==
    /\ m \in Machines /\ Len(m.stack) <= StackSize
    /\ Layout(m.stack, m.bp, bases)
    /\ Explains(m.stack, bases, m.zstatus)

FramesState(m, bases) == [frames |-> FramesIn(m.stack, bases), globals |-> m.globals]

\* A machine has five parts.
LEMMA MachineParts ==
  ASSUME NEW m \in Machines
  PROVE  /\ m.stack \in Seq(Word) /\ m.bp \in Nat /\ m.globals \in [Globals -> Values]
         /\ m.pc \in Positions /\ m.zstatus \in Stopped \cup {"running"}
         /\ m = [stack |-> m.stack, bp |-> m.bp, globals |-> m.globals, pc |-> m.pc,
                 zstatus |-> m.zstatus]
BY DEF Machines

\* With another stack, nothing else of a machine changes.
LEMMA StackReplaced ==
  ASSUME NEW m \in Machines, NEW x, NEW n, n = [m EXCEPT !.stack = x]
  PROVE  /\ n.stack = x /\ n.bp = m.bp /\ n.globals = m.globals /\ n.pc = m.pc
         /\ n.zstatus = m.zstatus
         /\ x \in Seq(Word) => n \in Machines
<1>1. m = [stack |-> m.stack, bp |-> m.bp, globals |-> m.globals, pc |-> m.pc,
           zstatus |-> m.zstatus]
  BY MachineParts
<1>2. n = [stack |-> x, bp |-> m.bp, globals |-> m.globals, pc |-> m.pc,
           zstatus |-> m.zstatus]
  BY <1>1
<1>3. /\ n.stack = x /\ n.bp = m.bp /\ n.globals = m.globals /\ n.pc = m.pc
      /\ n.zstatus = m.zstatus
  BY <1>2
<1>4. x \in Seq(Word) => n \in Machines
  BY <1>2, MachineParts DEF Machines
<1> QED BY <1>3, <1>4

\* A machine that stops keeps its stack.
LEMMA HaltedSound ==
  ASSUME NEW m, NEW bases, Sound(m, bases), NEW why \in Stopped,
         Explains(m.stack, bases, why)
  PROVE  /\ Sound(Halted(m, why), bases) /\ ~ Running(Halted(m, why))
         /\ Halted(m, why).pc = m.pc
<1>1. m \in Machines
  BY DEF Sound
<1>2. PICK n : n = Halted(m, why)
  OBVIOUS
<1>3. n = [stack |-> m.stack, bp |-> m.bp, globals |-> m.globals, pc |-> m.pc,
           zstatus |-> why]
  BY <1>1, <1>2, MachineParts DEF Halted
<1>4. /\ n.stack = m.stack /\ n.bp = m.bp /\ n.zstatus = why /\ n.pc = m.pc
      /\ why # "running"
  BY <1>3, Zenon DEF Stopped, Deaths
<1>5. n \in Machines
  BY <1>1, <1>3, MachineParts DEF Machines
<1>6. Sound(n, bases)
  BY <1>4, <1>5 DEF Sound
<1> QED BY <1>2, <1>4, <1>6 DEF Running

\* An instruction goes on somewhere in the story.
LEMMA AtSound ==
  ASSUME NEW m, NEW bases, Sound(m, bases), NEW position \in Positions
  PROVE  /\ Sound(At(m, position), bases) /\ At(m, position).pc = position
         /\ Running(At(m, position)) => Running(m)
         /\ FramesState(At(m, position), bases) = FramesState(m, bases)
<1>1. m \in Machines
  BY DEF Sound
<1>2. PICK n : n = At(m, position)
  OBVIOUS
<1>3. n = [stack |-> m.stack, bp |-> m.bp, globals |-> m.globals, pc |-> position,
           zstatus |-> m.zstatus]
  BY <1>1, <1>2, MachineParts DEF At
<1>4. /\ n.stack = m.stack /\ n.bp = m.bp /\ n.zstatus = m.zstatus /\ n.pc = position
      /\ n.globals = m.globals
  BY <1>3
<1>5. n \in Machines
  BY <1>1, <1>3, MachineParts DEF Machines
<1>6. Sound(n, bases)
  BY <1>4, <1>5 DEF Sound
<1> QED BY <1>2, <1>4, <1>6 DEF Running, FramesState

\* Only a machine that has stopped has to explain itself.
LEMMA RunningExplained ==
  ASSUME NEW words, NEW bases, NEW m, Running(m)
  PROVE  Explains(words, bases, m.zstatus)
BY DEF Explains, Running

-----------------------------------------------------------------------------
\* The state of the frames, and its topmost frame.
LEMMA TopOfState ==
  ASSUME NEW f, NEW g, NEW s, s = [frames |-> f, globals |-> g], NEW x
  PROVE  /\ s.frames = f /\ s.globals = g
         /\ Frames!Top(s) = Last(f)
         /\ Frames!WithTop(s, x) = [frames |-> TopReplaced(f, x), globals |-> g]
<1>1. s.frames = f /\ s.globals = g
  OBVIOUS
<1>2. Frames!Top(s) = Last(f)
  BY <1>1 DEF Frames!Top, Frames!Last, Last
<1>3. Frames!WithTop(s, x) = [frames |-> TopReplaced(f, x), globals |-> g]
  <2>1. PICK y : y = Append(Front(f), x)
    OBVIOUS
  <2>2. [s EXCEPT !.frames = Append(Front(@), x)] = [s EXCEPT !.frames = Append(Front(s.frames), x)]
    OBVIOUS
  <2>3. [s EXCEPT !.frames = Append(Front(s.frames), x)] = [s EXCEPT !.frames = y]
    BY <1>1, <2>1, Zenon
  <2>4. [s EXCEPT !.frames = y] = [frames |-> y, globals |-> g]
    OBVIOUS
  <2>5. Frames!WithTop(s, x) = [s EXCEPT !.frames = Append(Front(@), x)]
    BY DEF Frames!WithTop, Frames!Front, Front
  <2> QED BY <2>1, <2>2, <2>3, <2>4, <2>5 DEF TopReplaced
<1> QED BY <1>1, <1>2, <1>3

\* What the reference says of writing a variable.
LEMMA WriteResults ==
  ASSUME NEW s, NEW var, NEW value, NEW frame, frame = Frames!Top(s)
  PROVE  /\ var = 0 => Frames!WithTop(s, FramePushed(frame, value)) \in Frames!Write(s, var, value)
         /\ var \in LocalVars /\ var \in DOMAIN frame.locals =>
              Frames!WithTop(s, FrameSet(frame, var, value)) \in Frames!Write(s, var, value)
         /\ var # 0 /\ var \notin LocalVars =>
              [s EXCEPT !.globals[var] = value] \in Frames!Write(s, var, value)
<1>1. ASSUME var = 0
      PROVE  Frames!WithTop(s, FramePushed(frame, value)) \in Frames!Write(s, var, value)
  BY <1>1, Zenon DEF Frames!Write, Frames!TheStack, FramePushed
<1>2. ASSUME var \in LocalVars, var \in DOMAIN frame.locals
      PROVE  Frames!WithTop(s, FrameSet(frame, var, value)) \in Frames!Write(s, var, value)
  <2>1. var \in {var} \cap DOMAIN frame.locals
    BY <1>2
  <2>2. var # Frames!TheStack /\ var \in Frames!LocalVars
    BY <1>2 DEF Frames!TheStack, Frames!LocalVars, LocalVars
  <2> QED BY <2>1, <2>2 DEF Frames!Write, FrameSet
<1>3. ASSUME var # 0, var \notin LocalVars
      PROVE  [s EXCEPT !.globals[var] = value] \in Frames!Write(s, var, value)
  <2>1. var # Frames!TheStack /\ var \notin Frames!LocalVars
    BY <1>3 DEF Frames!TheStack, Frames!LocalVars, LocalVars
  <2> QED BY <2>1 DEF Frames!Write
<1> QED BY <1>1, <1>2, <1>3, Zenon

\* WriteVar does to the frames what Write says.
LEMMA WriteVarSound ==
  ASSUME NEW m, NEW bases, Sound(m, bases), NEW var \in Variables, NEW value \in Values,
         NEW n, n = WriteVar(m, var, value), NEW s, s = FramesState(m, bases)
  PROVE  /\ Sound(n, bases) /\ n.pc = m.pc
         /\ Running(n) => /\ Running(m)
                          /\ FramesState(n, bases) \in Frames!Write(s, var, value)
<1> DEFINE words == m.stack
           frame == FrameFrom(words, m.bp, Len(words))
           fs == FramesIn(words, bases)
<1>1. /\ m \in Machines /\ Len(m.stack) <= StackSize /\ Layout(words, m.bp, bases)
      /\ m.stack \in Seq(Word) /\ m.bp \in Nat /\ m.globals \in [Globals -> Values]
  BY MachineParts DEF Sound
<1>2. s = [frames |-> fs, globals |-> m.globals]
  BY DEF FramesState
<1>3. Last(fs) = frame
  BY <1>1, FrameContents, Zenon
<1>4. s.globals = m.globals /\ Frames!Top(s) = frame
  BY <1>2, <1>3, TopOfState
<1>5. CASE ~ Running(m)
  <2>1. n = m
    BY <1>5 DEF WriteVar
  <2> QED BY <1>5, <2>1
<1>6. CASE Running(m) /\ var = 0
  <2>1. CASE Len(words) >= StackSize
    <3>1. n = Halted(m, "overflow")
      BY <1>6, <2>1 DEF WriteVar
    <3>2. Len(words) = StackSize
      BY <1>1, <2>1, StackAssumption
    <3>3. Explains(m.stack, bases, "overflow")
      BY <3>2 DEF Explains
    <3> QED BY <3>1, <3>3, HaltedSound, Zenon DEF Stopped, Deaths
  <2>2. CASE ~ (Len(words) >= StackSize)
    <3>1. n = Pushed(m, <<value>>)
      BY <1>6, <2>2 DEF WriteVar
    <3>2. PICK other : other = words \o <<value>>
      OBVIOUS
    <3>3. n = [m EXCEPT !.stack = other]
      BY <3>1, <3>2 DEF Pushed
    <3>4. /\ other \in Seq(Word) /\ Len(other) = Len(words) + 1
          /\ Layout(other, m.bp, bases)
          /\ FramesIn(other, bases) = TopReplaced(fs, FramePushed(frame, value))
      BY <1>1, <3>2, PushFrame
    <3>5. /\ n.stack = other /\ n.bp = m.bp /\ n.globals = m.globals /\ n.pc = m.pc
          /\ n.zstatus = m.zstatus /\ n \in Machines
      BY <1>1, <3>3, <3>4, StackReplaced
    <3>6. Len(other) <= StackSize
      BY <1>1, <2>2, <3>4, StackAssumption
    <3>7. Running(n)
      BY <1>6, <3>5 DEF Running
    <3>8. Sound(n, bases)
      BY <3>4, <3>5, <3>6, <3>7, RunningExplained, Zenon DEF Sound
    <3>9. FramesState(n, bases) = Frames!WithTop(s, FramePushed(frame, value))
      <4>1. FramesState(n, bases) = [frames |-> FramesIn(other, bases), globals |-> m.globals]
        BY <3>5, Zenon DEF FramesState
      <4> HIDE DEF fs, frame
      <4> QED BY <1>2, <3>4, <4>1, TopOfState
    <3>10. FramesState(n, bases) \in Frames!Write(s, var, value)
      <4> HIDE DEF frame
      <4> QED BY <1>4, <1>6, <3>9, WriteResults
    <3> QED BY <1>6, <3>5, <3>8, <3>10, Zenon
  <2> QED BY <2>1, <2>2
<1>7. CASE Running(m) /\ var # 0 /\ var \in LocalVars
  <2>1. NumLocals(m) = LocalsAt(words, m.bp)
    BY DEF NumLocals, LocalsAt
  <2>2. /\ LocalsAt(words, m.bp) \in 0 .. 15 /\ Len(frame.locals) = LocalsAt(words, m.bp)
        /\ DOMAIN frame.locals = 1 .. LocalsAt(words, m.bp)
    <3>1. LocalsAt(words, m.bp) \in 0 .. 15
      BY <1>1, TopFrame, Zenon
    <3>2. /\ Len(frame.locals) = LocalsAt(words, m.bp)
          /\ DOMAIN frame.locals = 1 .. LocalsAt(words, m.bp)
      BY <1>1, FrameContents, Zenon
    <3> QED BY <3>1, <3>2
  <2>3. var \in 1 .. 15
    BY <1>7 DEF LocalVars
  <2>4. CASE NumLocals(m) < var
    <3>1. n = Halted(m, "no local")
      BY <1>7, <2>4, Zenon DEF WriteVar
    <3>2. var > Len(frame.locals)
      BY <2>1, <2>2, <2>3, <2>4
    <3>3. Explains(m.stack, bases, "no local")
      <4> HIDE DEF frame
      <4> QED BY <1>3, <1>7, <3>2 DEF Explains
    <3> QED BY <3>1, <3>3, HaltedSound, Zenon DEF Stopped, Deaths
  <2>5. CASE ~ (NumLocals(m) < var)
    <3>1. n = [m EXCEPT !.stack[m.bp + var] = value]
      BY <1>7, <2>5 DEF WriteVar
    <3>2. PICK other : other = [words EXCEPT ![m.bp + var] = value]
      OBVIOUS
    <3>3. n = [m EXCEPT !.stack = other]
      BY <3>1, <3>2
    <3>4. var \in 1 .. LocalsAt(words, m.bp)
      BY <2>1, <2>2, <2>3, <2>5
    <3>5. /\ other \in Seq(Word) /\ Len(other) = Len(words)
          /\ Layout(other, m.bp, bases)
          /\ FramesIn(other, bases) = TopReplaced(fs, FrameSet(frame, var, value))
      BY <1>1, <3>2, <3>4, SetFrame
    <3>6. /\ n.stack = other /\ n.bp = m.bp /\ n.globals = m.globals /\ n.pc = m.pc
          /\ n.zstatus = m.zstatus /\ n \in Machines
      BY <1>1, <3>3, <3>5, StackReplaced
    <3>7. Running(n)
      BY <1>7, <3>6 DEF Running
    <3>8. Sound(n, bases)
      BY <1>1, <3>5, <3>6, <3>7, RunningExplained, Zenon DEF Sound
    <3>9. FramesState(n, bases) = Frames!WithTop(s, FrameSet(frame, var, value))
      <4>1. FramesState(n, bases) = [frames |-> FramesIn(other, bases), globals |-> m.globals]
        BY <3>6, Zenon DEF FramesState
      <4> HIDE DEF fs, frame
      <4> QED BY <1>2, <3>5, <4>1, TopOfState
    <3>10. FramesState(n, bases) \in Frames!Write(s, var, value)
      <4> HIDE DEF frame
      <4>1. var \in DOMAIN frame.locals
        BY <2>2, <3>4
      <4> QED BY <1>4, <1>7, <3>9, <4>1, WriteResults
    <3> QED BY <1>7, <3>6, <3>8, <3>10, Zenon
  <2> QED BY <2>4, <2>5
<1>8. CASE Running(m) /\ var # 0 /\ var \notin LocalVars
  <2>1. n = [m EXCEPT !.globals[var] = value]
    BY <1>8 DEF WriteVar
  <2>2. PICK gs : gs = [m.globals EXCEPT ![var] = value]
    OBVIOUS
  <2>3. gs \in [Globals -> Values]
    BY <1>1, <2>2
  <2>4. m = [stack |-> m.stack, bp |-> m.bp, globals |-> m.globals, pc |-> m.pc,
             zstatus |-> m.zstatus]
    BY <1>1, MachineParts
  <2>5. n = [stack |-> m.stack, bp |-> m.bp, globals |-> gs, pc |-> m.pc,
             zstatus |-> m.zstatus]
    <3>1. n = [m EXCEPT !.globals = gs]
      BY <2>1, <2>2
    <3> QED BY <2>4, <3>1
  <2>6. /\ n.stack = words /\ n.bp = m.bp /\ n.globals = gs /\ n.pc = m.pc
        /\ n.zstatus = m.zstatus
    BY <2>5
  <2>7. n \in Machines
    BY <1>1, <2>3, <2>5, MachineParts DEF Machines
  <2>8. Running(n)
    BY <1>8, <2>6 DEF Running
  <2>9. Sound(n, bases)
    BY <1>1, <2>6, <2>7, <2>8, RunningExplained, Zenon DEF Sound
  <2>10. FramesState(n, bases) = [s EXCEPT !.globals[var] = value]
    <3>1. FramesState(n, bases) = [frames |-> fs, globals |-> gs]
      BY <2>6, Zenon DEF FramesState
    <3>2. [s EXCEPT !.globals[var] = value] = [s EXCEPT !.globals = gs]
      BY <1>4, <2>2
    <3>3. [s EXCEPT !.globals = gs] = [frames |-> fs, globals |-> gs]
      <4> HIDE DEF fs
      <4> QED BY <1>2
    <3> QED BY <3>1, <3>2, <3>3
  <2>11. FramesState(n, bases) \in Frames!Write(s, var, value)
    <3> HIDE DEF frame
    <3> QED BY <1>4, <1>8, <2>10, WriteResults
  <2> QED BY <1>8, <2>6, <2>9, <2>11, Zenon
<1> QED BY <1>5, <1>6, <1>7, <1>8

-----------------------------------------------------------------------------
\* What the reference says of reading a variable.
LEMMA ReadResults ==
  ASSUME NEW s, NEW var, NEW frame, frame = Frames!Top(s)
  PROVE  /\ var = 0 /\ frame.temps # <<>> =>
              [state |-> Frames!WithTop(s, FramePopped(frame)), value |-> Last(frame.temps)]
                 \in Frames!ReadVariable(s, var)
         /\ var \in LocalVars /\ var \in DOMAIN frame.locals =>
              [state |-> s, value |-> frame.locals[var]] \in Frames!ReadVariable(s, var)
         /\ var # 0 /\ var \notin LocalVars =>
              [state |-> s, value |-> s.globals[var]] \in Frames!ReadVariable(s, var)
<1>1. ASSUME var = 0, frame.temps # <<>>
      PROVE  [state |-> Frames!WithTop(s, FramePopped(frame)), value |-> Last(frame.temps)]
                 \in Frames!ReadVariable(s, var)
  <2>1. Last(frame.temps) = Frames!Last(frame.temps)
    BY DEF Last, Frames!Last
  <2>2. FramePopped(frame) = [frame EXCEPT !.temps = Frames!Front(@)]
    BY DEF FramePopped, Front, Frames!Front
  <2> QED BY <1>1, <2>1, <2>2, Zenon DEF Frames!ReadVariable, Frames!TheStack
<1>2. ASSUME var \in LocalVars, var \in DOMAIN frame.locals
      PROVE  [state |-> s, value |-> frame.locals[var]] \in Frames!ReadVariable(s, var)
  <2>1. var \in {var} \cap DOMAIN frame.locals
    BY <1>2
  <2>2. var # Frames!TheStack /\ var \in Frames!LocalVars
    BY <1>2 DEF Frames!TheStack, Frames!LocalVars, LocalVars
  <2> QED BY <2>1, <2>2 DEF Frames!ReadVariable
<1>3. ASSUME var # 0, var \notin LocalVars
      PROVE  [state |-> s, value |-> s.globals[var]] \in Frames!ReadVariable(s, var)
  <2>1. var # Frames!TheStack /\ var \notin Frames!LocalVars
    BY <1>3 DEF Frames!TheStack, Frames!LocalVars, LocalVars
  <2> QED BY <2>1 DEF Frames!ReadVariable
<1> QED BY <1>1, <1>2, <1>3, Zenon

ReadsAs(s, var, t, value) == [state |-> t, value |-> value] \in Frames!ReadVariable(s, var)

\* ReadVar yields a value of the frames, and does to them what ReadVariable says.
LEMMA ReadVarSound ==
  ASSUME NEW m, NEW bases, Sound(m, bases), NEW var \in Variables,
         NEW r, r = ReadVar(m, var), NEW s, s = FramesState(m, bases)
  PROVE  /\ Sound(r.machine, bases) /\ r.machine.pc = m.pc /\ r.value \in Values
         /\ Running(r.machine) => /\ Running(m)
                                  /\ ReadsAs(s, var, FramesState(r.machine, bases), r.value)
<1> DEFINE words == m.stack
           frame == FrameFrom(words, m.bp, Len(words))
           fs == FramesIn(words, bases)
<1>0. 0 \in Values
  BY ValuesAssumption
<1>1. /\ m \in Machines /\ Len(m.stack) <= StackSize /\ Layout(words, m.bp, bases)
      /\ m.stack \in Seq(Word) /\ m.bp \in Nat /\ m.globals \in [Globals -> Values]
  BY MachineParts DEF Sound
<1>2. s = [frames |-> fs, globals |-> m.globals]
  BY DEF FramesState
<1>3. Last(fs) = frame
  BY <1>1, FrameContents, Zenon
<1>4. s.globals = m.globals /\ Frames!Top(s) = frame
  BY <1>2, <1>3, TopOfState
<1>5. NumLocals(m) = LocalsAt(words, m.bp)
  BY DEF NumLocals, LocalsAt
<1>6. /\ LocalsAt(words, m.bp) \in 0 .. 15 /\ Len(frame.locals) = LocalsAt(words, m.bp)
      /\ DOMAIN frame.locals = 1 .. LocalsAt(words, m.bp)
  <2>1. LocalsAt(words, m.bp) \in 0 .. 15
    BY <1>1, TopFrame, Zenon
  <2>2. /\ Len(frame.locals) = LocalsAt(words, m.bp)
        /\ DOMAIN frame.locals = 1 .. LocalsAt(words, m.bp)
    BY <1>1, FrameContents, Zenon
  <2> QED BY <2>1, <2>2
<1>7. ASSUME NEW why \in Deaths, Running(m), Explains(m.stack, bases, why),
             r = [machine |-> Halted(m, why), value |-> 0]
      PROVE  /\ Sound(r.machine, bases) /\ r.machine.pc = m.pc /\ r.value \in Values
             /\ ~ Running(r.machine)
  <2>1. r.machine = Halted(m, why) /\ r.value = 0
    BY <1>7
  <2>2. why \in Stopped
    BY DEF Stopped
  <2> QED BY <1>0, <1>7, <2>1, <2>2, HaltedSound
<1>8. CASE ~ Running(m)
  <2>1. r = [machine |-> m, value |-> 0]
    BY <1>8 DEF ReadVar
  <2>2. r.machine = m /\ r.value = 0
    BY <2>1
  <2> QED BY <1>0, <1>8, <2>2
<1>9. CASE Running(m) /\ var = 0
  <2>1. CASE NothingPushed(m)
    <3>1. r = [machine |-> Halted(m, "underflow"), value |-> 0]
      BY <1>9, <2>1 DEF ReadVar
    <3>2. m.bp + LocalsAt(words, m.bp) >= Len(words)
      BY <1>5, <2>1 DEF NothingPushed
    <3>3. frame.temps = <<>>
      BY <1>1, <3>2, FrameContents, Zenon
    <3>4. Explains(m.stack, bases, "underflow")
      <4> HIDE DEF frame
      <4> QED BY <1>3, <3>3 DEF Explains
    <3> QED BY <1>7, <1>9, <3>1, <3>4, Zenon DEF Deaths
  <2>2. CASE ~ NothingPushed(m)
    <3>1. r = [machine |-> [m EXCEPT !.stack = Front(@)], value |-> Last(m.stack)]
      BY <1>9, <2>2 DEF ReadVar
    <3>2. PICK other : other = Front(words)
      OBVIOUS
    <3>3. PICK n : n = [m EXCEPT !.stack = other]
      OBVIOUS
    <3>4. r = [machine |-> n, value |-> Last(words)]
      <4>1. [m EXCEPT !.stack = Front(@)] = n
        BY <3>2, <3>3
      <4> QED BY <3>1, <4>1, Zenon
    <3>5. r.machine = n /\ r.value = Last(words)
      BY <3>4
    <3>6. m.bp + LocalsAt(words, m.bp) < Len(words)
      BY <1>1, <1>5, <1>6, <2>2 DEF NothingPushed
    <3>7. /\ other \in Seq(Word) /\ Len(other) = Len(words) - 1
          /\ Layout(other, m.bp, bases)
          /\ Last(words) \in Values /\ Last(words) = Last(frame.temps)
          /\ FramesIn(other, bases) = TopReplaced(fs, FramePopped(frame))
      BY <1>1, <3>2, <3>6, PopFrame
    <3>8. frame.temps # <<>>
      BY <1>1, <3>6, FrameContents, Zenon
    <3>9. /\ n.stack = other /\ n.bp = m.bp /\ n.globals = m.globals /\ n.pc = m.pc
          /\ n.zstatus = m.zstatus /\ n \in Machines
      BY <1>1, <3>3, <3>7, StackReplaced
    <3>10. Len(other) <= StackSize
      BY <1>1, <3>7, StackAssumption
    <3>11. Running(n)
      BY <1>9, <3>9 DEF Running
    <3>12. Sound(n, bases)
      BY <3>7, <3>9, <3>10, <3>11, RunningExplained, Zenon DEF Sound
    <3>13. FramesState(n, bases) = Frames!WithTop(s, FramePopped(frame))
      <4>1. FramesState(n, bases) = [frames |-> FramesIn(other, bases), globals |-> m.globals]
        BY <3>9, Zenon DEF FramesState
      <4> HIDE DEF fs, frame
      <4> QED BY <1>2, <3>7, <4>1, TopOfState
    <3>14. ReadsAs(s, var, FramesState(n, bases), Last(words))
      <4> HIDE DEF frame
      <4>1. [state |-> Frames!WithTop(s, FramePopped(frame)), value |-> Last(frame.temps)]
                 \in Frames!ReadVariable(s, var)
        BY <1>4, <1>9, <3>8, ReadResults
      <4> QED BY <3>7, <3>13, <4>1, Zenon DEF ReadsAs
    <3> QED BY <1>9, <3>5, <3>7, <3>9, <3>12, <3>14, Zenon
  <2> QED BY <2>1, <2>2
<1>10. CASE Running(m) /\ var # 0 /\ var \in LocalVars
  <2>1. var \in 1 .. 15
    BY <1>10 DEF LocalVars
  <2>2. CASE NumLocals(m) < var
    <3>1. r = [machine |-> Halted(m, "no local"), value |-> 0]
      BY <1>10, <2>2, Zenon DEF ReadVar
    <3>2. var > Len(frame.locals)
      BY <1>5, <1>6, <2>1, <2>2
    <3>3. Explains(m.stack, bases, "no local")
      <4> HIDE DEF frame
      <4> QED BY <1>3, <1>10, <3>2 DEF Explains
    <3> QED BY <1>7, <1>10, <3>1, <3>3, Zenon DEF Deaths
  <2>3. CASE ~ (NumLocals(m) < var)
    <3>1. r = [machine |-> m, value |-> words[m.bp + var]]
      BY <1>10, <2>3 DEF ReadVar
    <3>2. r.machine = m /\ r.value = words[m.bp + var]
      BY <3>1
    <3>3. var \in 1 .. LocalsAt(words, m.bp)
      BY <1>5, <1>6, <2>1, <2>3
    <3>4. frame.locals[var] = words[m.bp + var] /\ words[m.bp + var] \in Values
      BY <1>1, <3>3, FrameContents, Zenon
    <3>5. ReadsAs(s, var, FramesState(m, bases), r.value)
      <4> HIDE DEF frame
      <4>1. var \in DOMAIN frame.locals
        BY <1>6, <3>3
      <4>2. [state |-> s, value |-> frame.locals[var]] \in Frames!ReadVariable(s, var)
        BY <1>4, <1>10, <4>1, ReadResults
      <4> QED BY <3>2, <3>4, <4>2, Zenon DEF ReadsAs
    <3> QED BY <1>10, <3>2, <3>4, <3>5, Zenon
  <2> QED BY <2>2, <2>3
<1>11. CASE Running(m) /\ var # 0 /\ var \notin LocalVars
  <2>1. r = [machine |-> m, value |-> m.globals[var]]
    BY <1>11 DEF ReadVar
  <2>2. r.machine = m /\ r.value = m.globals[var]
    BY <2>1
  <2>3. var \in Globals
    BY <1>11, VariablesAssumption DEF Globals, LocalVars
  <2>4. m.globals[var] \in Values
    BY <1>1, <2>3
  <2>5. ReadsAs(s, var, FramesState(m, bases), r.value)
    <3> HIDE DEF frame
    <3>1. [state |-> s, value |-> s.globals[var]] \in Frames!ReadVariable(s, var)
      BY <1>4, <1>11, ReadResults
    <3> QED BY <1>4, <2>2, <3>1, Zenon DEF ReadsAs
  <2> QED BY <1>11, <2>2, <2>4, <2>5, Zenon
<1> QED BY <1>8, <1>9, <1>10, <1>11

-----------------------------------------------------------------------------
(***************************************************************************)
(* The operands of an instruction.                                         *)
(***************************************************************************)
AnOperand == [kind : {"constant"}, word : Values] \cup [kind : {"variable"}, word : Variables]

\* The frames a parsed list of operands has left, and the values it yielded.
StateOf(p, bases) == [state |-> FramesState(p.machine, bases), values |-> p.values]

\* What the reference reads from a variable or a constant, behind what it has read.
ReadsMore(e, x) == {[state |-> r.state, values |-> Append(e.values, r.value)] :
                       r \in Frames!Read(e.state, x)}

\* An operand is read as the reference reads it.
LEMMA ParseOperandSound ==
  ASSUME NEW p, NEW bases, Sound(p.machine, bases), p.values \in Seq(Values),
         NEW x \in AnOperand, NEW q, q = ParseOperand(p, x)
  PROVE  /\ Sound(q.machine, bases) /\ q.machine.pc = p.machine.pc
         /\ q.values \in Seq(Values) /\ Len(q.values) = Len(p.values) + 1
         /\ Running(q.machine) => /\ Running(p.machine)
                                  /\ StateOf(q, bases) \in ReadsMore(StateOf(p, bases), x)
<1> DEFINE s == FramesState(p.machine, bases)
<1>1. PICK r : r = IF x.kind = "constant" THEN [machine |-> p.machine, value |-> x.word]
                                          ELSE ReadVar(p.machine, x.word)
  OBVIOUS
<1>2. q = [machine |-> r.machine, values |-> Append(p.values, r.value)]
  BY <1>1, Zenon DEF ParseOperand
<1>3. /\ Sound(r.machine, bases) /\ r.machine.pc = p.machine.pc /\ r.value \in Values
      /\ Running(r.machine) =>
            /\ Running(p.machine)
            /\ [state |-> FramesState(r.machine, bases), value |-> r.value] \in Frames!Read(s, x)
  <2>1. CASE x.kind = "constant"
    <3>1. r = [machine |-> p.machine, value |-> x.word]
      BY <1>1, <2>1
    <3>2. r.machine = p.machine /\ r.value = x.word
      BY <3>1
    <3>3. x.word \in Values
      BY <2>1 DEF AnOperand
    <3>4. [state |-> s, value |-> x.word] \in Frames!Read(s, x)
      BY <2>1, Zenon DEF Frames!Read
    <3> QED BY <3>2, <3>3, <3>4, Zenon
  <2>2. CASE x.kind # "constant"
    <3>1. r = ReadVar(p.machine, x.word)
      BY <1>1, <2>2
    <3>2. x.word \in Variables
      BY <2>2 DEF AnOperand
    <3>3. /\ Sound(r.machine, bases) /\ r.machine.pc = p.machine.pc /\ r.value \in Values
          /\ Running(r.machine) => /\ Running(p.machine)
                                   /\ ReadsAs(s, x.word, FramesState(r.machine, bases), r.value)
      BY <3>1, <3>2, ReadVarSound
    <3>4. Frames!Read(s, x) = Frames!ReadVariable(s, x.word)
      BY <2>2, Zenon DEF Frames!Read
    <3> QED BY <3>3, <3>4, Zenon DEF ReadsAs
  <2> QED BY <2>1, <2>2
<1>4. PICK w : w = Append(p.values, r.value)
  OBVIOUS
<1>5. q = [machine |-> r.machine, values |-> w]
  BY <1>2, <1>4, Zenon
<1>6. q.machine = r.machine /\ q.values = w
  BY <1>5
<1>7. w \in Seq(Values) /\ Len(w) = Len(p.values) + 1
  BY <1>3, <1>4
<1>8. ASSUME Running(q.machine)
      PROVE  StateOf(q, bases) \in ReadsMore(StateOf(p, bases), x)
  <2>1. PICK u : u = [state |-> FramesState(r.machine, bases), value |-> r.value]
    OBVIOUS
  <2>2. u \in Frames!Read(s, x) /\ u.state = FramesState(r.machine, bases) /\ u.value = r.value
    BY <1>3, <1>6, <1>8, <2>1
  <2>3. PICK e : e = StateOf(p, bases)
    OBVIOUS
  <2>4. e.state = s /\ e.values = p.values
    BY <2>3 DEF StateOf
  <2>5. StateOf(q, bases) = [state |-> u.state, values |-> Append(e.values, u.value)]
    BY <1>4, <1>6, <2>2, <2>4, Zenon DEF StateOf
  <2>6. StateOf(q, bases) \in ReadsMore(e, x)
    BY <2>2, <2>4, <2>5, Zenon DEF ReadsMore
  <2> QED BY <2>3, <2>6
<1> QED BY <1>3, <1>6, <1>7, <1>8

-----------------------------------------------------------------------------
ParsedAt(xs, f, n) ==
    IF n = 0 THEN [machine |-> Machine, values |-> <<>>] ELSE ParseOperand(f[n - 1], xs[n])

AreParsed(xs, f, limit) == f = [n \in 0 .. limit |-> ParsedAt(xs, f, n)]

ResultsAt(s, xs, f, n) ==
    IF n = 0 THEN {[state |-> s, values |-> <<>>]}
             ELSE UNION {ReadsMore(e, xs[n]) : e \in f[n - 1]}

AreResults(s, xs, f, limit) == f = [n \in 0 .. limit |-> ResultsAt(s, xs, f, n)]

LEMMA ParsedExtend ==
  ASSUME NEW xs, NEW n \in Nat, NEW f, AreParsed(xs, f, n)
  PROVE  \E g : AreParsed(xs, g, n + 1)
<1> DEFINE g == [m \in 0 .. n + 1 |-> ParsedAt(xs, f, m)]
<1>1. \A m \in 0 .. n : g[m] = f[m]
  <2>1. \A m \in 0 .. n : f[m] = ParsedAt(xs, f, m)
    BY DEF AreParsed
  <2> QED BY <2>1
<1>2. ASSUME NEW m \in 0 .. n + 1
      PROVE  ParsedAt(xs, g, m) = ParsedAt(xs, f, m)
  <2>1. m # 0 => m - 1 \in 0 .. n
    OBVIOUS
  <2> HIDE DEF g
  <2>2. m # 0 => g[m - 1] = f[m - 1]
    BY <1>1, <2>1
  <2> QED BY <2>2, Zenon DEF ParsedAt
<1>3. g = [m \in 0 .. n + 1 |-> ParsedAt(xs, g, m)]
  BY <1>2
<1> QED BY <1>3 DEF AreParsed

\* The recursion of Parsed defines a function, and so does that of Evaluate.
LEMMA ParsedDefined ==
  ASSUME NEW xs, NEW size \in Nat, size = Len(xs)
  PROVE  \E f : AreParsed(xs, f, size) /\ Parsed(xs) = f[size]
<1> DEFINE S == {n \in Nat : \E f : AreParsed(xs, f, n)}
<1>1. 0 \in S
  <2> DEFINE f == [m \in 0 .. 0 |-> [machine |-> Machine, values |-> <<>>]]
  <2>1. \A m \in 0 .. 0 : ParsedAt(xs, f, m) = [machine |-> Machine, values |-> <<>>]
    BY DEF ParsedAt
  <2>2. AreParsed(xs, f, 0)
    BY <2>1 DEF AreParsed
  <2> HIDE DEF f
  <2> QED BY <2>2
<1>2. \A n \in Nat : n \in S => n + 1 \in S
  BY ParsedExtend
<1>3. \E f : AreParsed(xs, f, size)
  <2> HIDE DEF S
  <2>1. size \in S
    BY <1>1, <1>2, SetInduction
  <2> QED BY <2>1 DEF S
<1> DEFINE g == CHOOSE f : f = [n \in 0 .. Len(xs) |->
                   IF n = 0 THEN [machine |-> Machine, values |-> <<>>]
                            ELSE ParseOperand(f[n - 1], xs[n])]
<1>4. AreParsed(xs, g, size)
  BY <1>3, Zenon DEF AreParsed, ParsedAt
<1>5. Parsed(xs) = g[size]
  BY Zenon DEF Parsed
<1> QED BY <1>4, <1>5

LEMMA ResultsExtend ==
  ASSUME NEW s, NEW xs, NEW n \in Nat, NEW f, AreResults(s, xs, f, n)
  PROVE  \E g : AreResults(s, xs, g, n + 1)
<1> DEFINE g == [m \in 0 .. n + 1 |-> ResultsAt(s, xs, f, m)]
<1>1. \A m \in 0 .. n : g[m] = f[m]
  <2>1. \A m \in 0 .. n : f[m] = ResultsAt(s, xs, f, m)
    BY DEF AreResults
  <2> QED BY <2>1
<1>2. ASSUME NEW m \in 0 .. n + 1
      PROVE  ResultsAt(s, xs, g, m) = ResultsAt(s, xs, f, m)
  <2>1. m # 0 => m - 1 \in 0 .. n
    OBVIOUS
  <2> HIDE DEF g
  <2>2. m # 0 => g[m - 1] = f[m - 1]
    BY <1>1, <2>1
  <2> QED BY <2>2, Zenon DEF ResultsAt
<1>3. g = [m \in 0 .. n + 1 |-> ResultsAt(s, xs, g, m)]
  BY <1>2
<1> QED BY <1>3 DEF AreResults

LEMMA ResultsDefined ==
  ASSUME NEW s, NEW xs, NEW size \in Nat, size = Len(xs)
  PROVE  \E f : AreResults(s, xs, f, size) /\ Frames!Evaluate(s, xs) = f[size]
<1> DEFINE S == {n \in Nat : \E f : AreResults(s, xs, f, n)}
<1>1. 0 \in S
  <2> DEFINE f == [m \in 0 .. 0 |-> {[state |-> s, values |-> <<>>]}]
  <2>1. \A m \in 0 .. 0 : ResultsAt(s, xs, f, m) = {[state |-> s, values |-> <<>>]}
    BY DEF ResultsAt
  <2>2. AreResults(s, xs, f, 0)
    BY <2>1 DEF AreResults
  <2> HIDE DEF f
  <2> QED BY <2>2
<1>2. \A n \in Nat : n \in S => n + 1 \in S
  BY ResultsExtend
<1>3. \E f : AreResults(s, xs, f, size)
  <2> HIDE DEF S
  <2>1. size \in S
    BY <1>1, <1>2, SetInduction
  <2> QED BY <2>1 DEF S
<1> DEFINE g == CHOOSE f : f = [n \in 0 .. Len(xs) |->
                   IF n = 0 THEN {[state |-> s, values |-> <<>>]}
                   ELSE UNION {{[state |-> r.state, values |-> Append(e.values, r.value)] :
                                 r \in Frames!Read(e.state, xs[n])} : e \in f[n - 1]}]
<1>4. AreResults(s, xs, g, size)
  BY <1>3, Zenon DEF AreResults, ResultsAt, ReadsMore
<1>5. Frames!Evaluate(s, xs) = g[size]
  BY Zenon DEF Frames!Evaluate
<1> QED BY <1>4, <1>5

-----------------------------------------------------------------------------
\* A list of operands that has been parsed from the present state of the machine.
SoundParse(p, bases) ==
    /\ Sound(p.machine, bases) /\ p.machine.pc = pc /\ p.values \in Seq(Values)

\* All operands of an instruction are read as the reference reads them.
LEMMA OperandsParsed ==
  ASSUME NEW bases, Sound(Machine, bases), NEW xs \in Operands, NEW p, p = Parsed(xs)
  PROVE  /\ SoundParse(p, bases) /\ Len(p.values) = Len(xs)
         /\ Running(p.machine) =>
              /\ Running(Machine)
              /\ StateOf(p, bases) \in Frames!Evaluate(FramesState(Machine, bases), xs)
<1>1. xs \in Seq(AnOperand)
  BY OperandsAssumption DEF AnOperand
<1>2. PICK size \in Nat : size = Len(xs)
  BY <1>1
<1>3. PICK s : s = FramesState(Machine, bases)
  OBVIOUS
<1>4. PICK f : AreParsed(xs, f, size) /\ Parsed(xs) = f[size]
  BY <1>2, ParsedDefined
<1>5. PICK g : AreResults(s, xs, g, size) /\ Frames!Evaluate(s, xs) = g[size]
  BY <1>2, ResultsDefined
<1>6. \A n \in 0 .. size : f[n] = ParsedAt(xs, f, n) /\ g[n] = ResultsAt(s, xs, g, n)
  BY <1>4, <1>5 DEF AreParsed, AreResults
<1> DEFINE Fine(q, n) ==
              /\ SoundParse(q, bases) /\ Len(q.values) = n
              /\ Running(q.machine) => Running(Machine) /\ StateOf(q, bases) \in g[n]
           S == {n \in Nat : n <= size => Fine(f[n], n)}
<1>7. 0 \in S
  <2>1. 0 \in 0 .. size
    BY <1>2
  <2>2. f[0] = [machine |-> Machine, values |-> <<>>] /\ g[0] = {[state |-> s, values |-> <<>>]}
    BY <1>6, <2>1 DEF ParsedAt, ResultsAt
  <2>3. f[0].machine = Machine /\ f[0].values = <<>>
    BY <2>2
  <2>4. StateOf(f[0], bases) \in g[0]
    BY <1>3, <2>2, <2>3, Zenon DEF StateOf
  <2>5. <<>> \in Seq(Values) /\ Len(<<>>) = 0 /\ Machine.pc = pc
    BY DEF Machine
  <2>6. Fine(f[0], 0)
    BY <2>3, <2>4, <2>5, Zenon DEF SoundParse
  <2> QED BY <2>6
<1>8. ASSUME NEW n \in Nat, n \in S
      PROVE  n + 1 \in S
  <2> SUFFICES ASSUME n + 1 <= size PROVE Fine(f[n + 1], n + 1)
    OBVIOUS
  <2>1. n + 1 \in 0 .. size /\ n + 1 \in 1 .. Len(xs) /\ n + 1 # 0 /\ (n + 1) - 1 = n
    BY <1>2
  <2>2. Fine(f[n], n)
    BY <1>8, <1>2
  <2>3. xs[n + 1] \in AnOperand
    BY <1>1, <2>1
  <2>4. f[n + 1] = ParseOperand(f[n], xs[n + 1])
    BY <1>6, <2>1, Zenon DEF ParsedAt
  <2>5. g[n + 1] = UNION {ReadsMore(e, xs[n + 1]) : e \in g[n]}
    BY <1>6, <2>1, Zenon DEF ResultsAt
  <2>6. PICK p1, p2 : p1 = f[n] /\ p2 = f[n + 1]
    OBVIOUS
  <2>7. Sound(p1.machine, bases) /\ p1.values \in Seq(Values)
    BY <2>2, <2>6 DEF SoundParse
  <2>8. /\ Sound(p2.machine, bases) /\ p2.machine.pc = p1.machine.pc
        /\ p2.values \in Seq(Values) /\ Len(p2.values) = Len(p1.values) + 1
        /\ Running(p2.machine) => /\ Running(p1.machine)
                                  /\ StateOf(p2, bases) \in ReadsMore(StateOf(p1, bases), xs[n + 1])
    <3>1. PICK x \in AnOperand : x = xs[n + 1]
      BY <2>3
    <3>2. p2 = ParseOperand(p1, x)
      BY <2>4, <2>6, <3>1
    <3> QED BY <2>7, <3>1, <3>2, ParseOperandSound
  <2>9. ASSUME Running(p2.machine)
        PROVE  Running(Machine) /\ StateOf(p2, bases) \in g[n + 1]
    <3>1. Running(Machine) /\ StateOf(p1, bases) \in g[n]
      BY <2>2, <2>6, <2>8, <2>9
    <3> QED BY <2>5, <2>8, <2>9, <3>1, Zenon
  <2>10. SoundParse(p2, bases) /\ Len(p2.values) = n + 1
    BY <2>2, <2>6, <2>8 DEF SoundParse
  <2> QED BY <2>6, <2>9, <2>10
<1> HIDE DEF S
<1>9. size \in S
  BY <1>7, <1>8, SetInduction
<1>10. Fine(f[size], size)
  BY <1>9 DEF S
<1> QED BY <1>2, <1>3, <1>4, <1>5, <1>10, Zenon

-----------------------------------------------------------------------------
(***************************************************************************)
(* Returns.                                                                *)
(***************************************************************************)
ReturnsTo(s, value, t, at) ==
    /\ Len(s.frames) > 1
    /\ t \in Frames!Returned(s, value) /\ at = Frames!Top(s).back

\* A return changes three parts of the machine at once.
LEMMA ThreeReplaced ==
  ASSUME NEW m, NEW b, NEW p, NEW w,
         m = [stack |-> m.stack, bp |-> m.bp, globals |-> m.globals, pc |-> m.pc,
              zstatus |-> m.zstatus],
         NEW r, r = [m EXCEPT !.bp = b, !.pc = p, !.stack = w]
  PROVE  r =
           [stack |-> w, bp |-> b, globals |-> m.globals, pc |-> p, zstatus |-> m.zstatus]
<1>1. PICK a1, a2, a3, a4, a5 : /\ a1 = m.stack /\ a2 = m.bp /\ a3 = m.globals
                                /\ a4 = m.pc /\ a5 = m.zstatus
  OBVIOUS
<1>2. m = [stack |-> a1, bp |-> a2, globals |-> a3, pc |-> a4, zstatus |-> a5]
  BY <1>1
<1>3. [m EXCEPT !.bp = b, !.pc = p, !.stack = w]
        = [[[m EXCEPT !.bp = b] EXCEPT !.pc = p] EXCEPT !.stack = w]
  BY <1>2
<1>4. PICK r1 : r1 = [m EXCEPT !.bp = b]
  OBVIOUS
<1>5. r1 = [stack |-> a1, bp |-> b, globals |-> a3, pc |-> a4, zstatus |-> a5]
  BY <1>2, <1>4
<1>6. PICK r2 : r2 = [r1 EXCEPT !.pc = p]
  OBVIOUS
<1>7. r2 = [stack |-> a1, bp |-> b, globals |-> a3, pc |-> p, zstatus |-> a5]
  BY <1>5, <1>6
<1>8. [r2 EXCEPT !.stack = w]
        = [stack |-> w, bp |-> b, globals |-> a3, pc |-> p, zstatus |-> a5]
  BY <1>7
<1> QED BY <1>1, <1>3, <1>4, <1>6, <1>8, Zenon

\* DoReturn drops the frame of the running routine, and stores its result.
LEMMA DoReturnSound ==
  ASSUME NEW m, NEW bases, Sound(m, bases), NEW value \in Values,
         NEW n, n = DoReturn(m, value), NEW s, s = FramesState(m, bases)
  PROVE  \E after : /\ Sound(n, after)
                    /\ Running(n) => /\ Running(m)
                                     /\ ReturnsTo(s, value, FramesState(n, after), n.pc)
<1> DEFINE words == m.stack
           fs == FramesIn(words, bases)
           frame == Last(fs)
<1>1. /\ m \in Machines /\ Len(m.stack) <= StackSize /\ Layout(words, m.bp, bases)
      /\ m.stack \in Seq(Word) /\ m.bp \in Nat /\ m.globals \in [Globals -> Values]
      /\ m.zstatus \in Stopped \cup {"running"}
  BY MachineParts DEF Sound
<1>2. s = [frames |-> fs, globals |-> m.globals]
  BY DEF FramesState
<1>3. Frames!Top(s) = frame /\ s.frames = fs
  BY <1>2, TopOfState
<1>4. CASE ~ Running(m)
  <2>1. n = m
    BY <1>4 DEF DoReturn
  <2> QED BY <1>4, <2>1
<1>5. CASE Running(m) /\ m.bp = 0
  <2>1. n = Halted(m, "no caller")
    BY <1>5, Zenon DEF DoReturn
  <2>2. Len(bases) <= 1 /\ Len(bases) \in Nat /\ Len(bases) >= 1
    BY <1>1, <1>5, TopFrame
  <2>3. Len(fs) = Len(bases)
    BY <1>1, FramesInType DEF Layout
  <2>4. Explains(m.stack, bases, "no caller")
    <3>1. Len(fs) = 1
      <4>1. PICK k \in Nat : k = Len(fs)
        BY <2>2, <2>3
      <4> QED BY <2>2, <2>3, <4>1
    <3> HIDE DEF fs
    <3> QED BY <3>1 DEF Explains, fs
  <2> QED BY <2>1, <2>4, HaltedSound, Zenon DEF Stopped, Deaths
<1>6. CASE Running(m) /\ m.bp # 0
  <2>1. PICK other, base, pos, store :
           /\ other = SubSeq(words, 1, m.bp - 5) /\ base = words[m.bp - 1]
           /\ pos = ReturnPlace(words, m.bp) /\ store = words[m.bp - 4]
    OBVIOUS
  <2>2. /\ other \in Seq(Word) /\ Len(other) = m.bp - 5 /\ m.bp - 5 < Len(words)
        /\ Layout(other, base, Front(bases))
        /\ FramesIn(other, Front(bases)) = Front(fs)
        /\ Len(fs) > 1
        /\ frame.store = store /\ store \in Variables
        /\ frame.back = pos /\ pos \in Positions
    <3>1. PICK under, b : under = words /\ b = m.bp
      OBVIOUS
    <3>2. under \in Seq(Word) /\ Layout(under, b, bases) /\ b # 0
      BY <1>1, <1>6, <3>1
    <3>3. other = SubSeq(under, 1, b - 5)
      BY <2>1, <3>1
    <3>4. /\ other \in Seq(Word) /\ Len(other) = b - 5 /\ b - 5 < Len(under)
          /\ Layout(other, under[b - 1], Front(bases))
          /\ FramesIn(other, Front(bases)) = Front(FramesIn(under, bases))
      BY <3>2, <3>3, ReturnFrame
    <3>5. /\ Len(FramesIn(under, bases)) > 1
          /\ Last(FramesIn(under, bases)).store = under[b - 4] /\ under[b - 4] \in Variables
          /\ Last(FramesIn(under, bases)).back = ReturnPlace(under, b)
          /\ ReturnPlace(under, b) \in Positions
      BY <3>2, ReturnFrame
    <3> QED BY <2>1, <3>1, <3>4, <3>5, Zenon
  <2>3. PICK d : d = [stack |-> other, bp |-> base, globals |-> m.globals, pc |-> pos,
                      zstatus |-> m.zstatus]
    OBVIOUS
  <2>4. [m EXCEPT !.bp = m.stack[m.bp - 1], !.pc = ReturnPlace(m.stack, m.bp),
                  !.stack = SubSeq(@, 1, m.bp - 5)] = d
    <3>1. [m EXCEPT !.bp = m.stack[m.bp - 1], !.pc = ReturnPlace(m.stack, m.bp),
                    !.stack = SubSeq(@, 1, m.bp - 5)]
            = [m EXCEPT !.bp = base, !.pc = pos, !.stack = other]
      BY <2>1
    <3>2. m = [stack |-> m.stack, bp |-> m.bp, globals |-> m.globals, pc |-> m.pc,
               zstatus |-> m.zstatus]
      BY <1>1, MachineParts
    <3>3. [m EXCEPT !.bp = base, !.pc = pos, !.stack = other] = d
      <4>1. PICK r : r = [m EXCEPT !.bp = base, !.pc = pos, !.stack = other]
        OBVIOUS
      <4>2. r = [stack |-> other, bp |-> base, globals |-> m.globals, pc |-> pos,
                 zstatus |-> m.zstatus]
        BY <3>2, <4>1, ThreeReplaced, Zenon
      <4> QED BY <2>3, <4>1, <4>2, Zenon
    <3> QED BY <3>1, <3>3, Zenon
  <2>5. n = WriteVar(d, store, value)
    BY <1>6, <2>1, <2>4, Zenon DEF DoReturn
  <2>6. /\ d.stack = other /\ d.bp = base /\ d.globals = m.globals /\ d.pc = pos
        /\ d.zstatus = m.zstatus
    BY <2>3
  <2>7. base \in Nat
    BY <2>2, TopFrame
  <2>8. d \in Machines
    BY <1>1, <2>2, <2>3, <2>7 DEF Machines
  <2>9. Running(d)
    BY <1>6, <2>6 DEF Running
  <2>10. Len(other) <= StackSize
    BY <1>1, <2>2, StackAssumption
  <2>11. Sound(d, Front(bases))
    BY <2>2, <2>6, <2>8, <2>9, <2>10, RunningExplained DEF Sound
  <2>12. PICK u : u = FramesState(d, Front(bases))
    OBVIOUS
  <2>13. /\ Sound(n, Front(bases)) /\ n.pc = pos
         /\ Running(n) => FramesState(n, Front(bases)) \in Frames!Write(u, store, value)
    BY <2>2, <2>5, <2>6, <2>11, <2>12, WriteVarSound
  <2>14. u = [s EXCEPT !.frames = Frames!Front(@)]
    <3>1. PICK below : below = Front(fs)
      OBVIOUS
    <3>2. u = [frames |-> below, globals |-> m.globals]
      BY <2>2, <2>6, <2>12, <3>1, Zenon DEF FramesState
    <3>3. [s EXCEPT !.frames = below] = [frames |-> below, globals |-> m.globals]
      <4> HIDE DEF fs
      <4> QED BY <1>2
    <3>4. [s EXCEPT !.frames = Frames!Front(@)] = [s EXCEPT !.frames = below]
      BY <1>3, <3>1 DEF Frames!Front, Front
    <3> QED BY <3>2, <3>3, <3>4, Zenon
  <2>15. Frames!Returned(s, value) = Frames!Write(u, store, value)
    <3> HIDE DEF frame
    <3> QED BY <1>3, <2>2, <2>14, Zenon DEF Frames!Returned
  <2>16. Running(n) => ReturnsTo(s, value, FramesState(n, Front(bases)), n.pc)
    <3> HIDE DEF frame, fs
    <3> QED BY <1>3, <2>2, <2>13, <2>15 DEF ReturnsTo
  <2> QED BY <1>6, <2>13, <2>16
<1> QED BY <1>4, <1>5, <1>6

-----------------------------------------------------------------------------
(***************************************************************************)
(* Calls.                                                                  *)
(***************************************************************************)
\* The locals of a routine, as the reference takes them from the operands.
CalledLocals(values, header) ==
    [k \in DOMAIN header |-> IF k + 1 \in DOMAIN values THEN values[k + 1] ELSE header[k]]

\* The locals of a routine start from its arguments, as in the reference.
LEMMA LocalsStart ==
  ASSUME NEW values \in Seq(Values), Len(values) # 0, NEW header \in Seq(Values),
         NEW locals, locals = LocalsOf(header, Tail(values))
  PROVE  /\ locals \in Seq(Values) /\ Len(locals) = Len(header)
         /\ locals = CalledLocals(values, header)
<1>1. PICK k \in Nat : k + 1 = Len(values)
  OBVIOUS
<1>2. PICK t : t = Tail(values)
  OBVIOUS
<1>3. t \in Seq(Values) /\ Len(t) = k /\ \A i \in 1 .. k : t[i] = values[i + 1]
  BY <1>1, <1>2
<1>4. DOMAIN t = 1 .. k /\ DOMAIN values = 1 .. k + 1 /\ DOMAIN header = 1 .. Len(header)
  BY <1>1, <1>3
<1>5. locals = [i \in DOMAIN header |-> IF i \in DOMAIN t THEN t[i] ELSE header[i]]
  BY <1>2, Zenon DEF LocalsOf
<1>6. \A i \in DOMAIN header : i \in DOMAIN t <=> i + 1 \in DOMAIN values
  BY <1>4
<1>7. \A i \in DOMAIN t : t[i] = values[i + 1]
  BY <1>3, <1>4
<1>8. locals = CalledLocals(values, header)
  BY <1>5, <1>6, <1>7 DEF CalledLocals
<1>9. \A i \in 1 .. Len(header) : (IF i \in DOMAIN t THEN t[i] ELSE header[i]) \in Values
  BY <1>3, <1>4
<1>10. locals \in Seq(Values) /\ Len(locals) = Len(header)
  BY <1>4, <1>5, <1>9
<1> QED BY <1>8, <1>10

LEMMA FrameCalled ==
  ASSUME NEW words, NEW base, NEW bases, NEW store, NEW pos, NEW locals, NEW n,
         NEW other, NEW called,
         words \in Seq(Word), Layout(words, base, bases), Len(words) + 5 + n <= StackSize,
         store \in Variables, pos \in Positions,
         n = Len(locals), locals \in Seq(Values), n \in 0 .. 15,
         Calling(words, base, bases, store, pos, locals, n, other, called)
  PROVE  HasCalled(words, bases, store, pos, locals, n, other, called)
BY CallFrame

LEMMA FiveWords ==
  ASSUME NEW a, NEW b, NEW c, NEW d, NEW e
  PROVE  Len(<<a, b, c, d, e>>) <= 5 /\ 5 <= Len(<<a, b, c, d, e>>)
         /\ Len(<<a, b, c, d, e>>) \in Nat
OBVIOUS

CallsAs(e, store, back, routine, t, at) ==
    \/ t \in Frames!Write(e.state, store, 0) /\ at = back
    \/ t = Frames!Called(e, store, back, routine.header) /\ at = routine.entry

\* A call adds a frame, or stores the result of routine 0.
LEMMA CallSound ==
  ASSUME NEW p, NEW bases, Sound(p.machine, bases), p.values \in Seq(Values),
         NEW store \in Variables, NEW back \in Positions, NEW routine \in Routines,
         NEW n, n = CallRoutine(p.machine, p.values, store, back, routine),
         NEW e, e = StateOf(p, bases)
  PROVE  \E after : /\ Sound(n, after)
                    /\ Running(n) =>
                         /\ Running(p.machine)
                         /\ CallsAs(e, store, back, routine, FramesState(n, after), n.pc)
<1>1. PICK m, values, header : m = p.machine /\ values = p.values /\ header = routine.header
  OBVIOUS
<1> DEFINE words == m.stack
           fs == FramesIn(words, bases)
<1>2. /\ m \in Machines /\ Len(m.stack) <= StackSize /\ Layout(words, m.bp, bases)
      /\ m.stack \in Seq(Word) /\ m.bp \in Nat /\ m.globals \in [Globals -> Values]
      /\ m.zstatus \in Stopped \cup {"running"} /\ Sound(m, bases)
  BY <1>1, MachineParts DEF Sound
<1>3. values \in Seq(Values) /\ header \in Seq(Values) /\ routine.entry \in Positions
  BY <1>1, RoutinesAssumption
<1>4. e.state = [frames |-> fs, globals |-> m.globals] /\ e.values = values
      /\ e.state = FramesState(m, bases)
  <2>1. e.state = FramesState(m, bases) /\ e.values = values
    BY <1>1 DEF StateOf
  <2> QED BY <2>1 DEF FramesState
<1>5. CASE ~ Running(m)
  <2>1. n = m
    BY <1>1, <1>5 DEF CallRoutine
  <2> QED BY <1>2, <1>5, <2>1
<1>6. ASSUME NEW why \in {"error", "undefined"}, n = Halted(m, why)
      PROVE  Sound(n, bases) /\ ~ Running(n)
  <2>1. Explains(m.stack, bases, why)
    BY Zenon DEF Explains
  <2>2. why \in Stopped
    BY Zenon DEF Stopped, Deaths
  <2> QED BY <1>2, <1>6, <2>1, <2>2, HaltedSound
<1>7. CASE Running(m) /\ (Len(values) = 0 \/ values[1] = 0)
  <2>1. PICK w : w = WriteVar(m, store, 0)
    OBVIOUS
  <2>2. n = At(w, back)
    BY <1>1, <1>7, <2>1 DEF CallRoutine
  <2>3. 0 \in Values
    BY ValuesAssumption
  <2>4. /\ Sound(w, bases)
        /\ Running(w) => FramesState(w, bases) \in Frames!Write(e.state, store, 0)
    BY <1>2, <1>4, <2>1, <2>3, WriteVarSound
  <2>5. /\ Sound(n, bases) /\ n.pc = back /\ (Running(n) => Running(w))
        /\ FramesState(n, bases) = FramesState(w, bases)
    BY <2>2, <2>4, AtSound
  <2> QED BY <1>1, <1>7, <2>4, <2>5 DEF CallsAs
<1>8. CASE Running(m) /\ ~ (Len(values) = 0 \/ values[1] = 0)
  <2>1. CASE Len(header) > 15
    <3>1. n = Halted(m, "error")
      BY <1>1, <1>8, <2>1 DEF CallRoutine
    <3> QED BY <1>6, <3>1
  <2>2. CASE ~ (Len(header) > 15) /\ Len(words) + 5 + Len(header) > StackSize
    <3>1. n = Halted(m, "undefined")
      BY <1>1, <1>8, <2>2 DEF CallRoutine
    <3> QED BY <1>6, <3>1
  <2>3. CASE ~ (Len(header) > 15) /\ ~ (Len(words) + 5 + Len(header) > StackSize)
    <3>1. PICK k \in 0 .. 15 : k = Len(header)
      <4>1. PICK k \in Nat : k = Len(header)
        BY <1>3
      <4>2. k <= 15
        BY <1>3, <2>3, <4>1
      <4>3. k \in 0 .. 15
        BY <4>2
      <4> QED BY <4>1, <4>3
    <3>2. PICK locals : locals = LocalsOf(header, Tail(values))
      OBVIOUS
    <3>3. locals \in Seq(Values) /\ Len(locals) = k /\ locals = CalledLocals(values, header)
      BY <1>3, <1>8, <3>1, <3>2, LocalsStart
    <3>4. PICK head : head = <<store, back % Radix, back \div Radix, m.bp, k>>
      OBVIOUS
    <3>5. PICK other, called :
             /\ other = words \o (CallWords(store, back, m.bp, k) \o locals)
             /\ called = Append(bases, Len(words) + 5)
      OBVIOUS
    <3>6. Len(words) \in Nat /\ Len(words) + 5 + k <= StackSize
      BY <1>2, <2>3, <3>1, StackAssumption
    <3>7. PICK frame : frame = [locals |-> locals, temps |-> <<>>, store |-> store, back |-> back]
      OBVIOUS
    <3>8. /\ other \in Seq(Word) /\ Len(other) = Len(words) + 5 + k
          /\ Layout(other, Len(words) + 5, called)
          /\ FramesIn(other, called) = Append(fs, frame)
      <4>1. PICK under, base : under = words /\ base = m.bp
        OBVIOUS
      <4>2. under \in Seq(Word) /\ Layout(under, base, bases) /\ Len(under) + 5 + k <= StackSize
        BY <1>2, <3>6, <4>1
      <4>3. Calling(under, base, bases, store, back, locals, k, other, called)
        BY <3>5, <4>1, Zenon DEF Calling
      <4>4. k = Len(locals) /\ locals \in Seq(Values) /\ k \in 0 .. 15
        BY <3>3
      <4>5. /\ other \in Seq(Word) /\ Len(other) = Len(under) + 5 + k
            /\ Layout(other, Len(under) + 5, called)
            /\ FramesIn(other, called) =
                 Append(FramesIn(under, bases), CalledFrame(locals, store, back))
        <5>1. HasCalled(under, bases, store, back, locals, k, other, called)
          BY <4>2, <4>3, <4>4, FrameCalled
        <5> QED BY <5>1, Zenon DEF HasCalled
      <4> QED BY <3>7, <4>1, <4>5, Zenon DEF CalledFrame
    <3>9. n = At([Pushed(m, head \o locals) EXCEPT !.bp = Len(words) + Len(head)], routine.entry)
      BY <1>1, <1>8, <2>3, <3>1, <3>2, <3>4, Zenon DEF CallRoutine
    <3>10. Len(words) + Len(head) = Len(words) + 5
      BY <3>4, <3>6, FiveWords
    <3>11. PICK d : d = [stack |-> other, bp |-> Len(words) + 5, globals |-> m.globals,
                         pc |-> m.pc, zstatus |-> m.zstatus]
      OBVIOUS
    <3>12. n = At(d, routine.entry)
      <4>1. PICK r : r = Pushed(m, head \o locals)
        OBVIOUS
      <4>2. r = [m EXCEPT !.stack = other]
        BY <3>4, <3>5, <4>1, Zenon DEF Pushed, CallWords
      <4>3. m = [stack |-> m.stack, bp |-> m.bp, globals |-> m.globals, pc |-> m.pc,
                 zstatus |-> m.zstatus]
        BY <1>2, MachineParts
      <4>4. r = [stack |-> other, bp |-> m.bp, globals |-> m.globals, pc |-> m.pc,
                 zstatus |-> m.zstatus]
        BY <4>2, <4>3
      <4>5. [r EXCEPT !.bp = Len(words) + 5] = d
        BY <3>11, <4>4
      <4> QED BY <3>9, <3>10, <4>1, <4>5, Zenon
    <3>13. /\ d.stack = other /\ d.bp = Len(words) + 5 /\ d.globals = m.globals
           /\ d.zstatus = m.zstatus
      BY <3>11
    <3>14. d \in Machines
      <4>1. m.pc \in Positions /\ Len(words) + 5 \in Nat
        BY <1>2, <3>6, MachineParts
      <4> HIDE DEF words
      <4> QED BY <1>2, <3>8, <3>11, <4>1 DEF Machines
    <3>15. Running(d)
      BY <1>8, <3>13 DEF Running
    <3>16. Sound(d, called)
      <4>1. Len(other) <= StackSize
        BY <3>6, <3>8
      <4> HIDE DEF words
      <4> QED BY <3>8, <3>13, <3>14, <3>15, <4>1, RunningExplained DEF Sound
    <3>17. /\ Sound(n, called) /\ n.pc = routine.entry
           /\ FramesState(n, called) = FramesState(d, called)
      BY <1>3, <3>12, <3>16, AtSound
    <3>18. FramesState(d, called) = Frames!Called(e, store, back, header)
      <4>1. FramesState(d, called) = [frames |-> Append(fs, frame), globals |-> m.globals]
        BY <3>8, <3>13, Zenon DEF FramesState
      <4>2. PICK longer : longer = Append(fs, frame)
        OBVIOUS
      <4>3. e.state.frames = fs
        <5> HIDE DEF fs
        <5> QED BY <1>4
      <4>4. [e.state EXCEPT !.frames = longer] = [frames |-> longer, globals |-> m.globals]
        <5> HIDE DEF fs
        <5> QED BY <1>4
      <4>5. frame = [locals |-> [i \in DOMAIN header |->
                        IF i + 1 \in DOMAIN e.values THEN e.values[i + 1] ELSE header[i]],
                     temps |-> <<>>, store |-> store, back |-> back]
        BY <1>4, <3>3, <3>7, Zenon DEF CalledLocals
      <4>6. Frames!Called(e, store, back, header) = [e.state EXCEPT !.frames = Append(@, frame)]
        BY <4>5, Zenon DEF Frames!Called
      <4>7. [e.state EXCEPT !.frames = Append(@, frame)] = [e.state EXCEPT !.frames = longer]
        BY <4>2, <4>3
      <4> QED BY <4>1, <4>2, <4>4, <4>6, <4>7, Zenon
    <3> QED BY <1>1, <1>8, <3>17, <3>18 DEF CallsAs
  <2> QED BY <2>1, <2>2, <2>3
<1> QED BY <1>1, <1>5, <1>7, <1>8

-----------------------------------------------------------------------------
(***************************************************************************)
(* Instructions.  FrameStep says which states of the frames, and which     *)
(* places of the story, the reference allows after an instruction.         *)
(***************************************************************************)
Plain == {e.state : e \in Frames!Arguments} \cup Frames!Assigned

LoadStep(t) ==
    \E e \in Frames!Arguments, store \in Variables :
        /\ Len(e.values) = 1 /\ e.values[1] \in Variables
        /\ \E r \in Frames!ReadVariable(e.state, e.values[1]) :
             t \in Frames!Write(r.state, store, r.value)

CallStep(t, at) ==
    \E e \in Frames!Arguments, store \in Variables, back \in Positions, r \in Routines :
        t = Frames!Called(e, store, back, r.header) /\ at = r.entry

FrameStep(t, at) ==
    \/ at \in Positions /\ (t \in Plain \/ LoadStep(t) \/ \E r \in Frames!Popped : t = r.state)
    \/ CallStep(t, at)
    \/ \E s \in {Frames!Now} \cup Plain, v \in Values : ReturnsTo(s, v, t, at)
    \/ \E r \in Frames!Popped : ReturnsTo(r.state, r.value, t, at)
    \/ t = [frames |-> <<Frames!MainFrame>>, globals |-> Start.globals] /\ at = Start.pc

\* What an instruction makes of the machine is sound, and a step of the frames.
Steps(n, after) == /\ Sound(n, after)
                   /\ Running(n) => FrameStep(FramesState(n, after), n.pc)

Executes == \E n, after : Becomes(n) /\ Steps(n, after)

\* The machine before the instruction.
Ready(bases) == zstatus = "running" /\ Sound(Machine, bases)

\* What the reference sees of the machine now.
LEMMA MachineNow ==
  ASSUME NEW bases, Ready(bases)
  PROVE  /\ Sound(Machine, bases) /\ Running(Machine)
         /\ Frames!Now = FramesState(Machine, bases)
<1>1. Machine.stack = stack /\ Machine.bp = bp /\ Machine.globals = globals
      /\ Machine.zstatus = zstatus
  BY DEF Machine
<1>2. Sound(Machine, bases) /\ zstatus = "running"
  BY DEF Ready
<1>3. stack \in Seq(Word) /\ Layout(stack, bp, bases) /\ Len(stack) <= StackSize
  <2>1. Machine.stack \in Seq(Word)
    BY <1>2, MachineParts DEF Sound
  <2> QED BY <1>1, <1>2, <2>1 DEF Sound
<1>4. Bases(stack)[bp] = bases
  BY <1>3, LayoutBases
<1>5. CurrentFrames = FramesIn(stack, bases)
  BY <1>4 DEF CurrentFrames
<1>6. Frames!Now = [frames |-> FramesIn(stack, bases), globals |-> globals]
  BY <1>2, <1>5, Zenon DEF Frames!Now
<1>7. FramesState(Machine, bases) = [frames |-> FramesIn(stack, bases), globals |-> globals]
  BY <1>1, Zenon DEF FramesState
<1> QED BY <1>1, <1>2, <1>6, <1>7 DEF Running

\* What it sees after the operands.
LEMMA ParsedState ==
  ASSUME NEW bases, Ready(bases), NEW xs \in Operands, NEW p, p = Parsed(xs)
  PROVE  /\ Sound(p.machine, bases) /\ p.values \in Seq(Values) /\ Len(p.values) = Len(xs)
         /\ Running(p.machine) => /\ StateOf(p, bases) \in Frames!Arguments
                                  /\ FramesState(p.machine, bases) \in Plain
         /\ StateOf(p, bases).state = FramesState(p.machine, bases)
         /\ StateOf(p, bases).values = p.values
<1>1. /\ SoundParse(p, bases) /\ Len(p.values) = Len(xs)
      /\ Running(p.machine) =>
           StateOf(p, bases) \in Frames!Evaluate(FramesState(Machine, bases), xs)
  BY MachineNow, OperandsParsed
<1>2. StateOf(p, bases).state = FramesState(p.machine, bases)
      /\ StateOf(p, bases).values = p.values
  BY DEF StateOf
<1>3. ASSUME Running(p.machine)
      PROVE  StateOf(p, bases) \in Frames!Arguments
  <2>1. StateOf(p, bases) \in Frames!Evaluate(Frames!Now, xs)
    BY <1>1, <1>3, MachineNow
  <2> QED BY <2>1, Zenon DEF Frames!Arguments
<1>4. ASSUME Running(p.machine)
      PROVE  FramesState(p.machine, bases) \in Plain
  BY <1>2, <1>3, <1>4, Zenon DEF Plain
<1> QED BY <1>1, <1>2, <1>3, <1>4 DEF SoundParse

\* Instructions with one operand.
LEMMA OneValue ==
  ASSUME NEW values \in Seq(Values), NEW xs, Len(values) = Len(xs), Len(xs) = 1
  PROVE  Len(values) = 1 /\ values[1] \in Values
<1>1. PICK k \in Nat : k = Len(values) /\ k <= 1 /\ k >= 1
  OBVIOUS
<1>2. values[1] \in Values
  BY <1>1
<1>3. Len(values) = 1
  BY Zenon
<1> QED BY <1>2, <1>3

\* A variable is written after the operands have been read.
LEMMA WrittenState ==
  ASSUME NEW bases, Ready(bases), NEW xs \in Operands, NEW var \in Variables,
         NEW value \in Values, NEW w, w = WriteVar(Parsed(xs).machine, var, value)
  PROVE  /\ Sound(w, bases)
         /\ Running(w) => FramesState(w, bases) \in Plain
<1>1. PICK p : p = Parsed(xs)
  OBVIOUS
<1>2. /\ Sound(p.machine, bases)
      /\ Running(p.machine) => StateOf(p, bases) \in Frames!Arguments
      /\ StateOf(p, bases).state = FramesState(p.machine, bases)
  BY <1>1, ParsedState
<1>3. /\ Sound(w, bases)
      /\ Running(w) =>
           /\ Running(p.machine)
           /\ FramesState(w, bases) \in Frames!Write(FramesState(p.machine, bases), var, value)
  BY <1>1, <1>2, WriteVarSound
<1>4. ASSUME Running(w)
      PROVE  FramesState(w, bases) \in Frames!Assigned
  <2>1. PICK e : e = StateOf(p, bases)
    OBVIOUS
  <2>2. e \in Frames!Arguments /\ FramesState(w, bases) \in Frames!Write(e.state, var, value)
    BY <1>2, <1>3, <1>4, <2>1
  <2> QED BY <2>2 DEF Frames!Assigned
<1> QED BY <1>3, <1>4, Zenon DEF Plain

\* Then the next instruction is due.
LEMMA PlainStep ==
  ASSUME NEW m, NEW bases, Sound(m, bases), NEW next \in Positions,
         Running(m) => FramesState(m, bases) \in Plain
  PROVE  Steps(At(m, next), bases)
<1>1. /\ Sound(At(m, next), bases) /\ At(m, next).pc = next
      /\ Running(At(m, next)) => Running(m)
      /\ FramesState(At(m, next), bases) = FramesState(m, bases)
  BY AtSound
<1> QED BY <1>1 DEF Steps, FrameStep

\* Or a return.
LEMMA ReturnStep ==
  ASSUME NEW m, NEW bases, Sound(m, bases), NEW value \in Values,
         Running(m) => FramesState(m, bases) \in {Frames!Now} \cup Plain
  PROVE  \E after : Steps(DoReturn(m, value), after)
<1>1. PICK n : n = DoReturn(m, value)
  OBVIOUS
<1>2. PICK after : /\ Sound(n, after)
                   /\ Running(n) =>
                        /\ Running(m)
                        /\ ReturnsTo(FramesState(m, bases), value, FramesState(n, after), n.pc)
  BY <1>1, DoReturnSound
<1>3. ASSUME Running(n)
      PROVE  FrameStep(FramesState(n, after), n.pc)
  <2>1. /\ FramesState(m, bases) \in {Frames!Now} \cup Plain
        /\ ReturnsTo(FramesState(m, bases), value, FramesState(n, after), n.pc)
    BY <1>2, <1>3
  <2> QED BY <2>1 DEF FrameStep
<1> QED BY <1>1, <1>2, <1>3 DEF Steps

\* Or a branch.
LEMMA BranchStep ==
  ASSUME NEW m, NEW bases, Sound(m, bases), NEW n \in Branches(m),
         Running(m) => FramesState(m, bases) \in Plain
  PROVE  \E after : Steps(n, after)
<1>1. PICK d \in Destinations : n = Branched(m, d)
  BY DEF Branches
<1>2. CASE d.kind = "jump"
  <2>1. n = At(m, d.to) /\ d.to \in Positions
    BY <1>1, <1>2 DEF Branched, Destinations
  <2> QED BY <2>1, PlainStep
<1>3. CASE d.kind # "jump"
  <2>1. n = DoReturn(m, d.to) /\ d.to \in {0, 1}
    BY <1>1, <1>3 DEF Branched, Destinations
  <2>2. d.to \in Values
    BY <2>1, ValuesAssumption
  <2> QED BY <2>1, <2>2, ReturnStep
<1> QED BY <1>2, <1>3

-----------------------------------------------------------------------------
\* One lemma for every kind of instruction.
LEMMA ProceedExecutes ==
  ASSUME NEW bases, Ready(bases), NEW xs \in Operands, NEW next \in Positions,
         Proceed(xs, next)
  PROVE  Executes
<1>1. PICK p : p = Parsed(xs)
  OBVIOUS
<1>2. Steps(At(p.machine, next), bases)
  BY <1>1, ParsedState, PlainStep
<1> QED BY <1>1, <1>2, Zenon DEF Proceed, Executes

LEMMA ComputeExecutes ==
  ASSUME NEW bases, Ready(bases), NEW xs \in Operands, NEW store \in Variables,
         NEW value \in Values, NEW next \in Positions, Compute(xs, store, value, next)
  PROVE  Executes
<1>1. PICK w : w = WriteVar(Parsed(xs).machine, store, value)
  OBVIOUS
<1>2. Steps(At(w, next), bases)
  BY <1>1, WrittenState, PlainStep
<1> QED BY <1>1, <1>2, Zenon DEF Compute, Executes

LEMMA ComputeAndBranchExecutes ==
  ASSUME NEW bases, Ready(bases), NEW xs \in Operands, NEW store \in Variables,
         NEW value \in Values, ComputeAndBranch(xs, store, value)
  PROVE  Executes
<1>1. PICK w : w = WriteVar(Parsed(xs).machine, store, value)
  OBVIOUS
<1>2. PICK n \in Branches(w) : Becomes(n)
  BY <1>1 DEF ComputeAndBranch
<1>3. \E after : Steps(n, after)
  BY <1>1, WrittenState, BranchStep
<1> QED BY <1>2, <1>3, Zenon DEF Executes

LEMMA AssignExecutes ==
  ASSUME NEW bases, Ready(bases), NEW xs \in Operands, NEW value \in Values,
         NEW next \in Positions, Assign(xs, value, next)
  PROVE  Executes
<1>1. PICK var : var = Parsed(xs).values[1]
  OBVIOUS
<1>2. PICK w : w = WriteVar(Parsed(xs).machine, var, value)
  OBVIOUS
<1>3. var \in Variables /\ Becomes(At(w, next))
  BY <1>1, <1>2, Zenon DEF Assign
<1>4. Steps(At(w, next), bases)
  BY <1>2, <1>3, WrittenState, PlainStep
<1> QED BY <1>3, <1>4, Zenon DEF Executes

LEMMA AssignAndBranchExecutes ==
  ASSUME NEW bases, Ready(bases), NEW xs \in Operands, NEW value \in Values,
         AssignAndBranch(xs, value)
  PROVE  Executes
<1>1. PICK var : var = Parsed(xs).values[1]
  OBVIOUS
<1>2. PICK w : w = WriteVar(Parsed(xs).machine, var, value)
  OBVIOUS
<1>3. var \in Variables /\ \E n \in Branches(w) : Becomes(n)
  BY <1>1, <1>2, Zenon DEF AssignAndBranch
<1>4. PICK n \in Branches(w) : Becomes(n)
  BY <1>3
<1>5. \E after : Steps(n, after)
  BY <1>2, <1>3, WrittenState, BranchStep
<1> QED BY <1>4, <1>5, Zenon DEF Executes

LEMMA StoreGlobalExecutes ==
  ASSUME NEW bases, Ready(bases), NEW xs \in Operands, NEW var \in Globals,
         NEW value \in Values, NEW next \in Positions, StoreGlobal(xs, var, value, next)
  PROVE  Executes
<1>1. PICK w : w = WriteVar(Parsed(xs).machine, var, value)
  OBVIOUS
<1>2. var \in Variables
  BY DEF Globals
<1>3. Steps(At(w, next), bases)
  BY <1>1, <1>2, WrittenState, PlainStep
<1> QED BY <1>1, <1>3, Zenon DEF StoreGlobal, Executes

LEMMA BranchExecutes ==
  ASSUME NEW bases, Ready(bases), NEW xs \in Operands, Branch(xs)
  PROVE  Executes
<1>1. PICK p : p = Parsed(xs)
  OBVIOUS
<1>2. PICK n \in Branches(p.machine) : Becomes(n)
  BY <1>1 DEF Branch
<1>3. \E after : Steps(n, after)
  <2>1. PICK m : m = p.machine
    OBVIOUS
  <2>2. Sound(m, bases) /\ (Running(m) => FramesState(m, bases) \in Plain)
    BY <1>1, <2>1, ParsedState
  <2>3. n \in Branches(m)
    BY <1>2, <2>1
  <2> QED BY <2>2, <2>3, BranchStep
<1> QED BY <1>2, <1>3, Zenon DEF Executes

LEMMA LoadExecutes ==
  ASSUME NEW bases, Ready(bases), NEW xs \in Operands, NEW store \in Variables,
         NEW next \in Positions, Load(xs, store, next)
  PROVE  Executes
<1>1. PICK p, var : p = Parsed(xs) /\ var = p.values[1]
  OBVIOUS
<1>2. PICK r : r = ReadVar(p.machine, var)
  OBVIOUS
<1>3. PICK w : w = WriteVar(r.machine, store, r.value)
  OBVIOUS
<1>4. Len(xs) = 1 /\ var \in Variables /\ Becomes(At(w, next))
  BY <1>1, <1>2, <1>3, Zenon DEF Load
<1>5. PICK e : e = StateOf(p, bases)
  OBVIOUS
<1>6. /\ Sound(p.machine, bases) /\ p.values \in Seq(Values) /\ Len(p.values) = Len(xs)
      /\ Running(p.machine) => e \in Frames!Arguments
      /\ e.state = FramesState(p.machine, bases) /\ e.values = p.values
  BY <1>1, <1>5, ParsedState
<1>7. /\ Sound(r.machine, bases) /\ r.value \in Values
      /\ Running(r.machine) =>
           /\ Running(p.machine)
           /\ ReadsAs(e.state, var, FramesState(r.machine, bases), r.value)
  BY <1>2, <1>4, <1>6, ReadVarSound
<1>8. /\ Sound(w, bases)
      /\ Running(w) =>
           /\ Running(r.machine)
           /\ FramesState(w, bases) \in Frames!Write(FramesState(r.machine, bases), store, r.value)
  BY <1>3, <1>7, WriteVarSound
<1>9. ASSUME Running(w)
      PROVE  LoadStep(FramesState(w, bases))
  <2>1. Len(e.values) = 1
    BY <1>4, <1>6, Zenon
  <2>2. PICK u : u = [state |-> FramesState(r.machine, bases), value |-> r.value]
    OBVIOUS
  <2>3. u.state = FramesState(r.machine, bases) /\ u.value = r.value
    BY <2>2
  <2>4. u \in Frames!ReadVariable(e.state, var)
    BY <1>7, <1>8, <1>9, <2>2 DEF ReadsAs
  <2>5. e \in Frames!Arguments /\ e.values[1] = var
    BY <1>1, <1>6, <1>7, <1>8, <1>9
  <2> QED BY <1>4, <1>8, <1>9, <2>1, <2>3, <2>4, <2>5, Zenon DEF LoadStep
<1>10. /\ Sound(At(w, next), bases) /\ At(w, next).pc = next
       /\ Running(At(w, next)) => Running(w)
       /\ FramesState(At(w, next), bases) = FramesState(w, bases)
  BY <1>8, AtSound
<1>11. Steps(At(w, next), bases)
  BY <1>9, <1>10 DEF Steps, FrameStep
<1> QED BY <1>4, <1>11, Zenon DEF Executes

LEMMA PushExecutes ==
  ASSUME NEW bases, Ready(bases), NEW xs \in Operands, NEW next \in Positions, Push(xs, next)
  PROVE  Executes
<1>1. PICK p, value : p = Parsed(xs) /\ value = p.values[1]
  OBVIOUS
<1>2. PICK w : w = WriteVar(Parsed(xs).machine, 0, value)
  OBVIOUS
<1>3. Len(xs) = 1 /\ Becomes(At(w, next))
  BY <1>1, <1>2, Zenon DEF Push
<1>4. p.values \in Seq(Values) /\ Len(p.values) = Len(xs)
  BY <1>1, ParsedState
<1>5. value \in Values /\ 0 \in Variables
  BY <1>1, <1>3, <1>4, OneValue, VariablesAssumption
<1>6. Steps(At(w, next), bases)
  BY <1>2, <1>5, WrittenState, PlainStep
<1> QED BY <1>3, <1>6, Zenon DEF Executes

\* What is popped, whether by pop or by ret_popped.
LEMMA PoppedState ==
  ASSUME NEW bases, Ready(bases), NEW r, r = ReadVar(Machine, 0)
  PROVE  /\ Sound(r.machine, bases) /\ r.value \in Values
         /\ Running(r.machine) =>
              [state |-> FramesState(r.machine, bases), value |-> r.value] \in Frames!Popped
<1>1. 0 \in Variables
  BY VariablesAssumption
<1>2. /\ Sound(r.machine, bases) /\ r.value \in Values
      /\ Running(r.machine) => ReadsAs(Frames!Now, 0, FramesState(r.machine, bases), r.value)
  BY <1>1, MachineNow, ReadVarSound
<1> QED BY <1>2, Zenon DEF ReadsAs, Frames!Popped, Frames!TheStack

LEMMA PopExecutes ==
  ASSUME NEW bases, Ready(bases), NEW next \in Positions, Pop(next)
  PROVE  Executes
<1>1. PICK r : r = ReadVar(Machine, 0)
  OBVIOUS
<1>2. PICK m : m = r.machine
  OBVIOUS
<1>3. /\ Sound(m, bases)
      /\ Running(m) => [state |-> FramesState(m, bases), value |-> r.value] \in Frames!Popped
  BY <1>1, <1>2, PoppedState
<1>4. /\ Sound(At(m, next), bases) /\ At(m, next).pc = next
      /\ Running(At(m, next)) => Running(m)
      /\ FramesState(At(m, next), bases) = FramesState(m, bases)
  BY <1>3, AtSound
<1>5. ASSUME Running(m)
      PROVE  \E u \in Frames!Popped : FramesState(m, bases) = u.state
  <2>1. PICK u : u = [state |-> FramesState(m, bases), value |-> r.value]
    OBVIOUS
  <2>2. u.state = FramesState(m, bases)
    BY <2>1
  <2> QED BY <1>3, <1>5, <2>1, <2>2, Zenon
<1>6. Steps(At(m, next), bases)
  BY <1>4, <1>5 DEF Steps, FrameStep
<1> QED BY <1>1, <1>2, <1>6, Zenon DEF Pop, Executes

LEMMA RetPoppedExecutes ==
  ASSUME NEW bases, Ready(bases), RetPopped
  PROVE  Executes
<1>1. PICK r : r = ReadVar(Machine, 0)
  OBVIOUS
<1>2. PICK m, value : m = r.machine /\ value = r.value
  OBVIOUS
<1>3. /\ Sound(m, bases) /\ value \in Values
      /\ Running(m) => [state |-> FramesState(m, bases), value |-> value] \in Frames!Popped
  BY <1>1, <1>2, PoppedState
<1>4. PICK n : n = DoReturn(m, value)
  OBVIOUS
<1>5. PICK after : /\ Sound(n, after)
                   /\ Running(n) =>
                        /\ Running(m)
                        /\ ReturnsTo(FramesState(m, bases), value, FramesState(n, after), n.pc)
  BY <1>3, <1>4, DoReturnSound
<1>6. ASSUME Running(n)
      PROVE  \E u \in Frames!Popped : ReturnsTo(u.state, u.value, FramesState(n, after), n.pc)
  <2>1. PICK u : u = [state |-> FramesState(m, bases), value |-> value]
    OBVIOUS
  <2>2. u.state = FramesState(m, bases) /\ u.value = value
    BY <2>1
  <2> QED BY <1>3, <1>5, <1>6, <2>1, <2>2, Zenon
<1>7. Steps(n, after)
  BY <1>5, <1>6 DEF Steps, FrameStep
<1>8. Becomes(n)
  BY <1>1, <1>2, <1>4, Zenon DEF RetPopped
<1> QED BY <1>7, <1>8, Zenon DEF Executes

-----------------------------------------------------------------------------
\* Machines that stop.
LEMMA HaltSteps ==
  ASSUME NEW m, NEW bases, Sound(m, bases), NEW why \in {"error", "undefined", "quit"}
  PROVE  Steps(Halted(m, why), bases)
<1>1. Explains(m.stack, bases, why) /\ why \in Stopped
  BY Zenon DEF Explains, Stopped, Deaths
<1> QED BY <1>1, HaltedSound DEF Steps

LEMMA PullExecutes ==
  ASSUME NEW bases, Ready(bases), NEW xs \in Operands, Pull(xs)
  PROVE  Executes
<1>1. PICK p, popped : p = Parsed(xs) /\ popped = ReadVar(p.machine, 0).machine
  OBVIOUS
<1>2. 0 \in Variables
  BY VariablesAssumption
<1>3. Sound(p.machine, bases)
  BY <1>1, ParsedState
<1>4. Sound(popped, bases)
  BY <1>1, <1>2, <1>3, ReadVarSound
<1>5. Becomes(IF Running(popped) THEN Halted(popped, "undefined") ELSE popped)
  BY <1>1, Zenon DEF Pull
<1>6. CASE Running(popped)
  <2>1. Steps(Halted(popped, "undefined"), bases)
    BY <1>4, HaltSteps
  <2> QED BY <1>5, <1>6, <2>1, Zenon DEF Executes
<1>7. CASE ~ Running(popped)
  <2>1. Steps(popped, bases)
    BY <1>4, <1>7 DEF Steps
  <2> QED BY <1>5, <1>7, <2>1, Zenon DEF Executes
<1> QED BY <1>6, <1>7

LEMMA GiveUpExecutes ==
  ASSUME NEW bases, Ready(bases), NEW xs \in Operands, GiveUp(xs)
  PROVE  Executes
<1>1. PICK m : m = Parsed(xs).machine
  OBVIOUS
<1>2. Sound(m, bases)
  BY <1>1, ParsedState
<1>3. Becomes(IF Running(m) THEN Halted(m, "error") ELSE m)
  BY <1>1, Zenon DEF GiveUp
<1>4. CASE Running(m)
  <2>1. Steps(Halted(m, "error"), bases)
    BY <1>2, HaltSteps
  <2> QED BY <1>3, <1>4, <2>1, Zenon DEF Executes
<1>5. CASE ~ Running(m)
  <2>1. Steps(m, bases)
    BY <1>2, <1>5 DEF Steps
  <2> QED BY <1>3, <1>5, <2>1, Zenon DEF Executes
<1> QED BY <1>4, <1>5

LEMMA QuitExecutes ==
  ASSUME NEW bases, Ready(bases), Quit
  PROVE  Executes
<1>1. Steps(Halted(Machine, "quit"), bases)
  BY MachineNow, HaltSteps
<1> QED BY <1>1, Zenon DEF Quit, Executes

LEMMA CallExecutes ==
  ASSUME NEW bases, Ready(bases), NEW xs \in Operands, NEW store \in Variables,
         NEW back \in Positions, NEW routine \in Routines, Call(xs, store, back, routine)
  PROVE  Executes
<1>1. PICK p : p = Parsed(xs)
  OBVIOUS
<1>2. PICK n : n = CallRoutine(p.machine, p.values, store, back, routine)
  OBVIOUS
<1>3. PICK e : e = StateOf(p, bases)
  OBVIOUS
<1>4. /\ Sound(p.machine, bases) /\ p.values \in Seq(Values)
      /\ Running(p.machine) => e \in Frames!Arguments
  BY <1>1, <1>3, ParsedState
<1>5. PICK after : /\ Sound(n, after)
                   /\ Running(n) =>
                        /\ Running(p.machine)
                        /\ CallsAs(e, store, back, routine, FramesState(n, after), n.pc)
  BY <1>2, <1>3, <1>4, CallSound
<1>6. ASSUME Running(n)
      PROVE  FrameStep(FramesState(n, after), n.pc)
  <2>1. e \in Frames!Arguments /\ CallsAs(e, store, back, routine, FramesState(n, after), n.pc)
    BY <1>4, <1>5, <1>6
  <2>2. CASE FramesState(n, after) \in Frames!Write(e.state, store, 0) /\ n.pc = back
    <3>1. 0 \in Values
      BY ValuesAssumption
    <3>2. FramesState(n, after) \in Frames!Assigned
      BY <2>1, <2>2, <3>1 DEF Frames!Assigned
    <3> QED BY <2>2, <3>2 DEF FrameStep, Plain
  <2>3. CASE FramesState(n, after) = Frames!Called(e, store, back, routine.header)
             /\ n.pc = routine.entry
    <3>1. CallStep(FramesState(n, after), n.pc)
      BY <2>1, <2>3, Zenon DEF CallStep
    <3> QED BY <3>1, Zenon DEF FrameStep
  <2> QED BY <2>1, <2>2, <2>3, Zenon DEF CallsAs
<1>7. Becomes(n)
  BY <1>1, <1>2, Zenon DEF Call
<1> QED BY <1>5, <1>6, <1>7, Zenon DEF Steps, Executes

LEMMA RetExecutes ==
  ASSUME NEW bases, Ready(bases), NEW xs \in Operands, Ret(xs)
  PROVE  Executes
<1>1. PICK p, m, value : p = Parsed(xs) /\ m = p.machine /\ value = p.values[1]
  OBVIOUS
<1>2. Len(xs) = 1 /\ Becomes(DoReturn(m, value))
  BY <1>1, Zenon DEF Ret
<1>3. /\ Sound(m, bases) /\ p.values \in Seq(Values) /\ Len(p.values) = Len(xs)
      /\ Running(m) => FramesState(m, bases) \in Plain
  BY <1>1, ParsedState
<1>4. value \in Values
  BY <1>1, <1>2, <1>3, OneValue
<1>5. \E after : Steps(DoReturn(m, value), after)
  BY <1>3, <1>4, ReturnStep
<1> QED BY <1>2, <1>5, Zenon DEF Executes

LEMMA RetConstantExecutes ==
  ASSUME NEW bases, Ready(bases), NEW value \in {0, 1}, RetConstant(value)
  PROVE  Executes
<1>1. value \in Values
  BY ValuesAssumption
<1>2. Sound(Machine, bases) /\ FramesState(Machine, bases) = Frames!Now
  BY MachineNow
<1>3. \E after : Steps(DoReturn(Machine, value), after)
  BY <1>1, <1>2, ReturnStep
<1> QED BY <1>3, Zenon DEF RetConstant, Executes

\* The machine that initStory leaves.
LEMMA LoadedSound ==
  /\ Sound(Loaded, <<0>>)
  /\ FramesState(Loaded, <<0>>) = [frames |-> <<Frames!MainFrame>>, globals |-> Start.globals]
  /\ Running(Loaded) /\ Loaded.pc = Start.pc
<1>1. /\ Loaded.stack = <<>> /\ Loaded.bp = 0 /\ Loaded.globals = Start.globals
      /\ Loaded.pc = Start.pc /\ Loaded.zstatus = "running"
  BY DEF Loaded
<1>2. Layout(<<>>, 0, <<0>>)
      /\ FramesIn(<<>>, <<0>>) =
           <<[locals |-> <<>>, temps |-> <<>>, store |-> 0, back |-> 0]>>
  BY EmptyLayout
<1>3. Running(Loaded)
  BY <1>1 DEF Running
<1>4. Loaded \in Machines
  <2>1. <<>> \in Seq(Word) /\ 0 \in Nat
    OBVIOUS
  <2> QED BY <2>1, StartAssumption DEF Loaded, Machines
<1>5. Len(<<>>) <= StackSize
  BY StackAssumption
<1>6. Sound(Loaded, <<0>>)
  BY <1>1, <1>2, <1>3, <1>4, <1>5, RunningExplained DEF Sound
<1>7. FramesState(Loaded, <<0>>) = [frames |-> <<Frames!MainFrame>>, globals |-> Start.globals]
  BY <1>1, <1>2, Zenon DEF FramesState, Frames!MainFrame
<1> QED BY <1>1, <1>3, <1>6, <1>7

LEMMA RestartExecutes ==
  ASSUME RestartStory
  PROVE  Executes
<1>1. Steps(Loaded, <<0>>)
  BY LoadedSound, Zenon DEF Steps, FrameStep
<1> QED BY <1>1, Zenon DEF RestartStory, Executes

\* Every instruction but save and restore leaves a sound machine and a step of the
\* frames.
LEMMA InstructionExecutes ==
  ASSUME NEW bases, Ready(bases), StoryInstruction
  PROVE  Executes
<1>1. ASSUME NEW xs \in Operands,
             \/ Branch(xs) \/ Ret(xs) \/ Pull(xs) \/ GiveUp(xs)
             \/ \E value \in Values : AssignAndBranch(xs, value)
             \/ \E store \in Variables, value \in Values : ComputeAndBranch(xs, store, value)
      PROVE  Executes
  BY <1>1, BranchExecutes, RetExecutes, PullExecutes, GiveUpExecutes,
     AssignAndBranchExecutes, ComputeAndBranchExecutes
<1>2. ASSUME NEW xs \in Operands, NEW next \in Positions,
             \/ Proceed(xs, next) \/ Push(xs, next)
             \/ \E value \in Values :
                  \/ Assign(xs, value, next)
                  \/ \E store \in Variables : Compute(xs, store, value, next)
                  \/ \E var \in Globals : StoreGlobal(xs, var, value, next)
      PROVE  Executes
  BY <1>2, ProceedExecutes, PushExecutes, AssignExecutes, ComputeExecutes, StoreGlobalExecutes
<1>3. ASSUME NEW xs \in Operands, NEW next \in Positions, NEW store \in Variables,
             \/ Load(xs, store, next)
             \/ \E routine \in Routines : Call(xs, store, next, routine)
      PROVE  Executes
  BY <1>3, LoadExecutes, CallExecutes
<1>4. ASSUME \/ \E next \in Positions : Pop(next)
             \/ \E value \in {0, 1} : RetConstant(value)
             \/ RetPopped \/ Quit \/ RestartStory
      PROVE  Executes
  BY <1>4, PopExecutes, RetConstantExecutes, RetPoppedExecutes, QuitExecutes, RestartExecutes
<1> QED BY <1>1, <1>2, <1>3, <1>4, Zenon DEF StoryInstruction

-----------------------------------------------------------------------------
(***************************************************************************)
(* Save and restore.  A branch goes on from the frames it finds, or        *)
(* returns from the topmost; the one in a saved game does so again.        *)
(***************************************************************************)
BranchTo(s, t, at) == \/ t = s /\ at \in Positions
                      \/ \E value \in {0, 1} : ReturnsTo(s, value, t, at)

LEMMA BranchSound ==
  ASSUME NEW m, NEW bases, Sound(m, bases), NEW d \in Destinations,
         NEW n, n = Branched(m, d)
  PROVE  \E after :
            /\ Sound(n, after)
            /\ Running(n) =>
                 BranchTo(FramesState(m, bases), FramesState(n, after), n.pc)
<1>1. CASE d.kind = "jump"
  <2>1. n = At(m, d.to) /\ d.to \in Positions
    BY <1>1 DEF Branched, Destinations
  <2>2. Sound(n, bases) /\ n.pc = d.to /\ FramesState(n, bases) = FramesState(m, bases)
    BY <2>1, AtSound
  <2> QED BY <2>1, <2>2 DEF BranchTo
<1>2. CASE d.kind # "jump"
  <2>1. n = DoReturn(m, d.to) /\ d.to \in {0, 1}
    BY <1>2 DEF Branched, Destinations
  <2>2. d.to \in Values
    BY <2>1, ValuesAssumption
  <2>3. PICK after : /\ Sound(n, after)
                     /\ Running(n) => ReturnsTo(FramesState(m, bases), d.to,
                                                FramesState(n, after), n.pc)
    BY <2>1, <2>2, DoReturnSound
  <2> QED BY <2>1, <2>3 DEF BranchTo
<1> QED BY <1>1, <1>2

\* The game of a sound machine has the frames that its words are.
GameAt(t, at) == [frames |-> t.frames, globals |-> t.globals, pc |-> at]

LEMMA GameOfSound ==
  ASSUME NEW n, NEW after, Sound(n, after)
  PROVE  /\ Running(n) => GameOf(n) = GameAt(FramesState(n, after), n.pc)
         /\ ~ Running(n) => GameOf(n) = NoGame
<1>1. n.stack \in Seq(Word) /\ Len(n.stack) <= StackSize /\ Layout(n.stack, n.bp, after)
  BY MachineParts DEF Sound
<1>2. Bases(n.stack)[n.bp] = after
  BY <1>1, LayoutBases
<1>3. PICK t : t = FramesState(n, after)
  OBVIOUS
<1>4. t.frames = FramesIn(n.stack, after) /\ t.globals = n.globals
  BY <1>3 DEF FramesState
<1> QED BY <1>2, <1>3, <1>4, Zenon DEF GameOf, GameAt

LEMMA GameIsNotNone == ASSUME NEW t, NEW at PROVE GameAt(t, at) # NoGame
<1>1. DOMAIN GameAt(t, at) = {"frames", "globals", "pc"}
  BY DEF GameAt
<1>2. "frames" \notin DOMAIN <<>>
  OBVIOUS
<1> QED BY <1>1, <1>2 DEF NoGame

\* Where a branch may lead in the reference.
LEMMA BranchAllowed ==
  ASSUME NEW t, NEW at, zstatus = "running", BranchTo(Frames!Now, t, at)
  PROVE  GameAt(t, at) \in Frames!Branches
<1>1. PICK fs : fs = CurrentFrames
  OBVIOUS
<1>2. PICK s : s = Frames!Now
  OBVIOUS
<1>3. s = [frames |-> fs, globals |-> globals]
  BY <1>1, <1>2 DEF Frames!Now
<1>4. s.frames = fs /\ s.globals = globals
  BY <1>3
<1>5. CASE t = s /\ at \in Positions
  BY <1>1, <1>4, <1>5 DEF Frames!Branches, GameAt
<1>6. CASE \E value \in {0, 1} : ReturnsTo(s, value, t, at)
  <2>1. /\ Len(fs) > 1 /\ at = Frames!Top(s).back
        /\ t \in Frames!Returned(s, 0) \cup Frames!Returned(s, 1)
    BY <1>4, <1>6 DEF ReturnsTo
  <2> QED BY <1>1, <1>2, <2>1, Zenon DEF Frames!Branches, GameAt
<1> QED BY <1>2, <1>5, <1>6 DEF BranchTo

-----------------------------------------------------------------------------
(***************************************************************************)
(* What is in the file is a game that was running, laid out as frames.     *)
(***************************************************************************)
DiskIsSound ==
    \/ disk \in {NoFileYet, BrokenFile}
    \/ \E m, bases : disk = WholeFile(m) /\ Running(m) /\ Sound(m, bases)

SavedGame == IF disk.kind = "whole" THEN GameOf(ResumedMachine) ELSE NoGame

LEMMA DiskKinds ==
  /\ NoFileYet.kind = "none" /\ BrokenFile.kind = "broken"
  /\ \A m : WholeFile(m).kind = "whole" /\ WholeFile(m).game = m
BY DEF NoFileYet, BrokenFile, WholeFile

LEMMA DiskStays ==
  ASSUME DiskIsSound, UNCHANGED disk
  PROVE  DiskIsSound' /\ SavedGame' = SavedGame
BY DEF DiskIsSound, SavedGame, ResumedMachine

\* A machine to which an instruction may lead: by a step of the frames that leaves
\* the saved game alone, by a save or by a restore; or it has stopped.
Allowed(n, after) ==
    /\ Sound(n, after)
    /\ Running(n) =>
         \/ FrameStep(FramesState(n, after), n.pc) /\ SavedGame' = SavedGame
         \/ GameOf(n) \in Frames!Branches /\ SavedGame' \in {GameOf(n), NoGame}
         \/ GameOf(n) = SavedGame /\ SavedGame' = SavedGame
    /\ ~ Running(n) => SavedGame' \in {SavedGame, NoGame}

\* What an instruction does to the machine and to the file.
Carried == /\ \E n, after : Becomes(n) /\ Allowed(n, after)
           /\ DiskIsSound'

LEMMA HaltCarried ==
  ASSUME NEW bases, Ready(bases), DiskIsSound, UNCHANGED disk,
         NEW why \in {"error", "undefined"}, Becomes(Halted(Machine, why))
  PROVE  Carried
<1>1. PICK n : n = Halted(Machine, why)
  OBVIOUS
<1>2. Sound(n, bases) /\ ~ Running(n)
  <2>1. Explains(Machine.stack, bases, why) /\ why \in Stopped
    BY Zenon DEF Explains, Stopped, Deaths
  <2> QED BY <1>1, <2>1, MachineNow, HaltedSound
<1>3. DiskIsSound' /\ SavedGame' = SavedGame
  BY DiskStays
<1>4. Allowed(n, bases)
  BY <1>2, <1>3 DEF Allowed
<1> QED BY <1>1, <1>3, <1>4 DEF Carried

LEMMA SaveCarried ==
  ASSUME NEW bases, Ready(bases), NEW at \in Positions, SaveGame(at)
  PROVE  Carried
<1>1. PICK g : g = At(Machine, at)
  OBVIOUS
<1>2. /\ Sound(g, bases) /\ g.pc = at
      /\ FramesState(g, bases) = Frames!Now
  BY <1>1, MachineNow, AtSound
<1>3. Running(g)
  <2>1. Machine \in Machines /\ Machine.zstatus = "running"
    BY MachineNow DEF Sound, Running
  <2>2. g.zstatus = Machine.zstatus
    BY <1>1, <2>1, MachineParts DEF At
  <2> QED BY <2>1, <2>2 DEF Running
<1>4. zstatus = "running"
  BY DEF Ready
<1>5. ASSUME NEW d \in Destinations, NEW n, n = Branched(g, d)
      PROVE  \E after : Sound(n, after) /\ (Running(n) => GameOf(n) \in Frames!Branches)
  <2>1. PICK after : /\ Sound(n, after)
                     /\ Running(n) => BranchTo(Frames!Now, FramesState(n, after), n.pc)
    BY <1>2, <1>5, BranchSound
  <2>2. ASSUME Running(n)
        PROVE  GameOf(n) \in Frames!Branches
    BY <1>4, <2>1, <2>2, BranchAllowed, GameOfSound
  <2> QED BY <2>1, <2>2
<1>6. CASE /\ disk' \in {WholeFile(g), BrokenFile}
           /\ Becomes(Branched(g, TrueBranch[at]))
  <2>1. PICK n : n = Branched(g, TrueBranch[at])
    OBVIOUS
  <2>2. TrueBranch[at] \in Destinations
    BY TrueBranchAssumption
  <2>3. PICK after : Sound(n, after) /\ (Running(n) => GameOf(n) \in Frames!Branches)
    BY <1>5, <2>1, <2>2
  <2>4. CASE disk' = WholeFile(g)
    <3>1. disk'.kind = "whole" /\ disk'.game = g
      BY <2>4, DiskKinds
    <3>2. ResumedMachine' = n
      BY <1>2, <2>1, <3>1 DEF ResumedMachine
    <3>3. SavedGame' = GameOf(n)
      BY <3>1, <3>2 DEF SavedGame
    <3>4. DiskIsSound'
      BY <1>2, <1>3, <2>4 DEF DiskIsSound
    <3>5. Allowed(n, after)
      BY <2>3, <3>3, GameOfSound DEF Allowed
    <3> QED BY <1>6, <2>1, <3>4, <3>5 DEF Carried
  <2>5. CASE disk' = BrokenFile
    <3>1. SavedGame' = NoGame /\ DiskIsSound'
      BY <2>5, DiskKinds DEF SavedGame, DiskIsSound
    <3>2. Allowed(n, after)
      BY <2>3, <3>1 DEF Allowed
    <3> QED BY <1>6, <2>1, <3>1, <3>2 DEF Carried
  <2> QED BY <1>6, <2>4, <2>5
<1>7. CASE disk' = BrokenFile /\ \E m \in Branches(g) : Becomes(m)
  <2>1. PICK d \in Destinations : Becomes(Branched(g, d))
    BY <1>7 DEF Branches
  <2> DEFINE n == Branched(g, d)
  <2>2. PICK after : Sound(n, after) /\ (Running(n) => GameOf(n) \in Frames!Branches)
    BY <1>5, <2>1
  <2>3. SavedGame' = NoGame /\ DiskIsSound'
    BY <1>7, DiskKinds DEF SavedGame, DiskIsSound
  <2>4. Allowed(n, after)
    BY <2>2, <2>3 DEF Allowed
  <2> QED BY <2>1, <2>3, <2>4 DEF Carried
<1> QED BY <1>1, <1>6, <1>7 DEF SaveGame

LEMMA RestoreCarried ==
  ASSUME NEW bases, Ready(bases), DiskIsSound, RestoreGame
  PROVE  Carried
<1>1. UNCHANGED disk
  BY DEF RestoreGame
<1>2. CASE disk.kind = "whole" /\ Becomes(ResumedMachine)
  <2>1. PICK m, b : disk = WholeFile(m) /\ Running(m) /\ Sound(m, b)
    BY <1>2, DiskKinds DEF DiskIsSound
  <2>2. disk.game = m /\ m.pc \in Positions
    BY <2>1, DiskKinds, MachineParts DEF Sound
  <2>3. TrueBranch[m.pc] \in Destinations
    BY <2>2, TrueBranchAssumption
  <2>4. PICK n : n = ResumedMachine
    OBVIOUS
  <2>5. n = Branched(m, TrueBranch[m.pc])
    BY <2>2, <2>4 DEF ResumedMachine
  <2>6. PICK after : Sound(n, after)
    BY <2>1, <2>3, <2>5, BranchSound
  <2>7. SavedGame = GameOf(n)
    BY <1>2, <2>4 DEF SavedGame
  <2>8. DiskIsSound' /\ SavedGame' = SavedGame
    BY <1>1, DiskStays
  <2>9. Allowed(n, after)
    BY <2>6, <2>7, <2>8 DEF Allowed
  <2> QED BY <1>2, <2>4, <2>8, <2>9 DEF Carried
<1>3. CASE Becomes(Halted(Machine, "error")) \/ Becomes(Halted(Machine, "undefined"))
  BY <1>1, <1>3, HaltCarried
<1> QED BY <1>2, <1>3 DEF RestoreGame

\* Every instruction.
LEMMA InstructionCarried ==
  ASSUME NEW bases, Ready(bases), DiskIsSound, RunInstruction
  PROVE  Carried
<1>1. CASE StoryInstruction /\ UNCHANGED disk
  <2>1. PICK n, after : Becomes(n) /\ Steps(n, after)
    BY <1>1, InstructionExecutes DEF Executes
  <2>2. DiskIsSound' /\ SavedGame' = SavedGame
    BY <1>1, DiskStays
  <2>3. Allowed(n, after)
    BY <2>1, <2>2 DEF Steps, Allowed
  <2> QED BY <2>1, <2>2, <2>3 DEF Carried
<1>2. CASE \E at \in Positions : SaveGame(at)
  BY <1>2, SaveCarried
<1>3. CASE SaveGameUnopened
  BY <1>3, HaltCarried DEF SaveGameUnopened
<1>4. CASE RestoreGame
  BY <1>4, RestoreCarried
<1> QED BY <1>1, <1>2, <1>3, <1>4 DEF RunInstruction

-----------------------------------------------------------------------------
(***************************************************************************)
(* The invariant: the words of the stack are frames, one behind the other, *)
(* and if the machine has stopped, they are the reason; and so are those   *)
(* in the file.                                                            *)
(***************************************************************************)
StackIsFrames == \E bases : Sound(Machine, bases)

\* The machine after an instruction.
LEMMA BecomesMachine ==
  ASSUME NEW n, n \in Machines, Becomes(n)
  PROVE  /\ Machine' = n /\ stack' = n.stack /\ bp' = n.bp /\ globals' = n.globals
         /\ pc' = n.pc /\ zstatus' = n.zstatus
<1>1. /\ stack' = n.stack /\ bp' = n.bp /\ globals' = n.globals
      /\ pc' = n.pc /\ zstatus' = n.zstatus
  BY DEF Becomes
<1>2. n = [stack |-> n.stack, bp |-> n.bp, globals |-> n.globals, pc |-> n.pc,
           zstatus |-> n.zstatus]
  BY MachineParts
<1>3. Machine' = [stack |-> stack', bp |-> bp', globals |-> globals', pc |-> pc',
                  zstatus |-> zstatus']
  BY DEF Machine
<1> QED BY <1>1, <1>2, <1>3, Zenon

MachineInv == StackIsFrames /\ DiskIsSound

\* The invariant holds at the start, and every instruction keeps it.
LEMMA FramesStart == ZInit => MachineInv
<1> SUFFICES ASSUME ZInit PROVE Sound(Machine, <<0>>) /\ DiskIsSound
  BY DEF MachineInv, StackIsFrames
<1>1. /\ stack = Loaded.stack /\ bp = Loaded.bp /\ globals = Loaded.globals
      /\ pc = Loaded.pc /\ zstatus = Loaded.zstatus
  BY DEF ZInit
<1>2. Machine = Loaded
  BY <1>1 DEF Machine, Loaded
<1>3. DiskIsSound
  BY DEF ZInit, DiskIsSound
<1> QED BY <1>2, <1>3, LoadedSound

LEMMA FramesKept == MachineInv /\ [ZNext]_zVars => MachineInv'
<1> SUFFICES ASSUME MachineInv, [ZNext]_zVars PROVE StackIsFrames' /\ DiskIsSound'
  BY DEF MachineInv
<1>1. PICK bases : Sound(Machine, bases)
  BY DEF MachineInv, StackIsFrames
<1>2. CASE ZNext
  <2>1. Ready(bases) /\ RunInstruction /\ DiskIsSound
    BY <1>1, <1>2 DEF ZNext, Ready, MachineInv
  <2>2. PICK n, after : Becomes(n) /\ Sound(n, after)
    BY <2>1, InstructionCarried DEF Carried, Allowed
  <2>3. Machine' = n
    <3>1. n \in Machines
      BY <2>2 DEF Sound
    <3> QED BY <2>2, <3>1, BecomesMachine
  <2>4. Sound(Machine', after)
    BY <2>2, <2>3
  <2>5. DiskIsSound'
    BY <2>1, InstructionCarried DEF Carried
  <2> QED BY <2>4, <2>5 DEF StackIsFrames
<1>3. CASE UNCHANGED zVars
  <2>1. Machine' = Machine
    BY <1>3 DEF zVars, machineVars, Machine
  <2>2. Sound(Machine', bases)
    BY <1>1, <2>1
  <2>3. DiskIsSound'
    BY <1>3, DiskStays DEF zVars, MachineInv
  <2> QED BY <2>2, <2>3 DEF StackIsFrames
<1> QED BY <1>2, <1>3

LEMMA FramesInvariant == ZSpec => []MachineInv
<1> QED BY FramesStart, FramesKept, PTL DEF ZSpec

\* What the invariant says of the variables.
LEMMA FramesNow ==
  ASSUME NEW bases, Sound(Machine, bases)
  PROVE  /\ stack \in Seq(Word) /\ Len(stack) <= StackSize /\ Layout(stack, bp, bases)
         /\ globals \in [Globals -> Values] /\ pc \in Positions
         /\ zstatus \in Stopped \cup {"running"}
         /\ Explains(stack, bases, zstatus)
         /\ CurrentFrames = FramesIn(stack, bases)
         /\ CurrentFrames # <<>>
<1>1. Machine.stack = stack /\ Machine.bp = bp /\ Machine.globals = globals
      /\ Machine.pc = pc /\ Machine.zstatus = zstatus
  BY DEF Machine
<1>2. /\ Machine \in Machines /\ Len(stack) <= StackSize /\ Layout(stack, bp, bases)
      /\ Explains(stack, bases, zstatus)
  BY <1>1 DEF Sound
<1>3. /\ stack \in Seq(Word) /\ globals \in [Globals -> Values] /\ pc \in Positions
      /\ zstatus \in Stopped \cup {"running"}
  BY <1>1, <1>2, MachineParts
<1>4. Bases(stack)[bp] = bases
  BY <1>2, <1>3, LayoutBases
<1>5. CurrentFrames = FramesIn(stack, bases)
  BY <1>4 DEF CurrentFrames
<1>6. CurrentFrames # <<>>
  <2>1. /\ Len(FramesIn(stack, bases)) = Len(bases) /\ Len(bases) \in 1 .. Len(bases)
        /\ \E S : FramesIn(stack, bases) \in Seq(S)
    BY <1>2, <1>3, FramesInType, TopFrame DEF Layout
  <2>2. PICK f : f = FramesIn(stack, bases)
    OBVIOUS
  <2>3. Len(f) >= 1
    BY <2>1, <2>2
  <2>4. f # <<>>
    BY <2>3
  <2> QED BY <1>5, <2>2, <2>4
<1> QED BY <1>2, <1>3, <1>5, <1>6

-----------------------------------------------------------------------------
\* The stack never outgrows its array, bp points into it, the next instruction is at
\* a place of the story and the globals hold words of it (mojozork.c:161-381).
THEOREM ZTypeCorrect == ZSpec => []ZTypeOK
<1>1. MachineInv => ZTypeOK
  <2> SUFFICES ASSUME MachineInv PROVE ZTypeOK
    OBVIOUS
  <2>1. PICK bases : Sound(Machine, bases)
    BY DEF MachineInv, StackIsFrames
  <2>2. /\ stack \in Seq(Word) /\ Len(stack) <= StackSize /\ Layout(stack, bp, bases)
        /\ globals \in [Globals -> Values] /\ pc \in Positions
        /\ zstatus \in Stopped \cup {"running"}
    BY <2>1, FramesNow
  <2>3. bp \in 0 .. Len(stack)
    BY <2>2, TopFrame
  <2>4. disk \in {NoFileYet, BrokenFile} \/ disk = WholeFile(disk.game)
    BY DiskKinds DEF MachineInv, DiskIsSound
  <2> QED BY <2>2, <2>3, <2>4 DEF ZTypeOK, Word
<1> QED BY <1>1, FramesInvariant, PTL

\* The machine stops with a full stack, an empty one, a missing local or a missing
\* caller only if the frames say so (mojozork.c:161-190, 270).
THEOREM DeathsAreExplained == ZSpec => []DeathsExplained
<1>1. MachineInv => DeathsExplained
  <2> SUFFICES ASSUME MachineInv PROVE DeathsExplained
    OBVIOUS
  <2>1. PICK bases : Sound(Machine, bases)
    BY DEF MachineInv, StackIsFrames
  <2>2. Explains(stack, bases, zstatus) /\ CurrentFrames = FramesIn(stack, bases)
    BY <2>1, FramesNow
  <2> QED BY <2>2, Zenon DEF Explains, DeathsExplained
<1> QED BY <1>1, FramesInvariant, PTL

-----------------------------------------------------------------------------
(***************************************************************************)
(* The machine implements the frames.                                      *)
(***************************************************************************)
\* A step of the frames, as FrameStep has it, is one of the reference's actions.
LEMMA FrameStepIsNext ==
  ASSUME NEW t, NEW at, FrameStep(t, at), Frames!Becomes(t, at)
  PROVE  Frames!Instruction
<1> USE DEF Frames!Instruction
<1>1. CASE at \in Positions /\ t \in Plain
  BY <1>1, Zenon DEF Plain, Frames!Proceed, Frames!Assign
<1>2. CASE at \in Positions /\ LoadStep(t)
  BY <1>2, Zenon DEF LoadStep, Frames!Load
<1>3. CASE at \in Positions /\ \E r \in Frames!Popped : t = r.state
  BY <1>3, Zenon DEF Frames!Pop
<1>4. CASE CallStep(t, at)
  BY <1>4, Zenon DEF CallStep, Frames!Call
<1>5. CASE \E s \in {Frames!Now} \cup Plain, v \in Values : ReturnsTo(s, v, t, at)
  <2>1. PICK s \in {Frames!Now} \cup Plain, v \in Values : ReturnsTo(s, v, t, at)
    BY <1>5
  <2>2. Frames!Returns(s, v)
    BY <2>1, Zenon DEF ReturnsTo, Frames!Returns
  <2>3. s \in {Frames!Now} \cup {e.state : e \in Frames!Arguments} \cup Frames!Assigned
    BY <2>1 DEF Plain
  <2> QED BY <2>2, <2>3, Zenon DEF Frames!Return
<1>6. CASE \E r \in Frames!Popped : ReturnsTo(r.state, r.value, t, at)
  <2>1. PICK r \in Frames!Popped : ReturnsTo(r.state, r.value, t, at)
    BY <1>6
  <2>2. Frames!Returns(r.state, r.value)
    BY <2>1, Zenon DEF ReturnsTo, Frames!Returns
  <2> QED BY <2>2, Zenon DEF Frames!Return
<1>7. CASE t = [frames |-> <<Frames!MainFrame>>, globals |-> Start.globals] /\ at = Start.pc
  <2>1. t.frames = <<Frames!MainFrame>> /\ t.globals = Start.globals
    BY <1>7
  <2> QED BY <1>7, <2>1, Zenon DEF Frames!Becomes, Frames!Restart
<1> QED BY <1>1, <1>2, <1>3, <1>4, <1>5, <1>6, <1>7 DEF FrameStep

\* Every instruction does to the frames of the running routines what the reference
\* allows, and to no other frame anything, for any story (mojozork.c:161-381).
THEOREM StackImplementsFrames == ZSpec => ImplementsFrames
<1>1. ZInit => Frames!FramesInit
  <2> SUFFICES ASSUME ZInit PROVE Frames!FramesInit
    OBVIOUS
  <2>1. stack = <<>> /\ bp = 0 /\ globals = Start.globals /\ pc = Start.pc /\ zstatus = "running"
    BY DEF ZInit, Loaded
  <2>2. Machine = Loaded
    BY <2>1 DEF Machine, Loaded
  <2>3. Ready(<<0>>)
    BY <2>1, <2>2, LoadedSound DEF Ready
  <2>4. Frames!Now = [frames |-> <<Frames!MainFrame>>, globals |-> Start.globals]
    BY <2>2, <2>3, MachineNow, LoadedSound
  <2>5. CurrentFrames = <<Frames!MainFrame>>
    <3>1. Frames!Now = [frames |-> CurrentFrames, globals |-> globals]
      BY <2>1 DEF Frames!Now
    <3>2. PICK s : s = Frames!Now
      OBVIOUS
    <3>3. s.frames = CurrentFrames
      BY <3>1, <3>2
    <3>4. s.frames = <<Frames!MainFrame>>
      BY <2>4, <3>2
    <3> QED BY <3>3, <3>4
  <2>6. SavedGame = NoGame
    BY DiskKinds DEF ZInit, SavedGame
  <2> QED BY <2>1, <2>5, <2>6, Zenon DEF Frames!FramesInit, SavedGame
<1>2. MachineInv /\ [ZNext]_zVars => [Frames!FramesNext]_Frames!frameVars
  <2> SUFFICES ASSUME MachineInv, [ZNext]_zVars
               PROVE  [Frames!FramesNext]_Frames!frameVars
    OBVIOUS
  <2>1. PICK bases : Sound(Machine, bases)
    BY DEF MachineInv, StackIsFrames
  <2>2. CASE ZNext
    <3>1. Ready(bases) /\ RunInstruction /\ zstatus = "running" /\ DiskIsSound
      BY <2>1, <2>2 DEF ZNext, Ready, MachineInv
    <3>2. PICK n, after : Becomes(n) /\ Allowed(n, after)
      BY <3>1, InstructionCarried DEF Carried
    <3>3. n \in Machines /\ Sound(n, after)
      BY <3>2 DEF Allowed, Sound
    <3>4. /\ Machine' = n /\ stack' = n.stack /\ bp' = n.bp /\ globals' = n.globals
          /\ pc' = n.pc /\ zstatus' = n.zstatus
      BY <3>2, <3>3, BecomesMachine
    <3>5. CurrentFrames' = FramesIn(n.stack, after)
      <4>1. /\ n.stack \in Seq(Word) /\ Len(n.stack) <= StackSize
            /\ Layout(n.stack, n.bp, after)
        BY <3>3, MachineParts DEF Sound
      <4>2. Bases(n.stack)[n.bp] = after
        BY <4>1, LayoutBases
      <4>3. CurrentFrames' = FramesIn(stack', Bases(stack')[bp'])
        BY DEF CurrentFrames
      <4> QED BY <3>4, <4>2, <4>3, Zenon
    <3>6. CurrentFrames # <<>>
      BY <2>1, FramesNow
    <3>7. CASE Running(n)
      <4>1. zstatus' = "running"
        BY <3>4, <3>7 DEF Running
      <4>2. PICK t : t = FramesState(n, after)
        OBVIOUS
      <4>3. t.frames = FramesIn(n.stack, after) /\ t.globals = n.globals
        BY <4>2 DEF FramesState
      <4>4. Frames!Becomes(t, n.pc)
        BY <3>4, <3>5, <4>1, <4>3, Zenon DEF Frames!Becomes
      <4>5. CASE FrameStep(t, n.pc) /\ SavedGame' = SavedGame
        <5>1. Frames!Instruction
          BY <4>4, <4>5, FrameStepIsNext
        <5> QED BY <3>1, <3>6, <4>5, <5>1, Zenon DEF Frames!FramesNext, SavedGame
      <4>6. PICK g : g = GameOf(n)
        OBVIOUS
      <4>7. g = GameAt(t, n.pc)
        BY <3>3, <3>7, <4>2, <4>6, GameOfSound
      <4>8. g.frames = t.frames /\ g.globals = t.globals /\ g.pc = n.pc /\ g # NoGame
        BY <4>7, GameIsNotNone DEF GameAt
      <4>9. Frames!GoOn(g)
        BY <3>4, <3>5, <4>1, <4>3, <4>8, Zenon DEF Frames!GoOn
      <4>10. CASE g \in Frames!Branches /\ SavedGame' \in {g, NoGame}
        <5>1. Frames!Save
          BY <4>9, <4>10, Zenon DEF Frames!Save, SavedGame
        <5> QED BY <3>1, <3>6, <5>1, Zenon DEF Frames!FramesNext
      <4>11. CASE g = SavedGame /\ SavedGame' = SavedGame
        <5>1. Frames!Restore
          BY <4>8, <4>9, <4>11, Zenon DEF Frames!Restore, SavedGame
        <5> QED BY <3>1, <3>6, <5>1, Zenon DEF Frames!FramesNext
      <4> QED BY <3>2, <3>7, <4>2, <4>5, <4>6, <4>10, <4>11 DEF Allowed
    <3>8. CASE ~ Running(n)
      <4>1. zstatus' # "running"
        BY <3>4, <3>8 DEF Running
      <4>2. globals \in [Globals -> Values]
        BY <2>1, FramesNow
      <4>3. globals' \in [DOMAIN globals -> Values] /\ pc' \in Positions
        <5>1. globals' \in [Globals -> Values] /\ pc' \in Positions
          BY <3>3, <3>4, MachineParts
        <5>2. DOMAIN globals = Globals
          BY <4>2
        <5> QED BY <5>1, <5>2, Zenon
      <4>4. SavedGame' \in {SavedGame, NoGame}
        BY <3>2, <3>8 DEF Allowed
      <4>5. Frames!Stop
        BY <4>1, <4>3, <4>4, Zenon DEF Frames!Stop, SavedGame
      <4> QED BY <3>1, <3>6, <4>5, Zenon DEF Frames!FramesNext
    <3> QED BY <3>7, <3>8
  <2>3. CASE UNCHANGED zVars
    <3>1. /\ stack' = stack /\ bp' = bp /\ globals' = globals /\ pc' = pc
          /\ zstatus' = zstatus /\ disk' = disk
      BY <2>3 DEF zVars, machineVars
    <3>2. CurrentFrames' = CurrentFrames
      BY <3>1, Zenon DEF CurrentFrames
    <3>3. SavedGame' = SavedGame
      BY <3>1, DiskStays DEF MachineInv
    <3> QED BY <3>1, <3>2, <3>3, Zenon DEF Frames!frameVars, Frames!gameVars, SavedGame
  <2> QED BY <2>2, <2>3
<1> QED BY <1>1, <1>2, FramesInvariant, PTL DEF ZSpec, ImplementsFrames, Frames!FramesSpec
=============================================================================
