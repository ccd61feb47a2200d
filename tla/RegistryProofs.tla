--------------------------- MODULE RegistryProofs ---------------------------
(***************************************************************************)
(* Facts about lists, and about what the operators of SessionRegistry do   *)
(* to a registry of any length.                                            *)
(***************************************************************************)
EXTENDS SessionRegistry, Integers, FiniteSetTheorems, WellFoundedInduction, TLAPS

-----------------------------------------------------------------------------
(* Natural numbers *)

\* A set of naturals that is not empty has a least element; this stands for
\* induction wherever a proof needs it.
LEMMA Least ==
  ASSUME NEW T \in SUBSET Nat, T # {}
  PROVE  \E x \in T : \A y \in T : x <= y
<1> DEFINE R == OpToRel(<, Nat)
<1>1. IsWellFoundedOn(R, Nat)
  BY NatLessThanWellFounded
<1>2. \A x, y \in Nat : <<y, x>> \in R <=> y < x
  BY DEF OpToRel
<1> HIDE DEF R
<1>3. PICK x \in T : \A y \in T : ~ (<<y, x>> \in R)
  BY <1>1, WFMin
<1>4. ASSUME NEW y \in T PROVE x <= y
  <2>1. x \in Nat /\ y \in Nat
    OBVIOUS
  <2>2. ~(y < x)
    BY <1>2, <1>3, <2>1
  <2> QED
    BY <2>1, <2>2
<1> QED
  BY <1>4

\* One that is bounded has a greatest.
LEMMA Greatest ==
  ASSUME NEW n \in Nat, NEW T \in SUBSET (0 .. n), T # {}
  PROVE  \E x \in T : \A y \in T : y <= x
<1> DEFINE U == {n - x : x \in T}
<1>0. \A x \in T : x \in Nat /\ n - x \in Nat
  OBVIOUS
<1>1. U \in SUBSET Nat /\ U # {}
  BY <1>0
<1>2. PICK u \in U : \A v \in U : u <= v
  BY <1>1, Least
<1>3. PICK x \in T : u = n - x
  OBVIOUS
<1>4. ASSUME NEW y \in T PROVE y <= x
  <2>1. n - x <= n - y
    BY <1>2, <1>3
  <2> QED
    BY <1>0, <2>1
<1> QED
  BY <1>4

\* At most one more.
LEMMA OneMore ==
  ASSUME NEW S, IsFiniteSet(S), NEW x, NEW T \in SUBSET (S \union {x})
  PROVE  /\ IsFiniteSet(T)
         /\ Cardinality(S) \in Nat /\ Cardinality(T) \in Nat
         /\ Cardinality(T) <= Cardinality(S) + 1
<1>1. /\ IsFiniteSet(S \union {x}) /\ Cardinality(S \union {x}) \in Nat
      /\ Cardinality(S) \in Nat /\ Cardinality(S \union {x}) <= Cardinality(S) + 1
  BY FS_AddElement, FS_CardinalityType
<1>2. /\ IsFiniteSet(T) /\ Cardinality(T) <= Cardinality(S \union {x})
  BY <1>1, FS_Subset
<1>3. Cardinality(T) \in Nat
  BY <1>2, FS_CardinalityType
<1> QED
  BY <1>1, <1>2, <1>3

-----------------------------------------------------------------------------
(* What a filter keeps *)

\* The places of a list are finitely many, and ranks order them.
LEMMA Ranks ==
  ASSUME NEW n \in Nat, NEW P \in SUBSET (1 .. n)
  PROVE  /\ IsFiniteSet(P) /\ Cardinality(P) \in Nat /\ Cardinality(P) <= n
         /\ \A i \in P : Rank(P, i) \in 1 .. Cardinality(P)
         /\ \A i, j \in P : i < j => Rank(P, i) < Rank(P, j)
<1>1. IsFiniteSet(1 .. n) /\ Cardinality(1 .. n) = n
  BY FS_Interval
<1>2. IsFiniteSet(P) /\ Cardinality(P) \in Nat /\ Cardinality(P) <= n
  BY <1>1, FS_Subset, FS_CardinalityType
<1> DEFINE Up(i) == {j \in P : j <= i}
<1>3. \A i \in P : IsFiniteSet(Up(i)) /\ Cardinality(Up(i)) \in Nat
  BY <1>2, FS_Subset, FS_CardinalityType
<1>4. ASSUME NEW i \in P PROVE Rank(P, i) \in 1 .. Cardinality(P)
  <2>1. Up(i) \in SUBSET P /\ i \in Up(i)
    OBVIOUS
  <2>2. Cardinality(Up(i)) <= Cardinality(P)
    BY <1>2, <2>1, FS_Subset
  <2>3. Cardinality(Up(i)) # 0
    BY <1>3, <2>1, FS_EmptySet
  <2> QED
    BY <1>2, <1>3, <2>2, <2>3 DEF Rank
<1>5. ASSUME NEW i \in P, NEW j \in P, i < j PROVE Rank(P, i) < Rank(P, j)
  <2>0. \A l \in P : l \in Int
    OBVIOUS
  <2>1. \A l \in P : l <= i => l <= j
    BY <1>5, <2>0
  <2>2. j <= j /\ ~(j <= i)
    BY <1>5, <2>0
  <2>3. Up(i) \in SUBSET Up(j) /\ j \in Up(j) /\ j \notin Up(i)
    BY <2>1, <2>2
  <2>4. Cardinality(Up(i)) <= Cardinality(Up(j)) /\ Cardinality(Up(i)) # Cardinality(Up(j))
    BY <1>3, <2>3, FS_Subset
  <2> QED
    BY <1>3, <2>4 DEF Rank
<1> QED
  BY <1>2, <1>4, <1>5

\* Nth counts the places in their order.
LEMMA Places ==
  ASSUME NEW n \in Nat, NEW P \in SUBSET (1 .. n)
  PROVE  /\ \A k \in 1 .. Cardinality(P) : Nth(P, k) \in P /\ Rank(P, Nth(P, k)) = k
         /\ \A i \in P : Nth(P, Rank(P, i)) = i
         /\ \A k, l \in 1 .. Cardinality(P) : k < l => Nth(P, k) < Nth(P, l)
<1> DEFINE N == 1 .. Cardinality(P)
           rank == [i \in P |-> Rank(P, i)]
<1>1. /\ IsFiniteSet(P) /\ Cardinality(P) \in Nat
      /\ \A i \in P : Rank(P, i) \in N
      /\ \A i, j \in P : i < j => Rank(P, i) < Rank(P, j)
  BY Ranks
<1>2. \A i, j \in P : Rank(P, i) = Rank(P, j) => i = j
  <2> SUFFICES ASSUME NEW i \in P, NEW j \in P, Rank(P, i) = Rank(P, j) PROVE i = j
    OBVIOUS
  <2>1. i \in Int /\ j \in Int /\ Rank(P, i) \in Int
    BY <1>1
  <2>2. ~(i < j) /\ ~(j < i)
    BY <1>1, <2>1
  <2> QED
    BY <2>1, <2>2
<1>3. IsFiniteSet(N) /\ Cardinality(N) = Cardinality(P)
  BY <1>1, FS_Interval
<1>4. rank \in Injection(P, N)
  BY <1>1, <1>2 DEF Injection, IsInjective
<1>5. rank \in Surjection(P, N)
  BY <1>3, <1>4, FS_Injection
<1>6. \A k \in N : \E i \in P : Rank(P, i) = k
  BY <1>5 DEF Surjection
<1>7. \A k \in N : Nth(P, k) \in P /\ Rank(P, Nth(P, k)) = k
  BY <1>6 DEF Nth
<1>8. \A i \in P : Nth(P, Rank(P, i)) = i
  BY <1>1, <1>2, <1>7
<1>9. ASSUME NEW k \in N, NEW l \in N, k < l PROVE Nth(P, k) < Nth(P, l)
  <2>1. Nth(P, k) \in Int /\ Nth(P, l) \in Int /\ k \in Int /\ l \in Int
    <3>1. \A i \in P : i \in Int
      OBVIOUS
    <3>2. Nth(P, k) \in P /\ Nth(P, l) \in P
      BY <1>7
    <3>3. k \in Int /\ l \in Int
      BY <1>1
    <3> QED
      BY <3>1, <3>2, <3>3
  <2>2. ~(Nth(P, l) < Nth(P, k)) /\ Nth(P, k) # Nth(P, l)
    BY <1>1, <1>7, <1>9, <2>1
  <2> QED
    BY <2>1, <2>2
<1> QED
  BY <1>7, <1>8, <1>9

\* Keep returns the list of what stands at the places, and nothing else.
LEMMA Kept ==
  ASSUME NEW S, NEW list \in Seq(S), NEW P \in SUBSET DOMAIN list
  PROVE  /\ IsFiniteSet(P) /\ Cardinality(P) \in Nat
         /\ Keep(list, P) \in Seq(S)
         /\ Len(Keep(list, P)) = Cardinality(P)
         /\ DOMAIN Keep(list, P) = 1 .. Cardinality(P)
         /\ \A k \in 1 .. Cardinality(P) : Nth(P, k) \in P /\ Keep(list, P)[k] = list[Nth(P, k)]
         /\ \A i \in P : Rank(P, i) \in 1 .. Cardinality(P) /\ Nth(P, Rank(P, i)) = i
         /\ \A k, l \in 1 .. Cardinality(P) : k < l => Nth(P, k) < Nth(P, l)
<1>1. Len(list) \in Nat /\ DOMAIN list = 1 .. Len(list) /\ \A i \in DOMAIN list : list[i] \in S
  OBVIOUS
<1>2. /\ IsFiniteSet(P) /\ Cardinality(P) \in Nat
      /\ \A i \in P : Rank(P, i) \in 1 .. Cardinality(P)
  BY <1>1, Ranks
<1>3. /\ \A k \in 1 .. Cardinality(P) : Nth(P, k) \in P
      /\ \A i \in P : Nth(P, Rank(P, i)) = i
      /\ \A k, l \in 1 .. Cardinality(P) : k < l => Nth(P, k) < Nth(P, l)
  BY <1>1, Places
<1>4. Keep(list, P) \in [1 .. Cardinality(P) -> S]
  BY <1>1, <1>3 DEF Keep
<1>5. Keep(list, P) \in Seq(S) /\ Len(Keep(list, P)) = Cardinality(P)
  BY <1>2, <1>4
<1> QED
  BY <1>2, <1>3, <1>5 DEF Keep

\* The values kept are those at the places.
LEMMA KeptValues ==
  ASSUME NEW S, NEW list \in Seq(S), NEW P \in SUBSET DOMAIN list
  PROVE  {Keep(list, P)[k] : k \in DOMAIN Keep(list, P)} = {list[i] : i \in P}
BY Kept

\* A list of times, none of them later than its end or than now.
Sorted(list) == \A i, j \in DOMAIN list : i <= j => list[i] <= list[j]

\* A filter keeps the order.
LEMMA KeptSorted ==
  ASSUME NEW list \in Seq(Int), Sorted(list), NEW P \in SUBSET DOMAIN list
  PROVE  Sorted(Keep(list, P))
<1> SUFFICES ASSUME NEW k \in DOMAIN Keep(list, P), NEW l \in DOMAIN Keep(list, P), k <= l
             PROVE  Keep(list, P)[k] <= Keep(list, P)[l]
  BY DEF Sorted
<1>1. /\ k \in 1 .. Cardinality(P) /\ l \in 1 .. Cardinality(P)
      /\ Nth(P, k) \in P /\ Nth(P, l) \in P
      /\ Keep(list, P)[k] = list[Nth(P, k)] /\ Keep(list, P)[l] = list[Nth(P, l)]
      /\ k < l => Nth(P, k) < Nth(P, l)
  BY Kept
<1>2. k = l \/ k < l
  BY <1>1
<1>3. Nth(P, k) <= Nth(P, l) /\ Nth(P, k) \in DOMAIN list /\ Nth(P, l) \in DOMAIN list
  BY <1>1, <1>2
<1> QED
  BY <1>1, <1>3 DEF Sorted

\* What a sorted list keeps from a time on is its end.
LEMMA KeptEnd ==
  ASSUME NEW list \in Seq(Int), Sorted(list), NEW t \in Int
  PROVE  LET P == {i \in DOMAIN list : list[i] > t}
             gone == Len(list) - Cardinality(P)
         IN  /\ Cardinality(P) \in Nat /\ Cardinality(P) <= Len(list)
             /\ \A k \in 1 .. Cardinality(P) : Keep(list, P)[k] = list[gone + k]
             /\ \A i \in 1 .. gone : list[i] <= t
<1> DEFINE n == Len(list)
           P == {i \in DOMAIN list : list[i] > t}
           Q == {i \in 0 .. n : i = 0 \/ list[i] <= t}
<1>1. n \in Nat /\ DOMAIN list = 1 .. n /\ \A i \in 1 .. n : list[i] \in Int
  OBVIOUS
<1>2. PICK a \in Q : \A i \in Q : i <= a
  <2>1. Q \in SUBSET (0 .. n) /\ 0 \in Q
    BY <1>1
  <2> QED
    BY <1>1, <2>1, Greatest
<1>3. a \in 0 .. n
  BY <1>1
<1>4. \A i \in 1 .. n : i <= a => list[i] <= t
  BY <1>1, <1>2, <1>3, SMTT(40) DEF Sorted
<1>5. \A i \in 1 .. n : i > a => list[i] > t
  <2> SUFFICES ASSUME NEW i \in 1 .. n, i > a, ~(list[i] > t) PROVE FALSE
    OBVIOUS
  <2>1. i \in Q
    BY <1>1
  <2> QED
    BY <1>2, <1>3, <2>1
<1>6. P = a + 1 .. n
  <2>1. \A i \in P : i \in 1 .. n /\ ~(i <= a)
    BY <1>1, <1>4
  <2>2. \A i \in a + 1 .. n : i \in 1 .. n /\ i > a
    BY <1>3
  <2> QED
    BY <1>1, <1>3, <1>5, <2>1, <2>2
<1> HIDE DEF P, Q, n
<1>7. Cardinality(P) = n - a
  <2>1. Cardinality(a + 1 .. n) = IF a + 1 > n THEN 0 ELSE n - (a + 1) + 1
    BY <1>1, <1>3, FS_Interval
  <2> QED
    BY <1>1, <1>3, <1>6, <2>1
<1>8. ASSUME NEW k \in 1 .. n - a PROVE Nth(P, k) = a + k
  <2>1. a + k \in P
    BY <1>1, <1>3, <1>6
  <2>2. {j \in P : j <= a + k} = a + 1 .. a + k
    BY <1>1, <1>3, <1>6
  <2>3. Cardinality(a + 1 .. a + k) = IF a + 1 > a + k THEN 0 ELSE (a + k) - (a + 1) + 1
    BY <1>1, <1>3, FS_Interval
  <2>4. Rank(P, a + k) = k
    <3>1. Rank(P, a + k) = Cardinality(a + 1 .. a + k)
      BY <2>2 DEF Rank
    <3>2. ~(a + 1 > a + k) /\ (a + k) - (a + 1) + 1 = k
      BY <1>1, <1>3
    <3> QED
      BY <2>3, <3>1, <3>2
  <2>5. P \in SUBSET (1 .. n)
    BY <1>1, <1>3, <1>6
  <2> QED
    BY <1>1, <2>1, <2>4, <2>5, Places
<1>9. \A k \in 1 .. Cardinality(P) : Keep(list, P)[k] = list[a + k]
  BY <1>7, <1>8 DEF Keep
<1>10. n - Cardinality(P) = a /\ Cardinality(P) \in Nat /\ Cardinality(P) <= n
  BY <1>1, <1>3, <1>7
<1>11. \A i \in 1 .. a : list[i] <= t
  BY <1>1, <1>3, <1>4
<1> QED
  BY <1>9, <1>10, <1>11 DEF P, n

-----------------------------------------------------------------------------
(* What overflows a limit *)

\* Letting the overflow go leaves room for one more and no more than that; and
\* what goes is older than what stays.
LEMMA OverflowLeavesRoom ==
  ASSUME NEW n \in Nat, NEW P \in SUBSET (1 .. n), NEW limit \in Nat \ {0}
  PROVE  /\ Overflow(P, limit) \subseteq P
         /\ \A i \in Overflow(P, limit), j \in P : j <= i => j \in Overflow(P, limit)
         /\ Cardinality(P \ Overflow(P, limit)) < limit
         /\ Overflow(P, limit) # {} => Cardinality(P \ Overflow(P, limit)) = limit - 1
<1> DEFINE From(i) == {j \in P : j >= i}
           due == Overflow(P, limit)
           stay == P \ due
<1>1. IsFiniteSet(P) /\ P \in SUBSET Nat /\ P \in SUBSET (0 .. n) /\ \A i \in P : i \in Int
  BY Ranks
<1>2. \A i \in P : IsFiniteSet(From(i)) /\ Cardinality(From(i)) \in Nat
  BY <1>1, FS_Subset, FS_CardinalityType
<1>3. due \subseteq P /\ \A i \in P : i \in due <=> Cardinality(From(i)) >= limit
  BY DEF Overflow
<1> HIDE DEF due
<1>4. ASSUME NEW i \in due, NEW j \in P, j <= i PROVE j \in due
  <2>0. i \in P
    BY <1>3
  <2>1. From(i) \in SUBSET From(j)
    <3>1. \A k \in P : k >= i => k >= j
      BY <1>1, <1>4, <2>0
    <3> QED
      BY <3>1
  <2>2. Cardinality(From(i)) <= Cardinality(From(j))
    BY <1>2, <2>1, FS_Subset
  <2> QED
    BY <1>2, <1>3, <2>0, <2>2
<1>5. IsFiniteSet(stay) /\ Cardinality(stay) \in Nat
  BY <1>1, FS_Subset, FS_CardinalityType
<1>6. Cardinality(stay) < limit
  <2>1. CASE stay = {}
    BY <2>1, FS_EmptySet
  <2>2. CASE stay # {}
    <3>1. PICK i \in stay : \A j \in stay : i <= j
      BY <1>1, <2>2, Least
    <3>2. stay \in SUBSET From(i)
      BY <3>1
    <3>3. Cardinality(stay) <= Cardinality(From(i))
      BY <1>2, <3>2, FS_Subset
    <3> QED
      BY <1>2, <1>3, <1>5, <3>3
  <2> QED
    BY <2>1, <2>2
<1>7. ASSUME due # {} PROVE Cardinality(stay) >= limit - 1
  <2>1. PICK i \in due : \A j \in due : j <= i
    BY <1>1, <1>3, <1>7, Greatest
  <2>2. From(i) \ {i} \in SUBSET stay
    <3> SUFFICES ASSUME NEW j \in P, j >= i, j # i, j \in due PROVE FALSE
      OBVIOUS
    <3> QED
      BY <1>1, <1>3, <2>1
  <2>3. Cardinality(From(i) \ {i}) = Cardinality(From(i)) - 1 /\ IsFiniteSet(From(i) \ {i})
    <3>1. i \in From(i) /\ IsFiniteSet(From(i))
      BY <1>1, <1>2, <1>3
    <3> QED
      BY <3>1, FS_RemoveElement
  <2>4. Cardinality(From(i) \ {i}) <= Cardinality(stay)
    BY <1>5, <2>2, FS_Subset
  <2>5. Cardinality(From(i)) \in Nat /\ Cardinality(From(i)) >= limit
    BY <1>2, <1>3
  <2> QED
    BY <1>5, <2>3, <2>4, <2>5
<1>8. due # {} => Cardinality(stay) = limit - 1
  BY <1>5, <1>6, <1>7
<1> QED
  BY <1>3, <1>4, <1>6, <1>8 DEF due

-----------------------------------------------------------------------------
(* Registries *)

Entered(reg) == {reg[i] : i \in DOMAIN reg}
Without(entries, sids) == {e \in entries : e.sid \notin sids}

\* No session is listed twice.
Distinct(reg) == \A i, j \in DOMAIN reg : reg[i].sid = reg[j].sid => i = j

\* As many sessions as places.
LEMMA SessionsAtPlaces ==
  ASSUME NEW E, NEW reg \in Seq(E), Distinct(reg), NEW P \in SUBSET DOMAIN reg
  PROVE  /\ IsFiniteSet(P) /\ IsFiniteSet({reg[i].sid : i \in P})
         /\ Cardinality(P) \in Nat
         /\ Cardinality({reg[i].sid : i \in P}) = Cardinality(P)
<1> DEFINE S == {reg[i].sid : i \in P}
           f == [i \in P |-> reg[i].sid]
<1>1. IsFiniteSet(P) /\ Cardinality(P) \in Nat
  BY Kept
<1>2. f \in Surjection(P, S) /\ f \in Injection(P, S)
  BY DEF Distinct, Surjection, Injection, IsInjective
<1> QED
  BY <1>1, <1>2, FS_Surjection

LEMMA Removing ==
  ASSUME NEW E, NEW reg \in Seq(E), NEW sids
  PROVE  /\ RemoveSessions(reg, sids) \in Seq(E)
         /\ Entered(RemoveSessions(reg, sids)) = Without(Entered(reg), sids)
         /\ Registered(RemoveSessions(reg, sids)) = Registered(reg) \ sids
         /\ Distinct(reg) => Distinct(RemoveSessions(reg, sids))
<1> DEFINE P == {i \in DOMAIN reg : reg[i].sid \notin sids}
           new == RemoveSessions(reg, sids)
<1>1. new = Keep(reg, P) /\ P \in SUBSET DOMAIN reg
  BY DEF RemoveSessions
<1>2. /\ new \in Seq(E) /\ DOMAIN new = 1 .. Cardinality(P) /\ Cardinality(P) \in Nat
      /\ \A k \in DOMAIN new : Nth(P, k) \in P /\ new[k] = reg[Nth(P, k)]
      /\ \A i \in P : Rank(P, i) \in DOMAIN new /\ Nth(P, Rank(P, i)) = i
      /\ \A k, l \in DOMAIN new : k < l => Nth(P, k) < Nth(P, l)
  <2> HIDE DEF P, new
  <2> QED
    BY <1>1, Kept, SMTT(40)
<1>3. Entered(new) = {e \in Entered(reg) : e.sid \notin sids}
  <2>1. \A k \in DOMAIN new : new[k] \in Entered(reg) /\ new[k].sid \notin sids
    BY <1>2 DEF Entered
  <2>2. \A i \in DOMAIN reg : reg[i].sid \notin sids => reg[i] \in Entered(new)
    BY <1>2 DEF Entered
  <2> QED
    BY <2>1, <2>2 DEF Entered
<1>4. Registered(new) = Registered(reg) \ sids
  <2>1. \A r \in {reg, new} : Registered(r) = {e.sid : e \in Entered(r)}
    BY DEF Registered, Entered
  <2> QED
    BY <1>3, <2>1
<1>5. ASSUME Distinct(reg), NEW k \in DOMAIN new, NEW l \in DOMAIN new, new[k].sid = new[l].sid
      PROVE  k = l
  <2>1. k \in Int /\ l \in Int
    BY <1>2
  <2>2. Nth(P, k) = Nth(P, l) /\ Nth(P, k) \in Int
    BY <1>2, <1>5 DEF Distinct
  <2>3. ~(k < l) /\ ~(l < k)
    BY <1>2, <2>2
  <2> QED
    BY <2>1, <2>3
<1> QED
  BY <1>2, <1>3, <1>4, <1>5 DEF Distinct, Without

LEMMA Registering ==
  ASSUME NEW E, NEW reg \in Seq(E), NEW sid, NEW user, NEW org,
         [sid |-> sid, user |-> user, org |-> org] \in E
  PROVE  /\ RegisterSession(reg, sid, user, org) \in Seq(E)
         /\ Entered(RegisterSession(reg, sid, user, org)) =
              {e \in Entered(reg) : e.sid # sid} \union {[sid |-> sid, user |-> user, org |-> org]}
         /\ Registered(RegisterSession(reg, sid, user, org)) = Registered(reg) \union {sid}
         /\ Distinct(reg) => Distinct(RegisterSession(reg, sid, user, org))
<1> DEFINE e0 == [sid |-> sid, user |-> user, org |-> org]
           old == RemoveSessions(reg, {sid})
           new == RegisterSession(reg, sid, user, org)
<1>1. /\ old \in Seq(E)
      /\ Entered(old) = {e \in Entered(reg) : e.sid # sid}
      /\ Registered(old) = Registered(reg) \ {sid}
      /\ Distinct(reg) => Distinct(old)
  BY Removing DEF Without
<1>0. e0 \in E /\ new = Append(old, e0)
  BY DEF RegisterSession
<1> HIDE DEF old, new, e0
<1>2. /\ new \in Seq(E) /\ Len(old) \in Nat
      /\ DOMAIN old = 1 .. Len(old) /\ DOMAIN new = DOMAIN old \union {Len(old) + 1}
      /\ \A i \in DOMAIN old : new[i] = old[i]
      /\ new[Len(old) + 1] = e0 /\ Len(old) + 1 \notin DOMAIN old
  BY <1>0, <1>1
<1>3. e0.sid = sid
  BY DEF e0
<1>4. Entered(new) = Entered(old) \union {e0}
  BY <1>2 DEF Entered
<1>5. Registered(new) = Registered(old) \union {sid}
  BY <1>2, <1>3 DEF Registered
<1>6. \A i \in DOMAIN old : old[i].sid # sid
  BY <1>1 DEF Entered
<1>7. Distinct(reg) => Distinct(new)
  BY <1>1, <1>2, <1>3, <1>6 DEF Distinct
<1> QED
  BY <1>1, <1>2, <1>4, <1>5, <1>7 DEF e0, new

\* The places that a sign-in evicts.
Due(reg, user, org) ==
  Overflow(OfUser(reg, user), UserLimit)
    \union (IF OrgLimited(org) THEN Overflow(OfOrg(reg, org), OrgLimit[org]) ELSE {})

Evicted(reg, user, org) == {reg[i].sid : i \in Due(reg, user, org)}

Members(list) == {list[k] : k \in DOMAIN list}

LEMMA Evicting ==
  ASSUME NEW E, NEW reg \in Seq(E), Distinct(reg), NEW user, NEW org
  PROVE  /\ EvictSessionIds(reg, user, org) \in Seq(Registered(reg))
         /\ Due(reg, user, org) \subseteq DOMAIN reg
         /\ Evicted(reg, user, org) \subseteq Registered(reg)
         /\ Members(EvictSessionIds(reg, user, org)) = Evicted(reg, user, org)
         /\ \A i \in DOMAIN reg :
              reg[i].sid \in Evicted(reg, user, org) <=> i \in Due(reg, user, org)
<1> DEFINE sids == [i \in DOMAIN reg |-> reg[i].sid]
           due == Due(reg, user, org)
<1>1. due \in SUBSET DOMAIN reg
  BY DEF Due, Overflow, OfUser, OfOrg
<1>2. sids \in Seq(Registered(reg)) /\ DOMAIN sids = DOMAIN reg
  <2>1. DOMAIN reg = 1 .. Len(reg) /\ Len(reg) \in Nat
    OBVIOUS
  <2>2. \A i \in DOMAIN reg : reg[i].sid \in Registered(reg)
    BY DEF Registered
  <2>3. sids \in [1 .. Len(reg) -> Registered(reg)]
    BY <2>1, <2>2
  <2> QED
    BY <2>1, <2>3
<1>3. EvictSessionIds(reg, user, org) = Keep(sids, due)
  BY DEF EvictSessionIds, Due
<1>4. \A i \in DOMAIN reg : sids[i] = reg[i].sid
  OBVIOUS
<1> HIDE DEF sids, due
<1>5. Keep(sids, due) \in Seq(Registered(reg))
  BY <1>1, <1>2, Kept
<1>6. {Keep(sids, due)[k] : k \in DOMAIN Keep(sids, due)} = {sids[i] : i \in due}
  BY <1>1, <1>2, KeptValues
<1>7. {sids[i] : i \in due} = {reg[i].sid : i \in due}
  BY <1>1, <1>4
<1>8. \A i \in DOMAIN reg : reg[i].sid \in {reg[j].sid : j \in due} <=> i \in due
  BY <1>1 DEF Distinct
<1>9. {reg[i].sid : i \in due} \subseteq Registered(reg)
  BY <1>1 DEF Registered
<1> QED
  BY <1>1, <1>3, <1>5, <1>6, <1>7, <1>8, <1>9 DEF due, Evicted, Members

\* After the eviction there is room for one more, for the user and for the
\* organization; what was evicted is older than what was not; and an eviction
\* leaves no more room than that on one of the two sides.
LEMMA EvictionMakesRoom ==
  ASSUME NEW E, NEW reg \in Seq(E), NEW user, NEW org, Allowed(org),
         org = NoOrg \/ org \in DOMAIN OrgLimit
  PROVE  /\ Cardinality(OfUser(reg, user) \ Due(reg, user, org)) < UserLimit
         /\ OrgLimited(org) =>
              Cardinality(OfOrg(reg, org) \ Due(reg, user, org)) < OrgLimit[org]
         /\ \A i \in Due(reg, user, org) :
              \/ /\ reg[i].user = user
                 /\ \A j \in OfUser(reg, user) : j <= i => j \in Due(reg, user, org)
              \/ /\ reg[i].org = org
                 /\ \A j \in OfOrg(reg, org) : j <= i => j \in Due(reg, user, org)
         /\ Due(reg, user, org) # {} =>
              \/ Cardinality(OfUser(reg, user) \ Due(reg, user, org)) = UserLimit - 1
              \/ /\ OrgLimited(org)
                 /\ Cardinality(OfOrg(reg, org) \ Due(reg, user, org)) = OrgLimit[org] - 1
<1> DEFINE U == OfUser(reg, user)
           O == OfOrg(reg, org)
           dueU == Overflow(U, UserLimit)
           dueO == IF OrgLimited(org) THEN Overflow(O, OrgLimit[org]) ELSE {}
           due == Due(reg, user, org)
<1>1. due = dueU \union dueO
  BY DEF Due
<1>2. /\ DOMAIN reg = 1 .. Len(reg) /\ Len(reg) \in Nat
      /\ U \in SUBSET (1 .. Len(reg)) /\ O \in SUBSET (1 .. Len(reg))
  BY DEF OfUser, OfOrg
<1>3. UserLimit \in Nat \ {0} /\ (OrgLimited(org) => OrgLimit[org] \in Nat \ {0})
  BY LimitAssumption DEF Allowed, OrgLimited
<1>4. /\ dueU \subseteq U
      /\ \A i \in dueU, j \in U : j <= i => j \in dueU
      /\ Cardinality(U \ dueU) < UserLimit
      /\ dueU # {} => Cardinality(U \ dueU) = UserLimit - 1
  BY <1>2, <1>3, OverflowLeavesRoom
<1>5. OrgLimited(org) =>
      /\ dueO \subseteq O
      /\ \A i \in dueO, j \in O : j <= i => j \in dueO
      /\ Cardinality(O \ dueO) < OrgLimit[org]
      /\ dueO # {} => Cardinality(O \ dueO) = OrgLimit[org] - 1
  BY <1>2, <1>3, OverflowLeavesRoom
<1>6. dueO \subseteq O /\ \A i \in dueO, j \in O : j <= i => j \in dueO
  BY <1>5
<1>7. ~OrgLimited(org) => dueO = {}
  OBVIOUS
<1>8. \A P \in {U, O} : \A Q \in SUBSET P :
        IsFiniteSet(Q) /\ Cardinality(Q) \in Nat /\ \A R \in SUBSET Q : Cardinality(R) <= Cardinality(Q)
  BY <1>2, Ranks, FS_Subset, FS_CardinalityType
<1>9. \A i \in U \union O : i \in Int
  BY <1>2
<1>10. U = {i \in DOMAIN reg : reg[i].user = user} /\ O = {i \in DOMAIN reg : reg[i].org = org}
  BY DEF OfUser, OfOrg
<1> HIDE DEF U, O, dueU, dueO, due
<1>11. Cardinality(U \ due) < UserLimit
  <2>1. U \ due \in SUBSET (U \ dueU) /\ U \ dueU \in SUBSET U /\ U \ due \in SUBSET U
    BY <1>1
  <2>2. Cardinality(U \ due) <= Cardinality(U \ dueU)
    BY <1>8, <2>1
  <2>3. Cardinality(U \ due) \in Nat /\ Cardinality(U \ dueU) \in Nat
    BY <1>8, <2>1
  <2> QED
    BY <1>3, <1>4, <2>2, <2>3
<1>12. ASSUME OrgLimited(org) PROVE Cardinality(O \ due) < OrgLimit[org]
  <2>1. O \ due \in SUBSET (O \ dueO) /\ O \ dueO \in SUBSET O /\ O \ due \in SUBSET O
    BY <1>1
  <2>2. Cardinality(O \ due) <= Cardinality(O \ dueO)
    BY <1>8, <2>1
  <2>3. Cardinality(O \ due) \in Nat /\ Cardinality(O \ dueO) \in Nat
    BY <1>8, <2>1
  <2> QED
    BY <1>3, <1>5, <1>12, <2>2, <2>3
<1>13. \A i \in due :
        \/ reg[i].user = user /\ \A j \in U : j <= i => j \in due
        \/ reg[i].org = org /\ \A j \in O : j <= i => j \in due
  BY <1>1, <1>4, <1>6, <1>10
\* Of two sessions of this user in this organization one cannot go for the
\* user's limit alone and the other for the organization's.
<1>14. dueO \intersect U \subseteq dueU \/ dueU \intersect O \subseteq dueO
  <2> SUFFICES ASSUME NEW i \in dueO, i \in U, i \notin dueU,
                      NEW j \in dueU, j \in O, j \notin dueO
               PROVE  FALSE
    OBVIOUS
  <2>1. i <= j \/ j <= i
    BY <1>9
  <2> QED
    BY <1>4, <1>6, <2>1
<1>15. ASSUME due # {}
       PROVE  \/ Cardinality(U \ due) = UserLimit - 1
              \/ OrgLimited(org) /\ Cardinality(O \ due) = OrgLimit[org] - 1
  <2>1. CASE dueU # {} /\ dueO \intersect U \subseteq dueU
    <3>1. U \ due = U \ dueU
      BY <1>1, <2>1
    <3> QED
      BY <1>4, <2>1, <3>1
  <2>2. CASE dueO # {} /\ dueU \intersect O \subseteq dueO
    <3>1. O \ due = O \ dueO
      BY <1>1, <2>2
    <3> QED
      BY <1>5, <1>7, <2>2, <3>1
  <2> QED
    BY <1>1, <1>14, <1>15, <2>1, <2>2
<1> QED
  BY <1>11, <1>12, <1>13, <1>15 DEF U, O, due
=============================================================================
