--------------------------- MODULE TokenSync_proofs ---------------------------
(***************************************************************************)
(* Proofs about the token sync, for any number of users, jobs and changes: *)
(* the types, which say that no mint runs dry and that paging ends; the    *)
(* service actor stays in the map; if runs do not overlap and one page     *)
(* holds the realm, no token is lost or replaced and a run that succeeds   *)
(* leaves the entries it should.  Of several pages: only a user who leaves *)
(* the realm while it is read, or a page that Keycloak caps below what is  *)
(* asked for, can make a run lose another user's token; and a capped page  *)
(* does so, since the run takes it for the last one.                       *)
(***************************************************************************)
EXTENDS TokenSync, FiniteSetTheorems, FunctionTheorems, TLAPS

\* The conditions of the results about users' tokens: runs do not overlap, and
\* either one page holds the realm, or Keycloak returns all it is asked for and
\* no user leaves while a run reads the pages.
RunsAlone    == \A i, j \in Jobs : i = j
OnePage      == NUsers <= PageSize /\ NUsers <= PageCap
NobodyLeaves == \A j \in Jobs : pc[j] = "page" => realm \subseteq realm'
GoodPaging   == OnePage \/ (PageSize <= PageCap /\ NobodyLeaves)

\* Where Keycloak lists a user.
Rank(u) == Cardinality({w \in realm : w < u})

Steps     == {"idle", "service", "actors", "page", "reconcile", "write"}
IsMap(m)  == m = [a \in Actors |-> m[a]]

\* The shape of the state, without the tokens.
Shape ==
    /\ realm \subseteq Users /\ IsMap(token)
    /\ pc \in [Jobs -> Steps]
    /\ svc = [j \in Jobs |-> svc[j]]
    /\ current = [j \in Jobs |-> current[j]] /\ \A j \in Jobs : IsMap(current[j])
    /\ desired = [j \in Jobs |-> desired[j]] /\ \A j \in Jobs : IsMap(desired[j])
    /\ first \in [Jobs -> Nat]
    /\ found = [j \in Jobs |-> found[j]]
    /\ kept \in [Jobs -> SUBSET Users]

\* A run that has read the service map has a service token to write.
ServiceInHand ==
    \A j \in Jobs :
        /\ pc[j] \in {"actors", "page", "reconcile", "write"} => svc[j] # None
        /\ pc[j] = "write" => desired[j][Svc] # None

ServiceInv == Shape /\ ServiceInHand /\ ServiceKept

\* What a run knows of a user who was enabled and not rotated ever since.
KnowsOf(j) ==
    /\ kept[j] \subseteq Enabled
    /\ pc[j] \in {"idle", "service", "actors"} => first[j] = 0 /\ found[j] = {}
    /\ \A u \in kept[j] :
         /\ pc[j] \in {"page", "reconcile", "write"} => current[j][u] = token[u]
         /\ pc[j] = "page" =>
              <<u, TRUE>> \in found[j] \/ (IF OnePage THEN first[j] = 0 ELSE first[j] <= Rank(u))
         /\ pc[j] = "reconcile" => <<u, TRUE>> \in found[j]
         /\ pc[j] = "write" /\ token[u] # None => desired[j][u] = token[u]

Knows == \A j \in Jobs : KnowsOf(j)

CarryInv == Shape /\ Knows

\* What it knows of a user who was not to have a token ever since, and that no
\* user it knows of goes without one.
TellsOf(j) ==
    /\ gone[j] \cap Enabled = {}
    /\ pc[j] = "write" => \A u \in kept[j] : desired[j][u] # None
    /\ \A u \in gone[j] :
         /\ <<u, TRUE>> \in found[j] => u \in Robots
         /\ pc[j] \in {"page", "reconcile", "write"} /\ current[j][u] = None => token[u] = None
         /\ pc[j] = "write" => desired[j][u] = None

Tells == \A j \in Jobs : TellsOf(j)

TruthInv == TypeOK /\ CarryInv /\ Tells

-----------------------------------------------------------------------------

LEMMA Initially == Init => ServiceInv /\ CarryInv
<1> SUFFICES ASSUME Init PROVE ServiceInv /\ CarryInv
  OBVIOUS
<1>1. Shape
  BY DEF Init, Shape, IsMap, NoTokens, Steps
<1>2. ServiceInHand /\ ServiceKept /\ Knows
  BY DEF Init, ServiceInHand, ServiceKept, Knows, KnowsOf
<1> QED BY <1>1, <1>2 DEF ServiceInv, CarryInv

(* A run that is over has forgotten everything.                               *)
LEMMA OverIs ==
    ASSUME Shape, NEW j \in Jobs, Over(j)
    PROVE  /\ pc' = [pc EXCEPT ![j] = "idle"] /\ first' = [first EXCEPT ![j] = 0]
           /\ found' = [found EXCEPT ![j] = {}]
           /\ current' = [current EXCEPT ![j] = NoTokens]
           /\ desired' = [desired EXCEPT ![j] = NoTokens]
           /\ svc' = [svc EXCEPT ![j] = None]
BY DEF Over, Goto

(* Every step keeps the shape.                                                *)
LEMMA ShapeStep == ASSUME Shape, [Next]_vars PROVE Shape'
<1>1. IsMap(NoTokens) /\ \A j \in Jobs : IsMap(Desired(j))
  BY DEF IsMap, NoTokens, Desired
<1>2. ASSUME NEW u \in Users, AddUser(u) \/ RemoveUser(u) \/ ToggleUser(u) PROVE Shape'
  <2>1. realm' \subseteq Users /\ kept' \in [Jobs -> SUBSET Users]
    BY <1>2 DEF Shape, AddUser, RemoveUser, ToggleUser, Note
  <2>2. UNCHANGED <<token, pc, svc, current, desired, first, found>>
    BY <1>2 DEF AddUser, RemoveUser, ToggleUser, vault, memory
  <2> QED BY <2>1, <2>2 DEF Shape, IsMap
<1>3. CASE RotateByHand
  <2>1. PICK S : /\ token' = [a \in Actors |-> IF a \in S THEN None ELSE token[a]]
                 /\ kept' = [j \in Jobs |-> kept[j] \ S]
    BY <1>3 DEF RotateByHand
  <2>2. UNCHANGED <<realm, pc, svc, current, desired, first, found>>
    BY <1>3 DEF RotateByHand, keycloak, memory
  <2>3. IsMap(token') /\ kept' \in [Jobs -> SUBSET Users]
    BY <2>1 DEF Shape, IsMap
  <2> QED BY <2>2, <2>3 DEF Shape, IsMap
<1>4. CASE SetService
  BY <1>4 DEF Shape, IsMap, SetService, keycloak, memory, history
<1>5. ASSUME NEW j \in Jobs, Start(j) PROVE Shape'
  <2>1. /\ pc' = [pc EXCEPT ![j] = "service"] /\ kept' = [kept EXCEPT ![j] = Enabled]
        /\ UNCHANGED <<realm, token, svc, current, desired, first, found>>
    BY <1>5 DEF Start, Goto, keycloak, vault, memory
  <2>2. Enabled \subseteq Users
    BY DEF Shape, Enabled
  <2> QED BY <2>1, <2>2 DEF Shape, IsMap, Steps
<1>6. ASSUME NEW j \in Jobs, ReadService(j) \/ ReadActors(j) PROVE Shape'
  <2>1. pc' \in [Jobs -> Steps]
    BY <1>6 DEF Shape, ReadService, ReadActors, Goto, Steps
  <2>2. svc' = [i \in Jobs |-> svc'[i]] /\ current' = [i \in Jobs |-> current'[i]]
        /\ \A i \in Jobs : IsMap(current'[i])
    <3>1. CASE ReadService(j)
      BY <3>1 DEF Shape, IsMap, ReadService
    <3>2. CASE ReadActors(j)
      <4>1. current' = [current EXCEPT ![j] = token] /\ UNCHANGED svc
        BY <3>2 DEF ReadActors
      <4>2. \A i \in Jobs : current'[i] \in {current[i], token}
        BY <4>1 DEF Shape
      <4>3. current' = [i \in Jobs |-> current'[i]]
        BY <4>1 DEF Shape
      <4> QED BY <4>1, <4>2, <4>3 DEF Shape
    <3> QED BY <1>6, <3>1, <3>2
  <2>3. UNCHANGED <<realm, token, desired, first, found, kept>>
    BY <1>6 DEF ReadService, ReadActors, keycloak, vault, history
  <2> QED BY <2>1, <2>2, <2>3 DEF Shape, IsMap
<1>7. ASSUME NEW j \in Jobs, ReadPage(j) PROVE Shape'
  <2>1. pc' \in [Jobs -> Steps]
    BY <1>7 DEF Shape, ReadPage, Goto, Steps
  <2>2. first' \in [Jobs -> Nat] /\ found' = [i \in Jobs |-> found'[i]]
    <3>1. first' \in {first, [first EXCEPT ![j] = @ + PageSize]}
      BY <1>7 DEF ReadPage
    <3>2. found' = [found EXCEPT ![j] = found'[j]]
      BY <1>7 DEF Shape, ReadPage
    <3> QED BY <3>1, <3>2, SyncAssumption DEF Shape
  <2>3. UNCHANGED <<realm, token, svc, current, desired, kept>>
    BY <1>7 DEF ReadPage, keycloak, vault, history
  <2> QED BY <2>1, <2>2, <2>3 DEF Shape, IsMap
<1>8. ASSUME NEW j \in Jobs, Over(j), IsMap(token'), UNCHANGED <<realm, kept>> PROVE Shape'
  <2>1. /\ pc' \in [Jobs -> Steps] /\ first' \in [Jobs -> Nat]
        /\ svc' = [i \in Jobs |-> svc'[i]] /\ found' = [i \in Jobs |-> found'[i]]
    BY <1>8, OverIs DEF Shape, Steps
  <2>2. current' = [i \in Jobs |-> current'[i]] /\ desired' = [i \in Jobs |-> desired'[i]]
    BY <1>8, OverIs DEF Shape
  <2>3. \A i \in Jobs : IsMap(current'[i]) /\ IsMap(desired'[i])
    <3>1. \A i \in Jobs : current'[i] \in {current[i], NoTokens} /\ desired'[i] \in {desired[i], NoTokens}
      BY <1>8, OverIs DEF Shape
    <3> QED BY <1>1, <3>1 DEF Shape
  <2> QED BY <1>8, <2>1, <2>2, <2>3 DEF Shape
<1>9. ASSUME NEW j \in Jobs, Reconcile(j) PROVE Shape'
  <2>1. UNCHANGED <<realm, token, kept>>
    BY <1>9 DEF Reconcile, keycloak, vault, history
  <2>2. CASE Over(j)
    BY <1>8, <2>1, <2>2 DEF Shape, IsMap
  <2>3. CASE ~Over(j)
    <3>1. /\ pc' = [pc EXCEPT ![j] = "write"] /\ desired' = [desired EXCEPT ![j] = Desired(j)]
          /\ UNCHANGED <<svc, current, first, found>>
      BY <1>9, <2>3 DEF Reconcile, Goto
    <3>2. desired' = [i \in Jobs |-> desired'[i]]
      BY <3>1 DEF Shape
    <3>3. \A i \in Jobs : desired'[i] \in {desired[i], Desired(j)}
      BY <3>1 DEF Shape
    <3>4. \A i \in Jobs : IsMap(desired'[i])
      BY <1>1, <3>3 DEF Shape
    <3>5. pc' \in [Jobs -> Steps]
      BY <3>1 DEF Shape, Steps
    <3>6. IsMap(token') /\ \A i \in Jobs : IsMap(current'[i])
      BY <2>1, <3>1 DEF Shape, IsMap
    <3> QED BY <2>1, <3>1, <3>2, <3>4, <3>5, <3>6 DEF Shape
  <2> QED BY <2>2, <2>3
<1>10. ASSUME NEW j \in Jobs, Write(j) \/ Fail(j) PROVE Shape'
  <2>1. Over(j) /\ token' \in {token, desired[j]} /\ UNCHANGED <<realm, kept>>
    BY <1>10 DEF Write, Fail, keycloak, vault, history
  <2>2. IsMap(token')
    BY <2>1 DEF Shape
  <2> QED BY <1>8, <2>1, <2>2
<1>11. CASE UNCHANGED vars
  BY <1>11 DEF Shape, IsMap, vars, keycloak, vault, memory, history
<1> QED BY <1>2, <1>3, <1>4, <1>5, <1>6, <1>7, <1>9, <1>10, <1>11, Zenon DEF Next, People

-----------------------------------------------------------------------------
(* The service actor *)

(* Every step keeps a service token in the hand of the runs, and in the map.  *)
LEMMA ServiceStep == ServiceInv /\ [Next]_vars => ServiceInv'
<1> SUFFICES ASSUME ServiceInv, [Next]_vars PROVE ServiceInHand' /\ ServiceKept'
  BY ShapeStep DEF ServiceInv
<1> USE DEF ServiceInv
<1>1. ASSUME UNCHANGED <<pc, svc, desired, token>> PROVE ServiceInHand' /\ ServiceKept'
  BY <1>1 DEF ServiceInHand, ServiceKept
<1>2. ASSUME NEW u \in Users, AddUser(u) \/ RemoveUser(u) \/ ToggleUser(u)
      PROVE  ServiceInHand' /\ ServiceKept'
  BY <1>1, <1>2 DEF AddUser, RemoveUser, ToggleUser, vault, memory
<1>3. CASE RotateByHand
  <2>1. PICK S \in {{u} : u \in Users} \cup {Actors} :
            token' = [a \in Actors |-> IF a \in S THEN None ELSE token[a]]
    BY <1>3 DEF RotateByHand
  <2>2. ServiceInHand'
    BY <1>3 DEF RotateByHand, ServiceInHand, memory
  <2>3. CASE S = Actors
    BY <2>1, <2>2, <2>3 DEF ServiceKept, NoTokens
  <2>4. CASE S # Actors
    <3>1. Svc \notin S /\ Svc \in Actors
      BY <2>1, <2>4, SyncAssumption DEF Svc, Users, Actors
    <3>2. token'[Svc] = token[Svc]
      BY <2>1, <3>1
    <3>3. token = NoTokens => token' = NoTokens
      BY <2>1 DEF NoTokens
    <3> QED BY <2>2, <3>2, <3>3 DEF ServiceKept
  <2> QED BY <2>3, <2>4
<1>4. CASE SetService
  BY <1>1, <1>4 DEF SetService, memory
<1>5. ASSUME NEW j \in Jobs, Start(j) PROVE ServiceInHand' /\ ServiceKept'
  <2>1. pc' = [pc EXCEPT ![j] = "service"] /\ UNCHANGED <<svc, desired, token>>
    BY <1>5 DEF Start, Goto, vault, memory
  <2> QED BY <2>1 DEF Shape, ServiceInHand, ServiceKept
<1>6. ASSUME NEW j \in Jobs, ReadService(j) PROVE ServiceInHand' /\ ServiceKept'
  <2>1. /\ pc' = [pc EXCEPT ![j] = "actors"] /\ svc' = [svc EXCEPT ![j] = service]
        /\ service # None /\ UNCHANGED <<desired, token>>
    BY <1>6 DEF ReadService, Goto, vault
  <2> QED BY <2>1 DEF Shape, ServiceInHand, ServiceKept
<1>7. ASSUME NEW j \in Jobs, ReadActors(j) \/ ReadPage(j) PROVE ServiceInHand' /\ ServiceKept'
  <2>1. /\ pc[j] \in {"actors", "page"} /\ UNCHANGED <<svc, desired, token>>
        /\ pc' = pc \/ \E step \in {"page", "reconcile"} : pc' = [pc EXCEPT ![j] = step]
    BY <1>7 DEF ReadActors, ReadPage, Goto, vault
  <2> QED BY <2>1 DEF Shape, ServiceInHand, ServiceKept
<1>8. ASSUME NEW j \in Jobs, Over(j) PROVE ServiceInHand'
  BY <1>8, OverIs DEF Shape, ServiceInHand
<1>9. ASSUME NEW j \in Jobs, Reconcile(j) PROVE ServiceInHand' /\ ServiceKept'
  <2>1. ServiceKept'
    BY <1>9 DEF Reconcile, ServiceKept, vault
  <2>2. CASE ~Over(j)
    <3>1. /\ pc[j] = "reconcile" /\ pc' = [pc EXCEPT ![j] = "write"]
          /\ desired' = [desired EXCEPT ![j] = Desired(j)] /\ UNCHANGED svc
      BY <1>9, <2>2 DEF Reconcile, Goto
    <3>2. Desired(j)[Svc] = svc[j]
      BY DEF Desired, Actors
    <3> QED BY <2>1, <3>1, <3>2 DEF Shape, ServiceInHand
  <2> QED BY <1>8, <2>1, <2>2
<1>10. ASSUME NEW j \in Jobs, Write(j) PROVE ServiceInHand' /\ ServiceKept'
  <2>1. ServiceKept'
    BY <1>10 DEF Write, ServiceInHand, ServiceKept
  <2> QED BY <1>8, <1>10, <2>1 DEF Write
<1>11. ASSUME NEW j \in Jobs, Fail(j) PROVE ServiceInHand' /\ ServiceKept'
  <2>1. ServiceKept'
    BY <1>11 DEF Fail, ServiceKept, vault
  <2> QED BY <1>8, <1>11, <2>1 DEF Fail
<1>12. CASE UNCHANGED vars
  BY <1>1, <1>12 DEF vars, vault, memory
<1> QED BY <1>2, <1>3, <1>4, <1>5, <1>6, <1>7, <1>9, <1>10, <1>11, <1>12, Zenon DEF Next, People

(* Whatever runs overlap, fail or are killed, and whatever people change: a   *)
(* map that holds anything holds the service actor.                           *)
THEOREM ServiceStays == Spec => []ServiceKept
<1>1. Init => ServiceInv
  BY Initially
<1>2. ServiceInv => ServiceKept
  BY DEF ServiceInv
<1> QED BY <1>1, <1>2, ServiceStep, PTL DEF Spec

-----------------------------------------------------------------------------
(* Ranks: how pages and mints count.                                          *)

(* Of numbers in 1..n, fewer than n are below any one of them.                *)
LEMMA RankBound ==
    ASSUME NEW n \in Nat, NEW S \in SUBSET (1..n), NEW x \in S
    PROVE  Cardinality({s \in S : s < x}) \in 0..(n - 1)
<1> DEFINE B == {s \in S : s < x}
<1>1. x \in 1..n
  OBVIOUS
<1>2. B \in SUBSET (1..(x - 1))
  <2>1. ASSUME NEW w \in B PROVE w \in 1..(x - 1)
    <3>1. w \in S /\ w < x
      OBVIOUS
    <3>2. w \in 1..n
      BY <3>1
    <3> QED BY <1>1, <3>1, <3>2
  <2> HIDE DEF B
  <2> QED BY <2>1
<1>3. IsFiniteSet(1..(x - 1)) /\ Cardinality(1..(x - 1)) = x - 1
  BY <1>1, FS_Interval
<1>4. IsFiniteSet(B) /\ Cardinality(B) <= x - 1
  BY <1>2, <1>3, FS_Subset
<1>5. Cardinality(B) \in Nat
  BY <1>4, FS_CardinalityType
<1> QED BY <1>1, <1>4, <1>5

(* The larger of two numbers has the higher rank.                             *)
LEMMA RankGrows ==
    ASSUME NEW S \in SUBSET Int, IsFiniteSet(S), NEW x \in S, NEW y \in S, x < y
    PROVE  Cardinality({s \in S : s < x}) < Cardinality({s \in S : s < y})
<1> DEFINE B == {s \in S : s < x}
           C == {s \in S : s < y}
<1>1. B \in SUBSET C /\ x \in C /\ x \notin B
  <2>1. x \in Int /\ y \in Int /\ x \in C
    OBVIOUS
  <2>2. ASSUME NEW s \in S, s < x PROVE s < y
    <3>1. s \in Int
      OBVIOUS
    <3> QED BY <2>1, <2>2, <3>1
  <2>3. B \subseteq C
    BY <2>2
  <2>4. x \notin B
    BY <2>1
  <2> QED BY <2>1, <2>3, <2>4
<1>2. IsFiniteSet(C)
  BY FS_Subset
<1>3. IsFiniteSet(B) /\ Cardinality(B) <= Cardinality(C) /\ Cardinality(C) # Cardinality(B)
  BY <1>1, <1>2, FS_Subset
<1>4. Cardinality(B) \in Nat /\ Cardinality(C) \in Nat
  BY <1>2, <1>3, FS_CardinalityType
<1> QED BY <1>3, <1>4

(* No two numbers have the same rank.                                         *)
LEMMA RankTells ==
    ASSUME NEW S \in SUBSET Int, IsFiniteSet(S), NEW x \in S, NEW y \in S,
           Cardinality({s \in S : s < x}) = Cardinality({s \in S : s < y})
    PROVE  x = y
<1> SUFFICES ASSUME x # y PROVE FALSE
  OBVIOUS
<1> DEFINE rank(z) == Cardinality({s \in S : s < z})
<1>1. \A z \in S : rank(z) \in Nat
  <2> SUFFICES ASSUME NEW z \in S PROVE rank(z) \in Nat
    OBVIOUS
  <2>1. IsFiniteSet({s \in S : s < z})
    BY FS_Subset
  <2> QED BY <2>1, FS_CardinalityType
<1>2. rank(x) \in Nat /\ rank(y) \in Nat /\ rank(x) = rank(y)
  BY <1>1
<1>3. CASE x < y
  <2>1. rank(x) < rank(y)
    BY <1>3, RankGrows
  <2> QED BY <1>2, <2>1
<1>4. CASE y < x
  <2>1. rank(y) < rank(x)
    BY <1>4, RankGrows
  <2> QED BY <1>2, <2>1
<1>5. x \in Int /\ y \in Int
  OBVIOUS
<1> QED BY <1>3, <1>4, <1>5

(* Of m positive numbers, one has each of the ranks 0..(m - 1).               *)
LEMMA RankFound ==
    ASSUME NEW n \in Nat, NEW S \in SUBSET (1..n), NEW k \in 0..(Cardinality(S) - 1)
    PROVE  \E x \in S : Cardinality({s \in S : s < x}) = k
<1> DEFINE m == Cardinality(S)
           T == 0..(m - 1)
           rank == [x \in S |-> Cardinality({s \in S : s < x})]
<1>1. IsFiniteSet(S) /\ m \in Nat
  <2>1. IsFiniteSet(1..n)
    BY FS_Interval
  <2>2. IsFiniteSet(S)
    BY <2>1, FS_Subset
  <2> QED BY <2>2, FS_CardinalityType
<1>2. S \in SUBSET Int
  OBVIOUS
<1>3. \A x, y \in S : rank[x] = rank[y] => x = y
  <2> SUFFICES ASSUME NEW x \in S, NEW y \in S, rank[x] = rank[y] PROVE x = y
    OBVIOUS
  <2>1. Cardinality({s \in S : s < x}) = Cardinality({s \in S : s < y})
    OBVIOUS
  <2> QED BY <1>1, <1>2, <2>1, RankTells
<1>4. ASSUME NEW x \in S PROVE rank[x] \in T
  <2> DEFINE B == {s \in S : s < x}
  <2>1. B \in SUBSET S /\ x \notin B
    BY <1>2
  <2>2. IsFiniteSet(B) /\ Cardinality(B) <= m /\ Cardinality(B) # m
    BY <1>1, <2>1, FS_Subset
  <2>3. Cardinality(B) \in Nat
    BY <2>2, FS_CardinalityType
  <2> QED BY <1>1, <2>2, <2>3
<1>5. rank \in Injection(S, T)
  BY <1>3, <1>4, Fun_IsInj
<1>6. IsFiniteSet(T) /\ Cardinality(T) = m
  BY <1>1, FS_Interval
<1>7. rank \in Surjection(S, T)
  BY <1>5, <1>6, FS_Injection
<1>8. PICK x \in S : rank[x] = k
  <2> HIDE DEF rank, T
  <2>1. \A t \in T : \E x \in S : rank[x] = t
    BY <1>7 DEF Surjection
  <2> QED BY <2>1 DEF T
<1> QED BY <1>8

LEMMA RankIsNat == ASSUME realm \subseteq Users PROVE \A u : Rank(u) \in Nat
<1> SUFFICES ASSUME NEW u PROVE Rank(u) \in Nat
  OBVIOUS
<1>1. IsFiniteSet(1..NUsers)
  BY FS_Interval, SyncAssumption
<1>2. {w \in realm : w < u} \in SUBSET (1..NUsers)
  BY DEF Users
<1>3. IsFiniteSet({w \in realm : w < u})
  BY <1>1, <1>2, FS_Subset
<1> QED BY <1>3, FS_CardinalityType DEF Rank

(* Who joins the realm moves nobody forward in it.                            *)
LEMMA RankRises ==
    ASSUME realm \subseteq Users, realm' \subseteq Users, realm \subseteq realm'
    PROVE  \A u : Rank(u) <= Rank(u)' /\ Rank(u) \in Nat /\ Rank(u)' \in Nat
<1> SUFFICES ASSUME NEW u PROVE Rank(u) <= Rank(u)' /\ Rank(u) \in Nat /\ Rank(u)' \in Nat
  OBVIOUS
<1>1. IsFiniteSet(1..NUsers)
  BY FS_Interval, SyncAssumption
<1>2. {w \in realm' : w < u} \in SUBSET (1..NUsers)
  BY DEF Users
<1>3. IsFiniteSet({w \in realm' : w < u})
  BY <1>1, <1>2, FS_Subset
<1>4. {w \in realm : w < u} \in SUBSET {w \in realm' : w < u}
  OBVIOUS
<1>5. Cardinality({w \in realm : w < u}) <= Cardinality({w \in realm' : w < u})
  BY <1>3, <1>4, FS_Subset
<1>6. Cardinality({w \in realm' : w < u}) \in Nat
  BY <1>3, FS_CardinalityType
<1> QED BY <1>5, <1>6, RankIsNat DEF Rank

(* A full page leaves its users behind: the next offset is within the realm.  *)
LEMMA FullPage ==
    ASSUME realm \subseteq Users, NEW f \in Nat, Cardinality(Page(f)) >= PageSize
    PROVE  f + PageSize <= NUsers
<1> DEFINE P == Page(f)
           below(u) == Cardinality({w \in realm : w < u})
           rank == [u \in P |-> below(u)]
           T == f..(NUsers - 1)
<1>1. realm \in SUBSET (1..NUsers) /\ realm \in SUBSET Int /\ P \in SUBSET realm
  BY DEF Page, Users
<1>2. IsFiniteSet(realm) /\ IsFiniteSet(P)
  <2>1. IsFiniteSet(1..NUsers)
    BY FS_Interval, SyncAssumption
  <2> QED BY <1>1, <2>1, FS_Subset
<1>3. \A u \in P : rank[u] \in T
  <2> SUFFICES ASSUME NEW u \in P PROVE below(u) \in T
    OBVIOUS
  <2>1. below(u) \in 0..(NUsers - 1)
    BY <1>1, RankBound, SyncAssumption
  <2>2. f <= below(u)
    BY DEF Page
  <2> QED BY <2>1, <2>2, SyncAssumption
<1>4. \A u, v \in P : rank[u] = rank[v] => u = v
  <2> SUFFICES ASSUME NEW u \in P, NEW v \in P, below(u) = below(v) PROVE u = v
    OBVIOUS
  <2>1. u \in realm /\ v \in realm
    BY <1>1
  <2> QED BY <1>1, <1>2, <2>1, RankTells
<1>5. rank \in Injection(P, T)
  BY <1>3, <1>4, Fun_IsInj
<1>6. IsFiniteSet(T) /\ Cardinality(T) = IF f > NUsers - 1 THEN 0 ELSE NUsers - f
  <2>1. f \in Int /\ NUsers - 1 \in Int
    BY SyncAssumption
  <2>2. IsFiniteSet(T) /\ Cardinality(T) = IF f > NUsers - 1 THEN 0 ELSE (NUsers - 1) - f + 1
    BY <2>1, FS_Interval
  <2>3. (NUsers - 1) - f + 1 = NUsers - f
    BY SyncAssumption
  <2> QED BY <2>2, <2>3
<1>7. Cardinality(P) <= Cardinality(T)
  BY <1>5, <1>6, FS_Injection
<1>8. Cardinality(P) \in Nat
  BY <1>2, FS_CardinalityType
<1> HIDE DEF P, T
<1> QED BY <1>6, <1>7, <1>8, SyncAssumption DEF P

-----------------------------------------------------------------------------
(* Mints *)

(* Actors, and what the runs hold of them, are finitely many.                 *)
LEMMA ActorsFinite ==
    /\ IsFiniteSet(Actors) /\ Cardinality(Actors) \in Nat
    /\ IsFiniteSet(Jobs \X Actors) /\ Cardinality(Jobs \X Actors) \in Nat
<1>1. IsFiniteSet(1..NUsers)
  BY FS_Interval, SyncAssumption
<1>2. IsFiniteSet(Actors)
  BY <1>1, FS_AddElement DEF Actors, Users
<1>3. IsFiniteSet(Jobs \X Actors)
  BY <1>2, FS_Product, SyncAssumption
<1> QED BY <1>2, <1>3, FS_CardinalityType

(* The values that the maps and the runs hold are fewer than there are tokens.*)
LEMMA HeldIsSmall ==
    /\ IsFiniteSet(Held) /\ Cardinality(Held) \in Nat
    /\ Cardinality(Held) <= 1 + Cardinality(Actors) + 2 * Cardinality(Jobs \X Actors)
<1> DEFINE A == Cardinality(Actors)
           JA == Cardinality(Jobs \X Actors)
           T == {token[a] : a \in Actors}
           C == {current[p[1]][p[2]] : p \in Jobs \X Actors}
           D == {desired[p[1]][p[2]] : p \in Jobs \X Actors}
<1>1. IsFiniteSet(Actors) /\ A \in Nat
  BY ActorsFinite
<1>2. IsFiniteSet(Jobs \X Actors) /\ JA \in Nat
  BY ActorsFinite
<1>3. ASSUME NEW S, IsFiniteSet(S), NEW f, f = [x \in S |-> f[x]],
             NEW R, R = {f[x] : x \in S}
      PROVE  IsFiniteSet(R) /\ Cardinality(R) \in Nat /\ Cardinality(R) <= Cardinality(S)
  <2>1. f \in [S -> R] /\ \A r \in R : \E x \in S : f[x] = r
    BY <1>3
  <2>2. f \in Surjection(S, R)
    BY <2>1, Fun_IsSurj
  <2>3. IsFiniteSet(R) /\ Cardinality(R) <= Cardinality(S)
    BY <1>3, <2>2, FS_Surjection
  <2> QED BY <2>3, FS_CardinalityType
<1>4. IsFiniteSet(T) /\ Cardinality(T) \in Nat /\ Cardinality(T) <= A
  <2> DEFINE f == [a \in Actors |-> token[a]]
  <2>1. f = [a \in Actors |-> f[a]] /\ T = {f[a] : a \in Actors}
    OBVIOUS
  <2> HIDE DEF f, T
  <2> QED BY <1>1, <1>3, <2>1
<1>5. IsFiniteSet(C) /\ Cardinality(C) \in Nat /\ Cardinality(C) <= JA
  <2> DEFINE f == [p \in Jobs \X Actors |-> current[p[1]][p[2]]]
  <2>1. f = [p \in Jobs \X Actors |-> f[p]] /\ C = {f[p] : p \in Jobs \X Actors}
    OBVIOUS
  <2> HIDE DEF f, C
  <2> QED BY <1>2, <1>3, <2>1
<1>6. IsFiniteSet(D) /\ Cardinality(D) \in Nat /\ Cardinality(D) <= JA
  <2> DEFINE f == [p \in Jobs \X Actors |-> desired[p[1]][p[2]]]
  <2>1. f = [p \in Jobs \X Actors |-> f[p]] /\ D = {f[p] : p \in Jobs \X Actors}
    OBVIOUS
  <2> HIDE DEF f, D
  <2> QED BY <1>2, <1>3, <2>1
<1>7. IsFiniteSet({service}) /\ Cardinality({service}) = 1
  BY FS_Singleton
<1>8. Held = (({service} \cup T) \cup C) \cup D
  <2>1. ASSUME NEW j \in Jobs, NEW a \in Actors
        PROVE  current[j][a] \in C /\ desired[j][a] \in D
    <3>1. <<j, a>> \in Jobs \X Actors /\ <<j, a>>[1] = j /\ <<j, a>>[2] = a
      OBVIOUS
    <3> QED BY <3>1
  <2>2. ASSUME NEW h \in Held PROVE h \in (({service} \cup T) \cup C) \cup D
    <3> HIDE DEF C, D
    <3> QED BY <2>1 DEF Held
  <2>3. ASSUME NEW p \in Jobs \X Actors PROVE current[p[1]][p[2]] \in Held /\ desired[p[1]][p[2]] \in Held
    <3>1. p[1] \in Jobs /\ p[2] \in Actors
      OBVIOUS
    <3> QED BY <3>1 DEF Held
  <2>4. {service} \cup T \subseteq Held
    BY DEF Held
  <2> QED BY <2>2, <2>3, <2>4
<1> HIDE DEF T, C, D, A, JA
<1>9. ASSUME NEW S, NEW R, IsFiniteSet(S), IsFiniteSet(R)
      PROVE  /\ IsFiniteSet(S \cup R) /\ Cardinality(S \cup R) \in Nat
             /\ Cardinality(S \cup R) <= Cardinality(S) + Cardinality(R)
  <2>1. IsFiniteSet(S \cup R) /\ Cardinality(S \cup R) = Cardinality(S) + Cardinality(R) - Cardinality(S \cap R)
    BY <1>9, FS_Union
  <2>2. IsFiniteSet(S \cap R)
    BY <1>9, FS_Intersection
  <2>3. Cardinality(S) \in Nat /\ Cardinality(R) \in Nat /\ Cardinality(S \cap R) \in Nat /\ Cardinality(S \cup R) \in Nat
    BY <1>9, <2>1, <2>2, FS_CardinalityType
  <2> QED BY <2>1, <2>3
<1>10. IsFiniteSet({service} \cup T) /\ Cardinality({service} \cup T) \in Nat
       /\ Cardinality({service} \cup T) <= 1 + A
  <2>1. Cardinality({service} \cup T) <= Cardinality({service}) + Cardinality(T)
    BY <1>4, <1>7, <1>9
  <2> QED BY <1>1, <1>4, <1>7, <1>9, <2>1
<1>11. IsFiniteSet(({service} \cup T) \cup C) /\ Cardinality(({service} \cup T) \cup C) \in Nat
       /\ Cardinality(({service} \cup T) \cup C) <= 1 + A + JA
  <2>1. Cardinality(({service} \cup T) \cup C) <= Cardinality({service} \cup T) + Cardinality(C)
    BY <1>5, <1>10, <1>9
  <2>2. IsFiniteSet(({service} \cup T) \cup C) /\ Cardinality(({service} \cup T) \cup C) \in Nat
    BY <1>5, <1>10, <1>9
  <2> QED BY <1>1, <1>2, <1>5, <1>10, <2>1, <2>2
<1>12. IsFiniteSet(Held) /\ Cardinality(Held) \in Nat /\ Cardinality(Held) <= 1 + A + JA + JA
  <2>1. Cardinality(Held) <= Cardinality(({service} \cup T) \cup C) + Cardinality(D)
    BY <1>6, <1>8, <1>11, <1>9
  <2>2. IsFiniteSet(Held) /\ Cardinality(Held) \in Nat
    BY <1>6, <1>8, <1>11, <1>9
  <2> QED BY <1>1, <1>2, <1>6, <1>11, <2>1, <2>2
<1> QED BY <1>1, <1>2, <1>12 DEF A, JA

(* A minted token is one that no map and no run holds.                        *)
LEMMA MintIsNew ==
    ASSUME NEW u \in Users
    PROVE  /\ Mint(u) \in Tokens \ Held
           /\ Cardinality({s \in Tokens \ Held : s < Mint(u)}) = u - 1
<1> DEFINE free == Tokens \ Held
<1>1. IsFiniteSet(Tokens) /\ Cardinality(Tokens) = NTokens
  BY FS_Interval, SyncAssumption DEF Tokens
<1>2. IsFiniteSet(free) /\ Cardinality(free) = NTokens - Cardinality(Tokens \cap Held)
  BY <1>1, FS_Difference
<1>3. Cardinality(Tokens \cap Held) \in Nat /\ Cardinality(Tokens \cap Held) <= Cardinality(Held)
  BY HeldIsSmall, FS_Intersection, FS_CardinalityType
<1>4. Cardinality(Actors) \in Nat /\ Cardinality(Jobs \X Actors) \in Nat
  BY ActorsFinite
<1>5. Cardinality(free) \in Nat /\ Cardinality(free) >= NUsers
  <2>1. Cardinality(Held) \in Nat
        /\ Cardinality(Held) <= 1 + Cardinality(Actors) + 2 * Cardinality(Jobs \X Actors)
    BY HeldIsSmall
  <2> QED BY <1>2, <1>3, <1>4, <2>1, SyncAssumption
<1>6. u - 1 \in 0..(Cardinality(free) - 1)
  BY <1>5, SyncAssumption DEF Users
<1>7. free \in SUBSET (1..NTokens) /\ NTokens \in Nat
  BY SyncAssumption DEF Tokens
<1>8. \E t \in free : Cardinality({s \in free : s < t}) = u - 1
  <2> HIDE DEF free
  <2> QED BY <1>6, <1>7, RankFound
<1> QED BY <1>8 DEF Mint

-----------------------------------------------------------------------------
(* Types *)

LEMMA TypeInit == Init => TypeOK
BY SyncAssumption DEF Init, TypeOK, Map, NoTokens, None

(* The map a run computes is one: what it mints are tokens.                   *)
LEMMA DesiredIsMap == ASSUME TypeOK, NEW j \in Jobs PROVE Desired(j) \in Map
<1>1. ASSUME NEW a \in Actors, a # Svc PROVE Mint(a) \in Tokens
  <2>1. a \in Users
    BY <1>1 DEF Actors
  <2> QED BY <2>1, MintIsNew
<1>2. svc[j] \in Tokens \cup {None} /\ \A a \in Actors : current[j][a] \in Tokens \cup {None}
  BY DEF TypeOK, Map
<1>3. ASSUME NEW a \in Actors PROVE Desired(j)[a] \in Tokens \cup {None}
  BY <1>1, <1>2 DEF Desired
<1> QED BY <1>3 DEF Desired, Map

(* A page read stays within the realm.                                        *)
LEMMA TypePage == ASSUME TypeOK, NEW j \in Jobs, ReadPage(j) PROVE TypeOK'
<1> DEFINE batch == Page(first[j])
<1>1. /\ found' = [found EXCEPT ![j] = @ \cup {<<u, u \notin disabled>> : u \in batch}]
      /\ IF Cardinality(batch) < PageSize
           THEN pc' = [pc EXCEPT ![j] = "reconcile"] /\ UNCHANGED first
           ELSE first' = [first EXCEPT ![j] = @ + PageSize] /\ UNCHANGED pc
      /\ UNCHANGED <<realm, disabled, service, token, changes, deploys, svc, current, desired, kept, gone>>
  BY DEF ReadPage, Goto, keycloak, vault, history
<1>2. batch \subseteq Users /\ realm \subseteq Users /\ first[j] \in Nat
  BY SyncAssumption DEF Page, TypeOK
<1>3. found' \in [Jobs -> SUBSET (Users \X BOOLEAN)]
  <2>1. \A u \in batch : <<u, u \notin disabled>> \in Users \X BOOLEAN
    BY <1>2
  <2>2. {<<u, u \notin disabled>> : u \in batch} \subseteq Users \X BOOLEAN
    BY <2>1
  <2> HIDE DEF batch
  <2>3. found \in [Jobs -> SUBSET (Users \X BOOLEAN)]
    BY DEF TypeOK
  <2> QED BY <1>1, <2>2, <2>3
<1>4. pc' \in [Jobs -> {"idle", "service", "actors", "page", "reconcile", "write"}]
  BY <1>1 DEF TypeOK
<1>5. first' \in [Jobs -> 0..NUsers]
  <2>1. CASE Cardinality(batch) < PageSize
    BY <1>1, <2>1 DEF TypeOK
  <2>2. CASE ~(Cardinality(batch) < PageSize)
    <3>1. Cardinality(batch) \in Nat
      <4>1. IsFiniteSet(1..NUsers)
        BY FS_Interval, SyncAssumption
      <4>2. IsFiniteSet(batch)
        BY <1>2, <4>1, FS_Subset DEF Users
      <4> QED BY <4>2, FS_CardinalityType
    <3>2. Cardinality(batch) >= PageSize
      BY <2>2, <3>1, SyncAssumption
    <3>3. first[j] + PageSize <= NUsers
      BY <1>2, <3>2, FullPage
    <3>4. first[j] + PageSize \in 0..NUsers
      BY <1>2, <3>3, SyncAssumption
    <3>5. first' = [first EXCEPT ![j] = first[j] + PageSize]
      BY <1>1, <2>2
    <3> HIDE DEF batch
    <3> QED BY <3>4, <3>5 DEF TypeOK
  <2> QED BY <2>1, <2>2
<1> QED BY <1>1, <1>3, <1>4, <1>5 DEF TypeOK

(* A run that ends leaves the types alone if the map it wrote is one.         *)
LEMMA TypeOver ==
    ASSUME TypeOK, NEW j \in Jobs, Over(j), token' \in Map,
           UNCHANGED <<realm, disabled, service, changes, deploys, kept, gone>>
    PROVE  TypeOK'
<1>1. NoTokens \in Map /\ None \in Tokens \cup {None} /\ 0 \in 0..NUsers
  BY SyncAssumption DEF NoTokens, Map
<1>2. /\ pc' = [pc EXCEPT ![j] = "idle"] /\ svc' = [svc EXCEPT ![j] = None]
      /\ current' = [current EXCEPT ![j] = NoTokens]
      /\ first' = [first EXCEPT ![j] = 0] /\ found' = [found EXCEPT ![j] = {}]
      /\ desired' = [desired EXCEPT ![j] = NoTokens]
  BY DEF Over, Goto
<1>3. current' \in [Jobs -> Map] /\ desired' \in [Jobs -> Map]
  BY <1>1, <1>2 DEF TypeOK
<1>4. pc' \in [Jobs -> {"idle", "service", "actors", "page", "reconcile", "write"}]
  BY <1>2 DEF TypeOK
<1>5. svc' \in [Jobs -> Tokens \cup {None}]
  BY <1>1, <1>2 DEF TypeOK
<1>6. first' \in [Jobs -> 0..NUsers]
  BY <1>1, <1>2 DEF TypeOK
<1>7. found' \in [Jobs -> SUBSET (Users \X BOOLEAN)]
  BY <1>2 DEF TypeOK
<1> QED BY <1>3, <1>4, <1>5, <1>6, <1>7 DEF TypeOK

(* Every step keeps the types.                                                *)
LEMMA TypeStep == ASSUME TypeOK, [Next]_vars PROVE TypeOK'
<1> USE SyncAssumption
<1>1. Enabled \subseteq Users
  BY DEF TypeOK, Enabled
<1>2. Change => changes' \in 0..MaxChanges
  BY DEF Change, TypeOK
<1>3. ASSUME NEW u \in Users, AddUser(u) \/ RemoveUser(u) \/ ToggleUser(u) PROVE TypeOK'
  <2>1. /\ realm' \subseteq Users /\ disabled' \subseteq Users /\ changes' \in 0..MaxChanges
        /\ kept' \in [Jobs -> SUBSET Users] /\ gone' \in [Jobs -> SUBSET Users]
    BY <1>2, <1>3 DEF TypeOK, AddUser, RemoveUser, ToggleUser, Note
  <2>2. UNCHANGED <<service, token, deploys, pc, svc, current, desired, first, found>>
    BY <1>3 DEF AddUser, RemoveUser, ToggleUser, vault, memory
  <2> QED BY <2>1, <2>2 DEF TypeOK
<1>4. CASE RotateByHand
  <2>1. PICK S : /\ token' = [a \in Actors |-> IF a \in S THEN None ELSE token[a]]
                 /\ kept' = [j \in Jobs |-> kept[j] \ S]
    BY <1>4 DEF RotateByHand
  <2>2. token' \in Map
    BY <2>1 DEF TypeOK, Map
  <2>3. kept' \in [Jobs -> SUBSET Users]
    BY <2>1 DEF TypeOK
  <2>4. /\ changes' \in 0..MaxChanges
        /\ UNCHANGED <<realm, disabled, service, deploys, pc, svc, current, desired, first, found, gone>>
    BY <1>2, <1>4 DEF RotateByHand, keycloak, memory
  <2> QED BY <2>2, <2>3, <2>4 DEF TypeOK
<1>5. CASE SetService
  <2>1. Max(Tokens) \in Tokens
    <3>1. NTokens \in Nat /\ NTokens >= 1
      BY ActorsFinite
    <3>2. \E x \in Tokens : \A y \in Tokens : x >= y
      BY <3>1 DEF Tokens
    <3> QED BY <3>2 DEF Max
  <2>2. service' \in Tokens \cup {None} /\ changes' \in 0..MaxChanges
    BY <1>2, <1>5, <2>1 DEF SetService
  <2>3. UNCHANGED <<realm, disabled, token, deploys, pc, svc, current, desired, first, found, kept, gone>>
    BY <1>5 DEF SetService, keycloak, memory, history
  <2> QED BY <2>2, <2>3 DEF TypeOK
<1>6. ASSUME NEW j \in Jobs, Start(j) PROVE TypeOK'
  <2>1. /\ pc' = [pc EXCEPT ![j] = "service"] /\ kept' = [kept EXCEPT ![j] = Enabled]
        /\ gone' = [gone EXCEPT ![j] = Users \ Enabled]
        /\ UNCHANGED <<realm, disabled, service, token, changes, svc, current, desired, first, found>>
    BY <1>6 DEF Start, Goto, keycloak, vault, memory
  <2>2. deploys' \in 0..MaxDeploys
    BY <1>6 DEF Start, TypeOK
  <2>3. kept' \in [Jobs -> SUBSET Users] /\ gone' \in [Jobs -> SUBSET Users]
    BY <1>1, <2>1 DEF TypeOK
  <2>4. pc' \in [Jobs -> {"idle", "service", "actors", "page", "reconcile", "write"}]
    BY <2>1 DEF TypeOK
  <2> QED BY <2>1, <2>2, <2>3, <2>4 DEF TypeOK
<1>7. ASSUME NEW j \in Jobs, ReadService(j) PROVE TypeOK'
  <2>1. /\ pc' = [pc EXCEPT ![j] = "actors"] /\ svc' = [svc EXCEPT ![j] = service]
        /\ UNCHANGED <<realm, disabled, service, token, changes, deploys, current, desired, first, found, kept, gone>>
    BY <1>7 DEF ReadService, Goto, keycloak, vault, history
  <2>2. pc' \in [Jobs -> {"idle", "service", "actors", "page", "reconcile", "write"}]
    BY <2>1 DEF TypeOK
  <2>3. svc' \in [Jobs -> Tokens \cup {None}]
    BY <2>1 DEF TypeOK
  <2> QED BY <2>1, <2>2, <2>3 DEF TypeOK
<1>8. ASSUME NEW j \in Jobs, ReadActors(j) PROVE TypeOK'
  <2>1. /\ pc' = [pc EXCEPT ![j] = "page"] /\ current' = [current EXCEPT ![j] = token]
        /\ UNCHANGED <<realm, disabled, service, token, changes, deploys, svc, desired, first, found, kept, gone>>
    BY <1>8 DEF ReadActors, Goto, keycloak, vault, history
  <2>2. pc' \in [Jobs -> {"idle", "service", "actors", "page", "reconcile", "write"}]
    BY <2>1 DEF TypeOK
  <2>3. current' \in [Jobs -> Map]
    BY <2>1 DEF TypeOK
  <2> QED BY <2>1, <2>2, <2>3 DEF TypeOK
<1>9. ASSUME NEW j \in Jobs, Reconcile(j) PROVE TypeOK'
  <2>1. UNCHANGED <<realm, disabled, service, token, changes, deploys, kept, gone>>
    BY <1>9 DEF Reconcile, keycloak, vault, history
  <2>2. CASE Over(j)
    BY <2>1, <2>2, TypeOver DEF TypeOK
  <2>3. CASE ~Over(j)
    <3>1. /\ pc' = [pc EXCEPT ![j] = "write"] /\ desired' = [desired EXCEPT ![j] = Desired(j)]
          /\ UNCHANGED <<svc, current, first, found>>
      BY <1>9, <2>3 DEF Reconcile, Goto
    <3>2. desired' \in [Jobs -> Map]
      BY <3>1, DesiredIsMap DEF TypeOK
    <3>3. pc' \in [Jobs -> {"idle", "service", "actors", "page", "reconcile", "write"}]
      BY <3>1 DEF TypeOK
    <3> QED BY <2>1, <3>1, <3>2, <3>3 DEF TypeOK
  <2> QED BY <2>2, <2>3
<1>10. ASSUME NEW j \in Jobs, Write(j) \/ Fail(j) PROVE TypeOK'
  <2>1. /\ Over(j) /\ token' \in {token, desired[j]}
        /\ UNCHANGED <<realm, disabled, service, changes, deploys, kept, gone>>
    BY <1>10 DEF Write, Fail, keycloak, vault, history
  <2>2. token' \in Map
    BY <2>1 DEF TypeOK
  <2> QED BY <2>1, <2>2, TypeOver
<1>11. CASE UNCHANGED vars
  BY <1>11 DEF TypeOK, vars, keycloak, vault, memory, history
<1> QED BY <1>3, <1>4, <1>5, <1>6, <1>7, <1>8, <1>9, <1>10, <1>11, TypePage, Zenon DEF Next, People

(* Every value keeps to its type: a mint never runs dry, and the paging of a  *)
(* realm ends before its last user.                                           *)
THEOREM TypeCorrect == Spec => []TypeOK
<1>1. Init => TypeOK
  BY TypeInit
<1>2. TypeOK /\ [Next]_vars => TypeOK'
  BY TypeStep
<1> QED BY <1>1, <1>2, PTL DEF Spec

-----------------------------------------------------------------------------
(* The users' tokens *)

(* With room for all users in a page, the first page is the whole realm.      *)
LEMMA FirstPage == ASSUME OnePage, realm \subseteq Users PROVE Page(0) = realm
<1>1. Min({PageSize, PageCap}) \in Nat /\ Min({PageSize, PageCap}) >= NUsers
  <2>1. \E x \in {PageSize, PageCap} : \A y \in {PageSize, PageCap} : x <= y
    BY SyncAssumption
  <2>2. Min({PageSize, PageCap}) \in {PageSize, PageCap}
    BY <2>1 DEF Min
  <2> QED BY <2>2, SyncAssumption DEF OnePage
<1>2. ASSUME NEW u \in realm
      PROVE  LET rank == Cardinality({w \in realm : w < u}) IN rank \in Nat /\ rank < NUsers
  <2>1. realm \in SUBSET (1..NUsers)
    BY DEF Users
  <2>2. Cardinality({w \in realm : w < u}) \in 0..(NUsers - 1)
    BY <2>1, RankBound, SyncAssumption
  <2> QED BY <2>2, SyncAssumption
<1>3. \A u \in realm : LET rank == Cardinality({w \in realm : w < u})
                       IN 0 <= rank /\ rank < 0 + Min({PageSize, PageCap})
  BY <1>1, <1>2, SyncAssumption
<1> QED BY <1>3 DEF Page

(* A page that misses a user who comes after its offset is full, and the next *)
(* page does not begin after that user: a short page is the last one.         *)
LEMMA NotLastPage ==
    ASSUME PageSize <= PageCap, realm \subseteq Users, NEW f \in Nat,
           NEW u \in realm, f <= Rank(u), u \notin Page(f)
    PROVE  f + PageSize <= Rank(u) /\ ~(Cardinality(Page(f)) < PageSize)
<1> DEFINE P == Page(f)
           T == f..(f + PageSize - 1)
           at == [k \in T |-> CHOOSE x \in realm : Rank(x) = k]
<1>1. realm \in SUBSET (1..NUsers) /\ realm \in SUBSET Int /\ NUsers \in Nat
  BY SyncAssumption DEF Users
<1>2. IsFiniteSet(realm) /\ Cardinality(realm) \in Nat
  <2>1. IsFiniteSet(1..NUsers)
    BY <1>1, FS_Interval
  <2> QED BY <1>1, <2>1, FS_Subset, FS_CardinalityType
<1>3. Min({PageSize, PageCap}) = PageSize
  BY SyncAssumption DEF Min
<1>4. \A x \in realm : x \in P <=> f <= Rank(x) /\ Rank(x) < f + PageSize
  BY <1>3 DEF Page, Rank
<1>5. Rank(u) \in Nat /\ Rank(u) < Cardinality(realm)
  <2> DEFINE B == {w \in realm : w < u}
  <2>1. B \in SUBSET realm /\ u \notin B
    BY <1>1
  <2>2. IsFiniteSet(B) /\ Cardinality(B) <= Cardinality(realm) /\ Cardinality(B) # Cardinality(realm)
    BY <1>2, <2>1, FS_Subset
  <2>3. Cardinality(B) \in Nat
    BY <2>2, FS_CardinalityType
  <2> QED BY <1>2, <2>2, <2>3 DEF Rank
<1>6. f + PageSize <= Rank(u)
  BY <1>4, <1>5, SyncAssumption
<1>7. ASSUME NEW k \in T PROVE at[k] \in realm /\ Rank(at[k]) = k
  <2>1. k \in 0..(Cardinality(realm) - 1)
    BY <1>2, <1>5, <1>6, SyncAssumption
  <2>2. \E x \in realm : Rank(x) = k
    BY <1>1, <2>1, RankFound DEF Rank
  <2> QED BY <2>2
<1>8. \A k \in T : at[k] \in P
  <2> SUFFICES ASSUME NEW k \in T PROVE at[k] \in P
    OBVIOUS
  <2>1. f <= k /\ k < f + PageSize
    BY SyncAssumption
  <2> QED BY <1>4, <1>7, <2>1
<1>9. at \in Injection(T, P)
  <2>1. at \in [T -> P]
    BY <1>8
  <2>2. \A k, l \in T : at[k] = at[l] => k = l
    BY <1>7
  <2> HIDE DEF at, T, P
  <2> QED BY <2>1, <2>2, Fun_IsInj
<1>10. Cardinality(T) = PageSize
  <2>1. f \in Int /\ f + PageSize - 1 \in Int
    BY SyncAssumption
  <2>2. Cardinality(T) = IF f > f + PageSize - 1 THEN 0 ELSE (f + PageSize - 1) - f + 1
    BY <2>1, FS_Interval
  <2> QED BY <2>2, SyncAssumption
<1>11. IsFiniteSet(P) /\ Cardinality(P) \in Nat
  <2>1. P \in SUBSET realm
    BY DEF Page
  <2> QED BY <1>2, <2>1, FS_Subset, FS_CardinalityType
<1>12. Cardinality(T) <= Cardinality(P)
  <2> HIDE DEF at, T, P
  <2> QED BY <1>9, <1>11, FS_Injection
<1> QED BY <1>6, <1>10, <1>11, <1>12, SyncAssumption

(* A page that is read shows every user who has been enabled, or is not the   *)
(* last.                                                                      *)
LEMMA PageStep ==
    ASSUME CarryInv, OnePage \/ PageSize <= PageCap, NEW j \in Jobs, ReadPage(j)
    PROVE  Knows'
<1> USE DEF CarryInv
<1>1. /\ pc[j] = "page"
      /\ found' = [found EXCEPT ![j] = @ \cup {<<u, u \notin disabled>> : u \in Page(first[j])}]
      /\ UNCHANGED <<keycloak, vault, current, desired, kept>>
  BY DEF ReadPage, history
<1>2. \/ pc' = [pc EXCEPT ![j] = "reconcile"] /\ UNCHANGED first
      \/ first' = [first EXCEPT ![j] = @ + PageSize] /\ UNCHANGED pc
  BY DEF ReadPage, Goto
<1>3. ASSUME NEW u \in kept[j], u \in Page(first[j]) PROVE <<u, TRUE>> \in found'[j]
  <2>1. (u \notin disabled) = TRUE
    BY DEF Knows, KnowsOf, Enabled
  <2>2. <<u, TRUE>> \in {<<v, v \notin disabled>> : v \in Page(first[j])}
    BY <1>3, <2>1, Zenon
  <2> HIDE DEF CarryInv
  <2>3. found = [i \in Jobs |-> found[i]]
    BY DEF CarryInv, Shape
  <2> QED BY <1>1, <2>2, <2>3
<1>4. found[j] \subseteq found'[j]
  BY <1>1 DEF Shape
<1>5. ASSUME NEW u \in kept[j], OnePage PROVE <<u, TRUE>> \in found'[j]
  <2>1. <<u, TRUE>> \in found[j] \/ first[j] = 0
    BY <1>1, <1>5 DEF Knows, KnowsOf
  <2>2. u \in realm /\ realm \subseteq Users
    BY DEF Knows, KnowsOf, Enabled, Shape
  <2>3. Page(0) = realm
    BY <1>5, <2>2, FirstPage
  <2> QED BY <1>3, <1>4, <2>1, <2>2, <2>3
<1>6. ASSUME NEW u \in kept[j], ~OnePage
      PROVE  \/ <<u, TRUE>> \in found'[j]
             \/ pc'[j] = "page" /\ first'[j] <= Rank(u)
  <2>1. <<u, TRUE>> \in found[j] \/ first[j] <= Rank(u)
    BY <1>1, <1>6 DEF Knows, KnowsOf
  <2>2. u \in realm /\ realm \subseteq Users /\ first[j] \in Nat
    BY DEF Knows, KnowsOf, Enabled, Shape
  <2>3. PageSize <= PageCap
    BY <1>6
  <2>4. CASE first[j] <= Rank(u) /\ u \notin Page(first[j])
    <3>1. /\ first[j] + PageSize <= Rank(u)
          /\ ~(Cardinality(Page(first[j])) < PageSize)
      BY <2>2, <2>3, <2>4, NotLastPage
    <3>2. first' = [first EXCEPT ![j] = @ + PageSize] /\ UNCHANGED pc
      BY <3>1 DEF ReadPage
    <3>3. first'[j] = first[j] + PageSize /\ pc'[j] = "page"
      BY <1>1, <3>2 DEF Shape
    <3> QED BY <3>1, <3>3
  <2> QED BY <1>3, <1>4, <2>1, <2>4
<1>7. \A i \in Jobs : i # j => pc'[i] = pc[i] /\ first'[i] = first[i] /\ found'[i] = found[i]
  BY <1>1, <1>2 DEF Shape
<1>8. pc'[j] \in {"page", "reconcile"}
  BY <1>1, <1>2 DEF Shape
<1>9. /\ Enabled' = Enabled /\ token' = token /\ current' = current /\ desired' = desired
      /\ kept' = kept /\ \A u : Rank(u)' = Rank(u)
  BY <1>1 DEF Enabled, Rank, keycloak, vault
<1> SUFFICES ASSUME NEW i \in Jobs PROVE KnowsOf(i)'
  BY DEF Knows
<1>10. KnowsOf(i)
  BY DEF Knows
<1> HIDE DEF CarryInv
<1>11. CASE i # j
  BY <1>7, <1>9, <1>10, <1>11 DEF KnowsOf
<1>12. CASE i = j
  <2>1. \A u \in kept[j] :
          /\ pc'[j] = "page" => <<u, TRUE>> \in found'[j]
                               \/ (IF OnePage THEN first'[j] = 0 ELSE first'[j] <= Rank(u))
          /\ pc'[j] = "reconcile" => <<u, TRUE>> \in found'[j]
    BY <1>5, <1>6, <1>8
  <2> QED BY <1>1, <1>8, <1>9, <1>10, <1>12, <2>1 DEF KnowsOf
<1> QED BY <1>11, <1>12

(* A run that goes on to write carries over what it knows.                    *)
LEMMA ReconcileStep == ASSUME CarryInv, NEW j \in Jobs, Reconcile(j) PROVE Knows'
<1> USE DEF CarryInv
<1>1. pc[j] = "reconcile" /\ UNCHANGED <<keycloak, vault, kept>>
  BY DEF Reconcile, history
<1>2. Enabled' = Enabled /\ token' = token /\ kept' = kept /\ \A u : Rank(u)' = Rank(u)
  BY <1>1 DEF Enabled, Rank, keycloak, vault
<1>3. CASE Over(j)
  <2>1. pc'[j] = "idle" /\ first'[j] = 0 /\ found'[j] = {}
    BY <1>3, OverIs DEF Shape
  <2>2. \A i \in Jobs : i # j => /\ pc'[i] = pc[i] /\ first'[i] = first[i]
                                 /\ found'[i] = found[i] /\ current'[i] = current[i]
                                 /\ desired'[i] = desired[i]
    BY <1>3, OverIs DEF Shape
  <2> SUFFICES ASSUME NEW i \in Jobs PROVE KnowsOf(i)'
    BY DEF Knows
  <2>3. KnowsOf(i)
    BY DEF Knows
  <2> HIDE DEF CarryInv
  <2>4. CASE i = j
    BY <1>2, <2>1, <2>3, <2>4 DEF KnowsOf
  <2>5. CASE i # j
    BY <1>2, <2>2, <2>3, <2>5 DEF KnowsOf
  <2> QED BY <2>4, <2>5
<1>4. CASE ~Over(j)
  <2>1. /\ pc' = [pc EXCEPT ![j] = "write"] /\ desired' = [desired EXCEPT ![j] = Desired(j)]
        /\ UNCHANGED <<current, first, found>>
    BY <1>4 DEF Reconcile, Goto
  <2>2. ASSUME NEW u \in kept[j], token[u] # None PROVE Desired(j)[u] = token[u]
    <3>1. <<u, TRUE>> \in found[j] /\ u \in Enabled /\ current[j][u] = token[u]
      BY <1>1 DEF Knows, KnowsOf
    <3>2. u \in Users /\ u # Svc /\ u \in Actors /\ u \notin Robots
      BY <3>1, SyncAssumption DEF Shape, Enabled, Users, Svc, Actors
    <3>3. <<u, TRUE>> \in {g \in found[j] : g[2]} /\ u = <<u, TRUE>>[1]
      BY <3>1
    <3>4. u \in Wanted(j)
      BY <3>2, <3>3 DEF Wanted
    <3> QED BY <2>2, <3>1, <3>2, <3>4 DEF Desired
  <2>3. \A i \in Jobs : i # j => pc'[i] = pc[i] /\ desired'[i] = desired[i]
    BY <2>1 DEF Shape
  <2>4. pc'[j] = "write" /\ desired'[j] = Desired(j)
    BY <2>1 DEF Shape
  <2>5. \A u \in kept[j] : /\ current'[j][u] = token[u]
                           /\ token[u] # None => desired'[j][u] = token[u]
    BY <1>1, <2>1, <2>2, <2>4 DEF Knows, KnowsOf
  <2> SUFFICES ASSUME NEW i \in Jobs PROVE KnowsOf(i)'
    BY DEF Knows
  <2>6. KnowsOf(i)
    BY DEF Knows
  <2> HIDE DEF CarryInv
  <2>7. CASE i = j
    BY <1>2, <2>4, <2>5, <2>6, <2>7 DEF KnowsOf
  <2>8. CASE i # j
    BY <1>2, <2>1, <2>3, <2>6, <2>8 DEF KnowsOf
  <2> QED BY <2>7, <2>8
<1> QED BY <1>3, <1>4

(* What the runs know rests on nothing but these variables and the ranks.     *)
LEMMA SameKnows ==
    ASSUME Knows, Enabled' = Enabled, \A v : Rank(v)' = Rank(v),
           UNCHANGED <<token, pc, current, desired, first, found, kept>>
    PROVE  Knows'
<1> SUFFICES ASSUME NEW i \in Jobs PROVE KnowsOf(i)'
  BY DEF Knows
<1>1. KnowsOf(i)
  BY DEF Knows
<1> QED BY <1>1 DEF KnowsOf

(* Every step keeps what the runs know, as long as they do not overlap.       *)
LEMMA CarryStep == ASSUME RunsAlone, CarryInv, [Next]_vars, GoodPaging PROVE CarryInv'
<1> SUFFICES Knows'
  BY ShapeStep DEF CarryInv
<1> USE DEF CarryInv
<1>0. realm' = realm => \A v : Rank(v)' = Rank(v)
  BY DEF Rank
<1>1. ASSUME NEW u \in Users, AddUser(u) \/ RemoveUser(u) \/ ToggleUser(u) PROVE Knows'
  <2>1. /\ kept' = [j \in Jobs |-> kept[j] \cap Enabled']
        /\ UNCHANGED <<token, pc, current, desired, first, found>>
    BY <1>1 DEF AddUser, RemoveUser, ToggleUser, Note, vault, memory
  <2>2. OnePage \/ \A j \in Jobs : pc[j] = "page" =>
                 \A v : Rank(v) <= Rank(v)' /\ Rank(v) \in Nat /\ Rank(v)' \in Nat
    <3>1. realm' \subseteq Users
      BY ShapeStep DEF Shape
    <3> QED BY <3>1, RankRises DEF GoodPaging, NobodyLeaves, Shape
  <2> SUFFICES ASSUME NEW i \in Jobs PROVE KnowsOf(i)'
    BY DEF Knows
  <2>3. KnowsOf(i)
    BY DEF Knows
  <2>4. kept'[i] \subseteq kept[i] /\ kept'[i] \subseteq Enabled'
    BY <2>1
  <2>5. /\ token' = token /\ pc' = pc /\ current' = current /\ desired' = desired
        /\ first' = first /\ found' = found
    BY <2>1
  <2> HIDE DEF CarryInv
  <2>6. ASSUME NEW v \in kept'[i]
        PROVE  pc[i] = "page" =>
                 <<v, TRUE>> \in found[i] \/ (IF OnePage THEN first[i] = 0 ELSE first[i] <= Rank(v)')
    <3>1. v \in kept[i]
      BY <2>4
    <3>2. CASE OnePage
      BY <2>3, <3>1, <3>2 DEF KnowsOf
    <3>3. CASE ~OnePage
      <4> SUFFICES ASSUME pc[i] = "page", <<v, TRUE>> \notin found[i]
                   PROVE  first[i] <= Rank(v)'
        BY <3>3
      <4>1. first[i] <= Rank(v)
        BY <2>3, <3>1, <3>3 DEF KnowsOf
      <4>2. Rank(v) <= Rank(v)' /\ Rank(v) \in Nat /\ Rank(v)' \in Nat
        BY <2>2, <3>3
      <4>3. first[i] \in Nat
        BY DEF CarryInv, Shape
      <4> QED BY <4>1, <4>2, <4>3
    <3> QED BY <3>2, <3>3
  <2> QED BY <2>3, <2>4, <2>5, <2>6 DEF KnowsOf
<1>2. CASE RotateByHand
  <2>1. PICK S : /\ token' = [a \in Actors |-> IF a \in S THEN None ELSE token[a]]
                 /\ kept' = [j \in Jobs |-> kept[j] \ S]
    BY <1>2 DEF RotateByHand
  <2>2. /\ Enabled' = Enabled /\ UNCHANGED <<pc, current, desired, first, found>>
        /\ \A v : Rank(v)' = Rank(v)
    BY <1>0, <1>2 DEF RotateByHand, keycloak, memory, Enabled
  <2>3. \A j \in Jobs : \A u \in kept'[j] : u \in kept[j] /\ token'[u] = token[u]
    BY <2>1 DEF Shape, Actors
  <2>4. \A j \in Jobs : kept'[j] \subseteq kept[j]
    BY <2>1
  <2> QED BY <2>2, <2>3, <2>4 DEF Knows, KnowsOf
<1>3. CASE SetService
  <2>1. UNCHANGED <<realm, disabled, token, pc, current, desired, first, found, kept>>
    BY <1>3 DEF SetService, keycloak, memory, history
  <2>2. Enabled' = Enabled /\ \A v : Rank(v)' = Rank(v)
    BY <1>0, <2>1 DEF Enabled
  <2> QED BY <2>1, <2>2, SameKnows
<1>4. ASSUME NEW j \in Jobs, Start(j) PROVE Knows'
  <2>1. /\ pc[j] = "idle" /\ pc' = [pc EXCEPT ![j] = "service"]
        /\ kept' = [kept EXCEPT ![j] = Enabled]
        /\ Enabled' = Enabled /\ UNCHANGED <<token, current, desired, first, found>>
        /\ \A v : Rank(v)' = Rank(v)
    BY <1>0, <1>4 DEF Start, Goto, keycloak, vault, memory, Enabled
  <2> QED BY <2>1 DEF Shape, Knows, KnowsOf
<1>5. ASSUME NEW j \in Jobs, ReadService(j) PROVE Knows'
  <2>1. /\ pc[j] = "service" /\ pc' = [pc EXCEPT ![j] = "actors"]
        /\ Enabled' = Enabled /\ UNCHANGED <<token, current, desired, first, found, kept>>
        /\ \A v : Rank(v)' = Rank(v)
    BY <1>0, <1>5 DEF ReadService, Goto, keycloak, vault, history, Enabled
  <2> QED BY <2>1 DEF Shape, Knows, KnowsOf
<1>6. ASSUME NEW j \in Jobs, ReadActors(j) PROVE Knows'
  <2>1. /\ pc[j] = "actors" /\ pc' = [pc EXCEPT ![j] = "page"]
        /\ current' = [current EXCEPT ![j] = token]
        /\ Enabled' = Enabled /\ UNCHANGED <<token, desired, first, found, kept>>
        /\ \A v : Rank(v)' = Rank(v)
    BY <1>0, <1>6 DEF ReadActors, Goto, keycloak, vault, history, Enabled
  <2>2. \A v : 0 <= Rank(v)
    BY RankIsNat DEF Shape
  <2>3. first[j] = 0 /\ pc'[j] = "page" /\ current'[j] = token
    BY <2>1 DEF Shape, Knows, KnowsOf
  <2>4. \A i \in Jobs : i # j => pc'[i] = pc[i] /\ current'[i] = current[i]
    BY <2>1 DEF Shape
  <2> SUFFICES ASSUME NEW i \in Jobs PROVE KnowsOf(i)'
    BY DEF Knows
  <2>5. KnowsOf(i)
    BY DEF Knows
  <2> HIDE DEF CarryInv
  <2>6. CASE i = j
    BY <2>1, <2>2, <2>3, <2>5, <2>6 DEF KnowsOf
  <2>7. CASE i # j
    BY <2>1, <2>4, <2>5, <2>7 DEF KnowsOf
  <2> QED BY <2>6, <2>7
<1>7. ASSUME NEW j \in Jobs, ReadPage(j) \/ Reconcile(j) PROVE Knows'
  BY <1>7, PageStep, ReconcileStep DEF GoodPaging
<1>8. ASSUME NEW j \in Jobs, Write(j) \/ Fail(j) PROVE Knows'
  <2>1. Over(j) /\ Enabled' = Enabled /\ kept' = kept
    BY <1>8 DEF Write, Fail, keycloak, history, Enabled
  <2>2. pc'[j] = "idle" /\ first'[j] = 0 /\ found'[j] = {}
    BY <2>1, OverIs DEF Shape
  <2> QED BY <2>1, <2>2 DEF Knows, KnowsOf, RunsAlone
<1>9. CASE UNCHANGED vars
  <2>1. UNCHANGED <<realm, disabled, token, pc, current, desired, first, found, kept>>
    BY <1>9 DEF vars, keycloak, vault, memory, history
  <2>2. Enabled' = Enabled /\ \A v : Rank(v)' = Rank(v)
    BY <1>0, <2>1 DEF Enabled
  <2> QED BY <2>1, <2>2, SameKnows
<1> QED BY <1>1, <1>2, <1>3, <1>4, <1>5, <1>6, <1>7, <1>8, <1>9, Zenon DEF Next, People

(* What a run is about to write carries over what it knows.                   *)
LEMMA CarriesOver ==
    ASSUME CarryInv
    PROVE  \A j \in Jobs : pc[j] = "write" /\ token' = desired[j] =>
              \A u \in kept[j] : token[u] # None => token'[u] = token[u]
BY DEF CarryInv, Knows, KnowsOf

(* Runs that do not overlap, over a realm one page holds, never change the    *)
(* token of a user who was enabled, and not rotated, ever since they began.   *)
THEOREM TokensStay == ASSUME RunsAlone, OnePage PROVE Spec => TokensCarriedOver
<1> DEFINE Carried == \A j \in Jobs : pc[j] = "write" /\ token' = desired[j] =>
                         \A u \in kept[j] : token[u] # None => token'[u] = token[u]
<1>1. Init => CarryInv
  BY Initially
<1>2. CarryInv => Carried
  BY CarriesOver
<1>3. CarryInv /\ [Next]_vars => CarryInv'
  BY CarryStep DEF GoodPaging
<1>4. Spec => [][Carried]_vars
  BY <1>1, <1>2, <1>3, PTL DEF Spec
<1> QED BY <1>4 DEF TokensCarriedOver

-----------------------------------------------------------------------------
(* What a run that succeeds leaves behind *)

(* The map a run computes gives every user it knows of a token, and none to a *)
(* user it knows is gone.                                                     *)
LEMMA DesiredTells ==
    ASSUME TruthInv, NEW j \in Jobs, pc[j] = "reconcile"
    PROVE  /\ \A u \in kept[j] : Desired(j)[u] # None
           /\ \A u \in gone[j] : Desired(j)[u] = None
<1>1. ASSUME NEW u \in kept[j] PROVE Desired(j)[u] # None
  <2>1. <<u, TRUE>> \in found[j] /\ u \in Enabled
    BY DEF TruthInv, CarryInv, Knows, KnowsOf
  <2>2. u \in Users /\ u # Svc /\ u \in Actors /\ u \notin Robots
    BY <2>1, SyncAssumption DEF TruthInv, TypeOK, Enabled, Users, Svc, Actors
  <2>3. <<u, TRUE>> \in {g \in found[j] : g[2]} /\ u = <<u, TRUE>>[1]
    BY <2>1
  <2>4. u \in Wanted(j)
    BY <2>2, <2>3 DEF Wanted
  <2>5. Mint(u) # None
    <3>1. Mint(u) \in Tokens
      BY <2>2, MintIsNew
    <3> QED BY <3>1 DEF Tokens, None
  <2> QED BY <2>2, <2>4, <2>5 DEF Desired
<1>2. ASSUME NEW u \in gone[j] PROVE Desired(j)[u] = None
  <2>1. u \in Users /\ u # Svc /\ u \in Actors
    BY SyncAssumption DEF TruthInv, TypeOK, Users, Svc, Actors
  <2>2. ASSUME u \in Wanted(j) PROVE FALSE
    <3>1. PICK g \in found[j] : g[2] /\ u = g[1] /\ u \notin Robots
      BY <2>2 DEF Wanted
    <3>2. g \in Users \X BOOLEAN
      BY DEF TruthInv, TypeOK
    <3>3. PICK v \in Users, b \in BOOLEAN : g = <<v, b>>
      BY <3>2
    <3>4. v = u /\ b
      BY <3>1, <3>3
    <3>5. b = TRUE
      BY <3>4
    <3>6. g = <<u, TRUE>>
      BY <3>3, <3>4, <3>5
    <3> QED BY <3>1, <3>6 DEF TruthInv, Tells, TellsOf
  <2> QED BY <2>1, <2>2 DEF Desired
<1> QED BY <1>1, <1>2

(* Every step keeps what the runs know of the users who are gone.             *)
LEMMA TellsStep == ASSUME RunsAlone, TruthInv, [Next]_vars PROVE Tells'
<1> USE DEF TruthInv
<1>1. ASSUME NEW u \in Users, AddUser(u) \/ RemoveUser(u) \/ ToggleUser(u) PROVE Tells'
  <2>1. /\ kept' = [j \in Jobs |-> kept[j] \cap Enabled']
        /\ gone' = [j \in Jobs |-> gone[j] \ Enabled']
        /\ UNCHANGED <<token, pc, current, desired, found>>
    BY <1>1 DEF AddUser, RemoveUser, ToggleUser, Note, vault, memory
  <2> QED BY <2>1 DEF Tells, TellsOf
<1>2. CASE RotateByHand
  <2>1. PICK S : /\ token' = [a \in Actors |-> IF a \in S THEN None ELSE token[a]]
                 /\ kept' = [j \in Jobs |-> kept[j] \ S]
    BY <1>2 DEF RotateByHand
  <2>2. Enabled' = Enabled /\ UNCHANGED <<pc, current, desired, found, gone>>
    BY <1>2 DEF RotateByHand, keycloak, memory, Enabled
  <2>3. \A j \in Jobs : \A u \in gone[j] : token[u] = None => token'[u] = None
    BY <2>1 DEF TypeOK, Actors
  <2>4. \A j \in Jobs : kept'[j] \subseteq kept[j]
    BY <2>1
  <2> QED BY <2>2, <2>3, <2>4 DEF Tells, TellsOf
<1>3. CASE SetService
  BY <1>3 DEF SetService, Tells, TellsOf, Enabled, keycloak, memory, history
<1>4. ASSUME NEW j \in Jobs, Start(j) PROVE Tells'
  <2>1. /\ pc[j] = "idle" /\ pc' = [pc EXCEPT ![j] = "service"]
        /\ kept' = [kept EXCEPT ![j] = Enabled] /\ gone' = [gone EXCEPT ![j] = Users \ Enabled]
        /\ Enabled' = Enabled /\ UNCHANGED <<token, current, desired, found>>
    BY <1>4 DEF Start, Goto, keycloak, vault, memory, Enabled
  <2>2. found[j] = {}
    BY <2>1 DEF CarryInv, Knows, KnowsOf
  <2>3. pc'[j] = "service" /\ gone'[j] = Users \ Enabled
    BY <2>1 DEF TypeOK
  <2>4. \A i \in Jobs : i = j
    BY DEF RunsAlone
  <2> HIDE DEF TruthInv
  <2> QED BY <2>1, <2>2, <2>3, <2>4 DEF Tells, TellsOf
<1>5. ASSUME NEW j \in Jobs, ReadService(j) PROVE Tells'
  <2>1. /\ pc' = [pc EXCEPT ![j] = "actors"]
        /\ Enabled' = Enabled /\ UNCHANGED <<token, current, desired, found, kept, gone>>
    BY <1>5 DEF ReadService, Goto, keycloak, vault, history, Enabled
  <2> QED BY <2>1 DEF TypeOK, Tells, TellsOf
<1>6. ASSUME NEW j \in Jobs, ReadActors(j) PROVE Tells'
  <2>1. /\ pc' = [pc EXCEPT ![j] = "page"] /\ current' = [current EXCEPT ![j] = token]
        /\ Enabled' = Enabled /\ UNCHANGED <<token, desired, found, kept, gone>>
    BY <1>6 DEF ReadActors, Goto, keycloak, vault, history, Enabled
  <2> QED BY <2>1 DEF TypeOK, Tells, TellsOf
<1>7. ASSUME NEW j \in Jobs, ReadPage(j) PROVE Tells'
  <2> DEFINE read == {<<u, u \notin disabled>> : u \in Page(first[j])}
  <2>1. /\ found' = [found EXCEPT ![j] = @ \cup read]
        /\ UNCHANGED <<token, current, desired, kept, gone>> /\ Enabled' = Enabled
        /\ pc' \in {pc, [pc EXCEPT ![j] = "reconcile"]} /\ pc[j] = "page"
    BY <1>7 DEF ReadPage, Goto, keycloak, vault, history, Enabled
  <2>2. ASSUME NEW u \in gone[j], <<u, TRUE>> \in read PROVE u \in Robots
    <3>1. PICK v \in Page(first[j]) : <<u, TRUE>> = <<v, v \notin disabled>>
      BY <2>2
    <3>2. u = v /\ v \notin disabled
      BY <3>1
    <3>3. u \in realm /\ u \notin disabled
      BY <3>2 DEF Page
    <3>4. u \notin Enabled
      BY DEF Tells, TellsOf
    <3> QED BY <3>3, <3>4 DEF Enabled
  <2> HIDE DEF read
  <2>3. found'[j] = found[j] \cup read /\ pc'[j] \in {"page", "reconcile"}
    BY <2>1 DEF TypeOK
  <2>4. \A i \in Jobs : i = j
    BY DEF RunsAlone
  <2> HIDE DEF TruthInv
  <2>5. Tells
    BY DEF TruthInv
  <2> QED BY <2>1, <2>2, <2>3, <2>4, <2>5 DEF Tells, TellsOf
<1>8. ASSUME NEW j \in Jobs, Over(j), UNCHANGED <<keycloak, kept, gone>> PROVE Tells'
  <2>1. pc'[j] = "idle" /\ found'[j] = {}
    BY <1>8, OverIs DEF CarryInv, Shape
  <2>2. Enabled' = Enabled /\ \A i \in Jobs : i = j
    BY <1>8 DEF RunsAlone, keycloak, Enabled
  <2> QED BY <1>8, <2>1, <2>2 DEF Tells, TellsOf
<1>9. ASSUME NEW j \in Jobs, Reconcile(j) PROVE Tells'
  <2>1. pc[j] = "reconcile" /\ UNCHANGED <<keycloak, token, kept, gone>>
    BY <1>9 DEF Reconcile, vault, history
  <2>2. CASE ~Over(j)
    <3>1. /\ pc' = [pc EXCEPT ![j] = "write"] /\ desired' = [desired EXCEPT ![j] = Desired(j)]
          /\ UNCHANGED <<current, found>>
      BY <1>9, <2>2 DEF Reconcile, Goto
    <3>2. desired'[j] = Desired(j)
      BY <3>1 DEF TypeOK
    <3>3. Enabled' = Enabled /\ \A i \in Jobs : i = j
      BY <2>1 DEF RunsAlone, keycloak, Enabled
    <3>4. /\ \A u \in kept[j] : Desired(j)[u] # None
          /\ \A u \in gone[j] : Desired(j)[u] = None
      BY <2>1, DesiredTells
    <3>5. Tells
      OBVIOUS
    <3> HIDE DEF TruthInv
    <3> QED BY <2>1, <3>1, <3>2, <3>3, <3>4, <3>5 DEF Tells, TellsOf
  <2> QED BY <1>8, <2>1, <2>2
<1>10. ASSUME NEW j \in Jobs, Write(j) \/ Fail(j) PROVE Tells'
  <2>1. Over(j) /\ UNCHANGED <<keycloak, kept, gone>>
    BY <1>10 DEF Write, Fail, history
  <2> QED BY <1>8, <2>1
<1>11. CASE UNCHANGED vars
  BY <1>11 DEF Tells, TellsOf, Enabled, vars, keycloak, vault, memory, history
<1> QED BY <1>1, <1>2, <1>3, <1>4, <1>5, <1>6, <1>7, <1>9, <1>10, <1>11, Zenon DEF Next, People

(* A step in which a run finds nothing to write, or fails, writes nothing.    *)
LEMMA NothingWritten ==
    ASSUME RunsAlone, TypeOK, [Next]_vars,
           NEW j \in Jobs, pc[j] = "reconcile", pc'[j] = "idle"
    PROVE  token' = token
<1>1. \A i \in Jobs : i = j
  BY DEF RunsAlone
<1>2. ASSUME People \/ UNCHANGED vars PROVE FALSE
  <2>1. pc' = pc
    BY <1>2 DEF People, AddUser, RemoveUser, ToggleUser, RotateByHand, SetService, vars
  <2> QED BY <2>1
<1>3. PICK i \in Jobs : Start(i) \/ ReadService(i) \/ ReadActors(i) \/ ReadPage(i)
                          \/ Reconcile(i) \/ Write(i) \/ Fail(i)
  BY <1>2, Zenon DEF Next
<1>4. ~Write(i)
  BY <1>1 DEF Write
<1> QED BY <1>3, <1>4 DEF Start, ReadService, ReadActors, ReadPage, Reconcile, Fail, vault

(* What a run leaves behind if it succeeds.                                   *)
LEMMA SucceedsTells ==
    ASSUME RunsAlone, TruthInv, [Next]_vars, NEW j \in Jobs, Succeeds(j)
    PROVE  /\ \A u \in kept[j] : token'[u] # None
           /\ \A u \in gone[j] : token'[u] = None
<1>1. CASE pc[j] = "write" /\ token' = desired[j]
  BY <1>1 DEF TruthInv, Tells, TellsOf
<1>2. CASE pc[j] = "reconcile" /\ pc'[j] = "idle" /\ Desired(j) = current[j]
  <2>1. token' = token
    BY <1>2, NothingWritten DEF TruthInv
  <2>2. /\ \A u \in kept[j] : current[j][u] # None
        /\ \A u \in gone[j] : current[j][u] = None
    BY <1>2, DesiredTells
  <2>3. \A u \in kept[j] : token[u] = current[j][u]
    BY <1>2 DEF TruthInv, CarryInv, Knows, KnowsOf
  <2>4. \A u \in gone[j] : token[u] = None
    BY <1>2, <2>2 DEF TruthInv, Tells, TellsOf
  <2> QED BY <2>1, <2>2, <2>3, <2>4
<1> QED BY <1>1, <1>2 DEF Succeeds

LEMMA TruthInit == Init => TruthInv
<1>1. Init => Tells
  BY DEF Init, Tells, TellsOf
<1> QED BY <1>1, Initially, TypeInit DEF TruthInv

LEMMA TruthStep == ASSUME RunsAlone, TruthInv, [Next]_vars, GoodPaging PROVE TruthInv'
BY TypeStep, CarryStep, TellsStep DEF TruthInv

(* Runs that do not overlap, over a realm one page holds, tell the truth when *)
(* they succeed: a user enabled, and not rotated, ever since the run began    *)
(* has a token, and one disabled or absent ever since has none.               *)
THEOREM RunsTellTheTruth == ASSUME RunsAlone, OnePage PROVE Spec => RunTellsTheTruth
<1> DEFINE Truth == \A j \in Jobs : Succeeds(j) =>
                       /\ \A u \in kept[j] : token'[u] # None
                       /\ \A u \in gone[j] : token'[u] = None
<1>1. TruthInv /\ [Next]_vars => TruthInv'
  BY TruthStep DEF GoodPaging
<1>2. TruthInv /\ [Next]_vars => Truth
  BY SucceedsTells
<1>3. Spec => [][Truth]_vars
  <2> HIDE DEF Truth
  <2> QED BY <1>1, <1>2, TruthInit, PTL DEF Spec
<1> QED BY <1>3 DEF RunTellsTheTruth

(* A user loses the token, or a run that succeeds is wrong about one, only if *)
(* a page was capped below what was asked for, or somebody left the realm     *)
(* while a run read its pages: users who join, are disabled, enabled or       *)
(* rotated meanwhile do no harm, in a realm of any number of pages.           *)
THEOREM OnlyCapsAndLeaversHarm ==
    ASSUME RunsAlone
    PROVE  Spec => \/ ~(PageSize <= PageCap)
                   \/ ~[][NobodyLeaves]_vars
                   \/ TokensCarriedOver /\ RunTellsTheTruth
<1> DEFINE Truth == \A j \in Jobs : Succeeds(j) =>
                       /\ \A u \in kept[j] : token'[u] # None
                       /\ \A u \in gone[j] : token'[u] = None
           Carried == \A j \in Jobs : pc[j] = "write" /\ token' = desired[j] =>
                         \A u \in kept[j] : token[u] # None => token'[u] = token[u]
<1> SUFFICES ASSUME PageSize <= PageCap
             PROVE  Spec /\ [][NobodyLeaves]_vars => TokensCarriedOver /\ RunTellsTheTruth
  BY Zenon
<1>1. TruthInv /\ [Next]_vars /\ [NobodyLeaves]_vars => TruthInv'
  <2> SUFFICES ASSUME TruthInv, [Next]_vars, [NobodyLeaves]_vars PROVE TruthInv'
    OBVIOUS
  <2>1. NobodyLeaves
    BY DEF NobodyLeaves, vars, keycloak
  <2> QED BY <2>1, TruthStep DEF GoodPaging
<1>2. TruthInv /\ [Next]_vars => Truth
  BY SucceedsTells
<1>3. TruthInv => Carried
  BY CarriesOver DEF TruthInv
<1>4. Spec /\ [][NobodyLeaves]_vars => [][Truth]_vars /\ [][Carried]_vars
  <2> HIDE DEF Truth, Carried
  <2> QED BY <1>1, <1>2, <1>3, TruthInit, PTL DEF Spec
<1> QED BY <1>4 DEF TokensCarriedOver, RunTellsTheTruth

-----------------------------------------------------------------------------
(* Capped pages *)

\* The users who have a token in the map a run is about to write.
Provisioned(j) == {u \in Users : desired[j][u] # None}

\* Few enough users for one capped page.
Few(S) == S \in SUBSET Users /\ Cardinality(S) <= PageCap

\* A run stops at its first page, and knows no more users than that shows.
CapOf(j) ==
    /\ first[j] = 0
    /\ pc[j] \in {"idle", "service", "actors", "page"} => found[j] = {}
    /\ pc[j] = "reconcile" => \E S : Few(S) /\ \A g \in found[j] : g[1] \in S
    /\ pc[j] = "write" => \E S : Few(S) /\ Provisioned(j) \subseteq S

CapInv == TypeOK /\ \A j \in Jobs : CapOf(j)

(* A page never shows more users than Keycloak's cap.                         *)
LEMMA PageIsFew == ASSUME realm \subseteq Users PROVE Few(Page(0))
<1> DEFINE P == Page(0)
           below(u) == Cardinality({w \in realm : w < u})
           rank == [u \in P |-> below(u)]
           T == 0..(PageCap - 1)
<1>1. realm \in SUBSET Int /\ P \in SUBSET realm /\ IsFiniteSet(realm)
  <2>1. IsFiniteSet(1..NUsers)
    BY FS_Interval, SyncAssumption
  <2>2. realm \in SUBSET (1..NUsers)
    BY DEF Users
  <2>3. IsFiniteSet(realm)
    BY <2>1, <2>2, FS_Subset
  <2> QED BY <2>3 DEF Page, Users
<1>2. Min({PageSize, PageCap}) \in Nat /\ Min({PageSize, PageCap}) <= PageCap
  <2>1. \E x \in {PageSize, PageCap} : \A y \in {PageSize, PageCap} : x <= y
    BY SyncAssumption
  <2>2. /\ Min({PageSize, PageCap}) \in {PageSize, PageCap}
        /\ \A y \in {PageSize, PageCap} : Min({PageSize, PageCap}) <= y
    BY <2>1 DEF Min
  <2> QED BY <2>2, SyncAssumption
<1>3. \A u \in P : rank[u] \in T
  <2> SUFFICES ASSUME NEW u \in P PROVE below(u) \in T
    OBVIOUS
  <2>1. below(u) \in Nat
    BY RankIsNat DEF Rank
  <2>2. below(u) < 0 + Min({PageSize, PageCap})
    BY DEF Page
  <2> QED BY <1>2, <2>1, <2>2, SyncAssumption
<1>4. \A u, v \in P : rank[u] = rank[v] => u = v
  <2> SUFFICES ASSUME NEW u \in P, NEW v \in P, below(u) = below(v) PROVE u = v
    OBVIOUS
  <2>1. u \in realm /\ v \in realm
    BY <1>1
  <2> QED BY <1>1, <2>1, RankTells
<1>5. rank \in Injection(P, T)
  BY <1>3, <1>4, Fun_IsInj
<1>6. IsFiniteSet(T) /\ Cardinality(T) = PageCap
  <2>1. PageCap - 1 \in Int /\ 0 \in Int
    BY SyncAssumption
  <2>2. IsFiniteSet(T) /\ Cardinality(T) = IF 0 > PageCap - 1 THEN 0 ELSE (PageCap - 1) - 0 + 1
    BY <2>1, FS_Interval
  <2> QED BY <2>2, SyncAssumption
<1>7. Cardinality(P) <= PageCap
  BY <1>5, <1>6, FS_Injection
<1> QED BY <1>1, <1>7 DEF Few

(* A set within a small one is small.                                         *)
LEMMA FewWithin == ASSUME NEW S, Few(S), NEW R \in SUBSET S PROVE Few(R)
<1>1. IsFiniteSet(1..NUsers)
  BY FS_Interval, SyncAssumption
<1>2. IsFiniteSet(S)
  BY <1>1, FS_Subset DEF Few, Users
<1>3. IsFiniteSet(R) /\ Cardinality(R) <= Cardinality(S)
  BY <1>2, FS_Subset
<1>4. Cardinality(R) \in Nat /\ Cardinality(S) \in Nat
  BY <1>2, <1>3, FS_CardinalityType
<1> QED BY <1>3, <1>4, SyncAssumption DEF Few

(* Every step keeps to the first page of a realm whose pages are capped.      *)
LEMMA CapStep == ASSUME PageCap < PageSize, CapInv, [Next]_vars PROVE CapInv'
<1> SUFFICES ASSUME NEW i \in Jobs PROVE CapOf(i)'
  BY TypeStep DEF CapInv
<1>0. CapOf(i) /\ TypeOK
  BY DEF CapInv
<1>1. ASSUME UNCHANGED <<pc[i], first[i], found[i], desired[i]>> PROVE CapOf(i)'
  BY <1>0, <1>1 DEF CapOf, Provisioned
<1>2. CASE People \/ UNCHANGED vars
  <2>1. UNCHANGED memory /\ UNCHANGED pc
    BY <1>2 DEF People, AddUser, RemoveUser, ToggleUser, RotateByHand, SetService, vars
  <2> QED BY <1>1, <2>1 DEF memory
<1>3. ASSUME NEW j \in Jobs, Start(j) \/ ReadService(j) \/ ReadActors(j) PROVE CapOf(i)'
  <2>1. UNCHANGED <<first, found, desired>>
    BY <1>3 DEF Start, ReadService, ReadActors, memory
  <2>2. \/ pc[j] = "idle" /\ pc' = [pc EXCEPT ![j] = "service"]
        \/ pc[j] = "service" /\ pc' = [pc EXCEPT ![j] = "actors"]
        \/ pc[j] = "actors" /\ pc' = [pc EXCEPT ![j] = "page"]
    BY <1>3 DEF Start, ReadService, ReadActors, Goto
  <2>3. CASE i = j
    <3>1. /\ pc[i] \in {"idle", "service", "actors"}
          /\ pc'[i] \in {"service", "actors", "page"}
      BY <1>0, <2>2, <2>3 DEF TypeOK
    <3> QED BY <1>0, <2>1, <3>1 DEF CapOf
  <2>4. CASE i # j
    <3>1. pc'[i] = pc[i]
      BY <1>0, <2>2, <2>4 DEF TypeOK
    <3> QED BY <1>1, <2>1, <3>1
  <2> QED BY <2>3, <2>4
<1>4. ASSUME NEW j \in Jobs, ReadPage(j) PROVE CapOf(i)'
  <2>1. /\ pc[j] = "page" /\ UNCHANGED desired
        /\ found' = [found EXCEPT ![j] = @ \cup {<<u, u \notin disabled>> : u \in Page(first[j])}]
    BY <1>4 DEF ReadPage
  <2>2. first[j] = 0 /\ found[j] = {}
    BY <2>1 DEF CapInv, CapOf
  <2>3. Few(Page(0))
    BY <1>0, PageIsFew DEF TypeOK
  <2>4. Cardinality(Page(0)) < PageSize
    <3>1. IsFiniteSet(1..NUsers)
      BY FS_Interval, SyncAssumption
    <3>2. IsFiniteSet(Page(0))
      BY <2>3, <3>1, FS_Subset DEF Few, Users
    <3>3. Cardinality(Page(0)) \in Nat
      BY <3>2, FS_CardinalityType
    <3> QED BY <2>3, <3>3, SyncAssumption DEF Few
  <2>5. pc' = [pc EXCEPT ![j] = "reconcile"] /\ UNCHANGED first
    BY <1>4, <2>2, <2>4 DEF ReadPage, Goto
  <2>6. CASE i = j
    <3>1. pc'[i] = "reconcile" /\ first'[i] = 0
      BY <1>0, <2>2, <2>5, <2>6 DEF TypeOK
    <3>2. found'[i] = {<<u, u \notin disabled>> : u \in Page(0)}
      BY <1>0, <2>1, <2>2, <2>6 DEF TypeOK
    <3>3. \A g \in found'[i] : g[1] \in Page(0)
      BY <3>2
    <3>4. \E S : Few(S) /\ \A g \in found'[i] : g[1] \in S
      BY <2>3, <3>3
    <3> QED BY <3>1, <3>4 DEF CapOf, Few
  <2>7. CASE i # j
    <3>1. UNCHANGED <<pc[i], first[i], found[i], desired[i]>>
      BY <1>0, <2>1, <2>5, <2>7 DEF TypeOK
    <3> QED BY <1>1, <3>1
  <2> QED BY <2>6, <2>7
<1>5. ASSUME NEW j \in Jobs, Over(j) PROVE CapOf(i)'
  <2>1. CASE i = j
    <3>1. pc'[i] = "idle" /\ first'[i] = 0 /\ found'[i] = {}
      BY <1>0, <1>5, <2>1 DEF Over, Goto, TypeOK
    <3> QED BY <3>1 DEF CapOf
  <2>2. CASE i # j
    <3>1. UNCHANGED <<pc[i], first[i], found[i], desired[i]>>
      BY <1>0, <1>5, <2>2 DEF Over, Goto, TypeOK
    <3> QED BY <1>1, <3>1
  <2> QED BY <2>1, <2>2
<1>6. ASSUME NEW j \in Jobs, Reconcile(j), ~Over(j) PROVE CapOf(i)'
  <2>1. /\ pc[j] = "reconcile" /\ pc' = [pc EXCEPT ![j] = "write"]
        /\ desired' = [desired EXCEPT ![j] = Desired(j)] /\ UNCHANGED <<first, found>>
    BY <1>6 DEF Reconcile, Goto
  <2>2. CASE i = j
    <3>1. PICK S : Few(S) /\ \A g \in found[i] : g[1] \in S
      BY <1>0, <2>1, <2>2 DEF CapOf
    <3>2. pc'[i] = "write" /\ first'[i] = 0 /\ desired'[i] = Desired(i)
      BY <1>0, <2>1, <2>2 DEF CapOf, TypeOK
    <3>3. ASSUME NEW u \in Users, Desired(i)[u] # None PROVE u \in S
      <4>1. u \in Actors /\ u # Svc
        BY SyncAssumption DEF Actors, Users, Svc
      <4>2. u \in Wanted(i)
        BY <3>3, <4>1 DEF Desired
      <4> QED BY <3>1, <4>2 DEF Wanted
    <3>4. Provisioned(i)' \subseteq S
      BY <3>2, <3>3 DEF Provisioned
    <3>5. \E R : Few(R) /\ Provisioned(i)' \subseteq R
      BY <3>1, <3>4
    <3> QED BY <3>2, <3>5 DEF CapOf, Few
  <2>3. CASE i # j
    <3>1. UNCHANGED <<pc[i], first[i], found[i], desired[i]>>
      BY <1>0, <2>1, <2>3 DEF TypeOK
    <3> QED BY <1>1, <3>1
  <2> QED BY <2>2, <2>3
<1>7. ASSUME NEW j \in Jobs, Reconcile(j) \/ Write(j) \/ Fail(j) PROVE CapOf(i)'
  BY <1>5, <1>6, <1>7 DEF Write, Fail
<1> QED BY <1>2, <1>3, <1>4, <1>7, Zenon DEF Next

(* If Keycloak caps a page below what the run asks for, the run takes the     *)
(* capped page for the last one: it never asks for a second, and the map it   *)
(* is about to write has tokens for no more users than the cap, however many  *)
(* the realm and the old map have.                                            *)
THEOREM CapLosesTheRest ==
    ASSUME PageCap < PageSize
    PROVE  Spec => [](\A j \in Jobs : /\ first[j] = 0
                                      /\ pc[j] = "write" => Cardinality(Provisioned(j)) <= PageCap)
<1>1. Init => CapInv
  BY TypeInit DEF Init, CapInv, CapOf
<1>2. CapInv /\ [Next]_vars => CapInv'
  BY CapStep
<1>3. CapInv => \A j \in Jobs : /\ first[j] = 0
                                /\ pc[j] = "write" => Cardinality(Provisioned(j)) <= PageCap
  BY FewWithin DEF CapInv, CapOf, Few
<1> QED BY <1>1, <1>2, <1>3, PTL DEF Spec
=============================================================================
