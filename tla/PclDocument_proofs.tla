-------------------------- MODULE PclDocument_proofs --------------------------
(***************************************************************************)
(* The PCL plugin, for any number of buffers, any capacity of the queue,   *)
(* any pages, whole or broken: no permit is lost, the job thread never     *)
(* fills a buffer that waits to be sent or is being sent, no buffer is     *)
(* written that is gone, and the generator gets its calls in order.        *)
(*                                                                         *)
(* The generators change nothing in the threads they are called from: a    *)
(* PCL plugin with a generator is a PCL plugin, and what is proved of its  *)
(* buffers holds whatever the generator makes of the calls.                *)
(*                                                                         *)
(* And the documents of PCLm and PWG are what they should be.  The proof   *)
(* follows what is on its way to the generator, the line; then what the    *)
(* document and the line are to each other; then each call of the generator*)
(* and the numbers it gives.                                               *)
(***************************************************************************)
EXTENDS PclDocument, SequenceTheorems, FiniteSetTheorems, TLAPS

(***************************************************************************)
(* What is kept of a sequence.                                             *)
(***************************************************************************)
(* A later place has a higher rank. *)
LEMMA RankGrows ==
  ASSUME NEW K, K \subseteq Int, IsFiniteSet(K), NEW i \in K, NEW j \in K
  PROVE  /\ Rank(K, i) \in 1 .. Cardinality(K)
         /\ i < j => Rank(K, i) < Rank(K, j)
         /\ Rank(K, i) = Rank(K, j) => i = j
  <1> DEFINE Upto(k) == {o \in K : o <= k}
  <1>1. ASSUME NEW k \in K
        PROVE  IsFiniteSet(Upto(k)) /\ Rank(K, k) \in Nat /\ Rank(K, k) <= Cardinality(K)
               /\ Rank(K, k) # 0
    <2>1. Upto(k) \in SUBSET K /\ k \in Upto(k)
      OBVIOUS
    <2>2. IsFiniteSet(Upto(k)) /\ Cardinality(Upto(k)) <= Cardinality(K)
      BY <2>1, FS_Subset
    <2>3. Cardinality(Upto(k)) \in Nat /\ Cardinality(Upto(k)) # 0
      BY <2>1, <2>2, FS_CardinalityType, FS_EmptySet
    <2> QED  BY <2>2, <2>3 DEF Rank
  <1>2. Cardinality(K) \in Nat
    BY FS_CardinalityType
  <1>3. ASSUME NEW k \in K, NEW l \in K, k < l
        PROVE  Rank(K, k) < Rank(K, l)
    <2>0. \A o \in K : o \in Int
      OBVIOUS
    <2>1. \A o \in K : o <= k => o <= l
      BY <1>3, <2>0
    <2>2. l <= l /\ ~(l <= k)
      BY <1>3, <2>0
    <2>3. Upto(k) \in SUBSET Upto(l) /\ l \in Upto(l) /\ l \notin Upto(k)
      BY <2>1, <2>2
    <2>4. Cardinality(Upto(k)) <= Cardinality(Upto(l))
          /\ Cardinality(Upto(k)) # Cardinality(Upto(l))
      <3>1. IsFiniteSet(Upto(l))
        BY <1>1
      <3> HIDE DEF Upto
      <3> QED  BY <2>3, <3>1, FS_Subset
    <2>5. Rank(K, k) = Cardinality(Upto(k)) /\ Rank(K, l) = Cardinality(Upto(l))
      BY DEF Rank
    <2>6. Rank(K, k) \in Nat /\ Rank(K, l) \in Nat
      BY <1>1
    <2> HIDE DEF Upto
    <2> QED  BY <2>4, <2>5, <2>6
  <1>4. i \in Int /\ j \in Int
    OBVIOUS
  <1> HIDE DEF Upto
  <1>5. Rank(K, i) \in 1 .. Cardinality(K)
    BY <1>1, <1>2
  <1>6. Rank(K, i) = Rank(K, j) => i = j
    <2>1. i < j \/ j < i \/ i = j
      BY <1>4
    <2>2. Rank(K, i) \in Nat /\ Rank(K, j) \in Nat
      BY <1>1
    <2> QED  BY <1>3, <2>1, <2>2
  <1> QED  BY <1>3, <1>5, <1>6

(* Each rank is that of a place. *)
LEMMA RankAll ==
  ASSUME NEW K, K \subseteq Int, IsFiniteSet(K), NEW n \in 1 .. Cardinality(K)
  PROVE  LET k == CHOOSE k \in K : Rank(K, k) = n IN k \in K /\ Rank(K, k) = n
  <1> DEFINE N == 1 .. Cardinality(K)
             r == [k \in K |-> Rank(K, k)]
  <1>1. Cardinality(K) \in Nat
    BY FS_CardinalityType
  <1>2. IsFiniteSet(N) /\ Cardinality(N) = Cardinality(K)
    BY <1>1, FS_Interval
  <1>3. \A k \in K : Rank(K, k) \in N
    BY RankGrows
  <1>4. r \in Injection(K, N)
    <2>1. r \in [K -> N]
      BY <1>3
    <2>2. \A i, j \in K : r[i] = r[j] => i = j
      BY RankGrows
    <2> HIDE DEF r, N
    <2> QED  BY <2>1, <2>2 DEF Injection, IsInjective
  <1>5. r \in Surjection(K, N)
    <2> HIDE DEF r, N
    <2> QED  BY <1>2, <1>4, FS_Injection
  <1>6. \A i \in N : \E k \in K : Rank(K, k) = i
    BY <1>5 DEF Surjection
  <1> QED  BY <1>6

(* An image has as many elements as there are places. *)
LEMMA ImageCount ==
  ASSUME NEW A, IsFiniteSet(A), NEW f, \A i, j \in A : f[i] = f[j] => i = j
  PROVE  IsFiniteSet({f[k] : k \in A}) /\ Cardinality({f[k] : k \in A}) = Cardinality(A)
  <1> DEFINE T == {f[k] : k \in A}
             g == [k \in A |-> f[k]]
  <1>1. g \in [A -> T] /\ \A k \in A : g[k] = f[k]
    OBVIOUS
  <1>2. \A y \in T : \E k \in A : g[k] = y
    OBVIOUS
  <1> HIDE DEF g, T
  <1>3. g \in Injection(A, T)
    BY <1>1 DEF Injection, IsInjective
  <1>4. g \in Surjection(A, T)
    BY <1>1, <1>2 DEF Surjection
  <1>5. ExistsBijection(A, T)
    BY <1>3, <1>4 DEF ExistsBijection, Bijection
  <1> QED  BY <1>5, FS_Bijection DEF T

(* A map that keeps the order keeps the ranks. *)
Orderly(f, K, T) ==
  /\ K \subseteq Int /\ IsFiniteSet(K)
  /\ \A k \in K : f[k] \in Int
  /\ \A i, j \in K : i < j => f[i] < f[j]
  /\ T = {f[k] : k \in K}

(* An orderly map keeps the ranks. *)
LEMMA RankMap ==
  ASSUME NEW f, NEW K, NEW T, Orderly(f, K, T)
  PROVE  /\ T \subseteq Int /\ IsFiniteSet(T) /\ Cardinality(T) = Cardinality(K)
         /\ \A k \in K : f[k] \in T /\ Rank(T, f[k]) = Rank(K, k)
  <1>0. /\ K \subseteq Int /\ IsFiniteSet(K) /\ T = {f[k] : k \in K}
        /\ (\A k \in K : f[k] \in Int) /\ (\A i, j \in K : i < j => f[i] < f[j])
    BY DEF Orderly
  <1>1. \A i, j \in K : f[i] <= f[j] <=> i <= j
    <2> TAKE i \in K, j \in K
    <2>1. i \in Int /\ j \in Int /\ f[i] \in Int /\ f[j] \in Int
      BY <1>0
    <2>2. (i < j => f[i] < f[j]) /\ (j < i => f[j] < f[i])
      BY <1>0
    <2> QED  BY <2>1, <2>2
  <1>2. \A i, j \in K : f[i] = f[j] => i = j
    <2> TAKE i \in K, j \in K
    <2>1. i \in Int /\ j \in Int /\ f[i] \in Int /\ f[j] \in Int
      BY <1>0
    <2>2. (i < j => f[i] < f[j]) /\ (j < i => f[j] < f[i])
      BY <1>0
    <2> QED  BY <2>1, <2>2
  <1>3. T \subseteq Int /\ IsFiniteSet(T) /\ Cardinality(T) = Cardinality(K)
    BY <1>0, <1>2, ImageCount
  <1>4. ASSUME NEW k \in K
        PROVE  Rank(T, f[k]) = Rank(K, k)
    <2> DEFINE A == {j \in K : j <= k}
    <2>1. IsFiniteSet(A)
      BY <1>0, FS_Subset
    <2>2. {y \in T : y <= f[k]} = {f[j] : j \in A}
      BY <1>0, <1>1
    <2>3. \A i, j \in A : f[i] = f[j] => i = j
      BY <1>2
    <2> HIDE DEF A
    <2>4. Cardinality({f[j] : j \in A}) = Cardinality(A)
      BY <2>1, <2>3, ImageCount
    <2> QED  BY <2>2, <2>4 DEF Rank, A
  <1> QED  BY <1>0, <1>3, <1>4

(* So does what is kept. *)
LEMMA KeptMap ==
  ASSUME NEW f, NEW K, NEW T, Orderly(f, K, T), NEW s, NEW t, \A k \in K : s[k] = t[f[k]]
  PROVE  Kept(s, K) = Kept(t, T)
  <1> DEFINE a(n) == CHOOSE k \in K : Rank(K, k) = n
             b(n) == CHOOSE k \in T : Rank(T, k) = n
  <1>1. /\ T \subseteq Int /\ IsFiniteSet(T) /\ Cardinality(T) = Cardinality(K)
        /\ \A k \in K : f[k] \in T /\ Rank(T, f[k]) = Rank(K, k)
    BY RankMap
  <1>2. K \subseteq Int /\ IsFiniteSet(K)
    BY DEF Orderly
  <1>3. ASSUME NEW n \in 1 .. Cardinality(K)
        PROVE  s[a(n)] = t[b(n)]
    <2>1. a(n) \in K /\ Rank(K, a(n)) = n
      BY <1>2, RankAll
    <2>2. b(n) \in T /\ Rank(T, b(n)) = n
      BY <1>1, RankAll
    <2> HIDE DEF a, b
    <2>3. f[a(n)] \in T /\ Rank(T, f[a(n)]) = Rank(T, b(n))
      BY <1>1, <2>1, <2>2
    <2>4. f[a(n)] = b(n)
      BY <1>1, <2>2, <2>3, RankGrows
    <2> QED  BY <2>1, <2>4
  <1>4. Kept(t, T) = [n \in 1 .. Cardinality(K) |-> t[b(n)]]
    BY <1>1 DEF Kept
  <1>5. Kept(s, K) = [n \in 1 .. Cardinality(K) |-> s[a(n)]]
    BY DEF Kept
  <1> HIDE DEF a, b
  <1> QED  BY <1>3, <1>4, <1>5

(* A place behind the others. *)
LEMMA RankAdd ==
  ASSUME NEW K, K \subseteq Int, IsFiniteSet(K), NEW x \in Int, \A k \in K : k < x
  PROVE  /\ Cardinality(K \cup {x}) = Cardinality(K) + 1 /\ IsFiniteSet(K \cup {x})
         /\ Rank(K \cup {x}, x) = Cardinality(K) + 1
         /\ \A k \in K : Rank(K \cup {x}, k) = Rank(K, k)
  <1>1. x \notin K
    OBVIOUS
  <1>2. Cardinality(K \cup {x}) = Cardinality(K) + 1 /\ IsFiniteSet(K \cup {x})
    BY <1>1, FS_AddElement
  <1>3. {k \in K \cup {x} : k <= x} = K \cup {x}
    <2>1. \A k \in K \cup {x} : k <= x
      OBVIOUS
    <2> QED  BY <2>1
  <1>4. ASSUME NEW k \in K
        PROVE  {j \in K \cup {x} : j <= k} = {j \in K : j <= k}
    <2>1. ~(x <= k)
      OBVIOUS
    <2> QED  BY <2>1
  <1> QED  BY <1>2, <1>3, <1>4 DEF Rank

(* The ranks of every other place. *)
LEMMA EveryOther ==
  ASSUME NEW h \in Int, NEW n \in Nat
  PROVE  LET T == {h + 2 * k : k \in 1 .. n} IN
         Cardinality(T) = n /\ \A k \in 1 .. n : Rank(T, h + 2 * k) = k
  <1> DEFINE K == 1 .. n
             f == [k \in K |-> h + 2 * k]
             T == {h + 2 * k : k \in K}
  <1>1. K \subseteq Int /\ IsFiniteSet(K) /\ Cardinality(K) = n
    BY FS_Interval
  <1>2. \A k \in K : f[k] = h + 2 * k /\ f[k] \in Int
    OBVIOUS
  <1>3. \A i, j \in K : i < j => f[i] < f[j]
    OBVIOUS
  <1>4. \A k \in K : Rank(K, k) = k
    <2> TAKE k \in K
    <2>1. {j \in K : j <= k} = 1 .. k
      OBVIOUS
    <2>2. Cardinality(1 .. k) = k
      BY FS_Interval
    <2> QED  BY <2>1, <2>2 DEF Rank
  <1> HIDE DEF K, f
  <1>5. T = {f[k] : k \in K}
    BY <1>2
  <1> HIDE DEF T
  <1>6. Cardinality(T) = n /\ \A k \in K : Rank(T, f[k]) = k
    <2>1. Orderly(f, K, T)
      BY <1>1, <1>2, <1>3, <1>5 DEF Orderly
    <2> QED  BY <1>1, <1>4, <2>1, RankMap
  <1> QED  BY <1>2, <1>6 DEF K, T

-----------------------------------------------------------------------------
(* The places from place i on that hold messages of a kind. *)
Places(q, i, id) == {j \in i .. Len(q) : q[j].id = id}

(* Any number of such places, but finitely many. *)
LEMMA PlacesFinite ==
  ASSUME NEW q \in Seq(Messages), NEW i \in Nat, NEW id
  PROVE  IsFiniteSet(Places(q, i, id)) /\ Cardinality(Places(q, i, id)) \in Nat
  <1>1. IsFiniteSet(i .. Len(q))
    BY FS_Interval
  <1> QED  BY <1>1, FS_Subset, FS_CardinalityType DEF Places

(* A message that is queued adds one place, or none. *)
LEMMA PlacesAppend ==
  ASSUME NEW q \in Seq(Messages), NEW m \in Messages, NEW i \in 1 .. Len(q) + 1, NEW id
  PROVE  /\ Places(Append(q, m), i, id)
              = Places(q, i, id) \cup (IF m.id = id THEN {Len(q) + 1} ELSE {})
         /\ Cardinality(Places(Append(q, m), i, id)) =
              Cardinality(Places(q, i, id)) + (IF m.id = id THEN 1 ELSE 0)
  <1>1. /\ Len(Append(q, m)) = Len(q) + 1
        /\ \A j \in 1 .. Len(q) : Append(q, m)[j] = q[j]
        /\ Append(q, m)[Len(q) + 1] = m
        /\ Len(q) \in Nat /\ i \in Nat
    OBVIOUS
  <1>2. i .. Len(q) + 1 = (i .. Len(q)) \cup {Len(q) + 1} /\ i .. Len(q) \subseteq 1 .. Len(q)
    BY <1>1
  <1>3. Places(Append(q, m), i, id) = Places(q, i, id) \cup (IF m.id = id THEN {Len(q) + 1} ELSE {})
    BY <1>1, <1>2 DEF Places
  <1>4. Len(q) + 1 \notin Places(q, i, id)
    BY <1>1 DEF Places
  <1>5. Cardinality(Places(q, i, id) \cup {Len(q) + 1}) = Cardinality(Places(q, i, id)) + 1
    BY <1>1, <1>4, PlacesFinite, FS_AddElement
  <1>6. Cardinality(Places(q, i, id)) \in Nat /\ Places(q, i, id) \cup {} = Places(q, i, id)
    BY <1>1, PlacesFinite
  <1>7. CASE m.id = id
    BY <1>3, <1>5, <1>7
  <1>8. CASE m.id # id
    <2>1. Places(Append(q, m), i, id) = Places(q, i, id)
      BY <1>3, <1>6, <1>8
    <2> QED  BY <2>1, <1>3, <1>6, <1>8
  <1> QED  BY <1>7, <1>8

(* When a message is received every other one moves up. *)
LEMMA PlacesTail ==
  ASSUME NEW q \in Seq(Messages), q # << >>, NEW i \in 1 .. Len(q), NEW id
  PROVE  Cardinality(Places(Tail(q), i, id)) = Cardinality(Places(q, i + 1, id))
  <1> DEFINE R == Places(q, i + 1, id)
             S == Places(Tail(q), i, id)
             f == [j \in S |-> j + 1]
  <1>1. /\ Len(Tail(q)) = Len(q) - 1 /\ Len(q) \in Nat \ {0} /\ Tail(q) \in Seq(Messages)
        /\ \A j \in 1 .. Len(Tail(q)) : Tail(q)[j] = q[j + 1]
        /\ i \in Nat /\ i > 0
    OBVIOUS
  <1>2. \A j \in S : j \in 1 .. Len(Tail(q)) /\ f[j] = j + 1 /\ f[j] \in R
    <2> TAKE j \in S
    <2>1. j \in i .. Len(Tail(q)) /\ Tail(q)[j].id = id
      BY DEF Places
    <2>2. j \in 1 .. Len(Tail(q)) /\ j + 1 \in (i + 1) .. Len(q)
      BY <1>1, <2>1
    <2> QED  BY <1>1, <2>1, <2>2 DEF Places
  <1>3. \A j \in R : j - 1 \in S /\ f[j - 1] = j
    <2> SUFFICES ASSUME NEW j \in R PROVE j - 1 \in S /\ f[j - 1] = j
      OBVIOUS
    <2>1. j \in (i + 1) .. Len(q) /\ q[j].id = id
      BY DEF Places
    <2>2. j - 1 \in 1 .. Len(Tail(q)) /\ j - 1 \in i .. Len(Tail(q)) /\ (j - 1) + 1 = j
      BY <1>1, <2>1
    <2>3. j - 1 \in S
      BY <1>1, <2>1, <2>2 DEF Places
    <2> QED  BY <2>2, <2>3
  <1>4. f \in Bijection(S, R)
    <2>1. \A j, k \in S : f[j] = f[k] => j = k
      BY <1>1, <1>2
    <2>2. f \in [S -> R]
      BY <1>2
    <2>3. \A j \in R : \E k \in S : f[k] = j
      BY <1>3
    <2> HIDE DEF f, R, S
    <2>4. f \in Injection(S, R)
      BY <2>1, <2>2 DEF Injection, IsInjective
    <2>5. f \in Surjection(S, R)
      BY <2>2, <2>3 DEF Surjection
    <2> QED  BY <2>4, <2>5 DEF Bijection
  <1>5. ExistsBijection(S, R) /\ IsFiniteSet(S)
    BY <1>1, <1>4, PlacesFinite DEF ExistsBijection
  <1> HIDE DEF S, R
  <1>6. Cardinality(S) = Cardinality(R)
    BY <1>5, FS_Bijection
  <1> QED  BY <1>6 DEF S, R

(* The message that is received was in the first place. *)
LEMMA PlacesHead ==
  ASSUME NEW q \in Seq(Messages), q # << >>, NEW id
  PROVE  Cardinality(Places(q, 1, id)) =
           Cardinality(Places(q, 2, id)) + (IF Head(q).id = id THEN 1 ELSE 0)
  <1>1. Len(q) \in Nat \ {0} /\ Head(q) = q[1]
    OBVIOUS
  <1>2. Places(q, 2, id) = Places(q, 1, id) \ {1}
    BY <1>1 DEF Places
  <1>3. 1 \in Places(q, 1, id) <=> Head(q).id = id
    BY <1>1 DEF Places
  <1>4. Cardinality(Places(q, 1, id) \ {1}) = IF 1 \in Places(q, 1, id)
          THEN Cardinality(Places(q, 1, id)) - 1 ELSE Cardinality(Places(q, 1, id))
    BY PlacesFinite, FS_RemoveElement
  <1>5. Cardinality(Places(q, 1, id)) \in Nat
    BY PlacesFinite
  <1>6. CASE Head(q).id = id
    <2>1. Cardinality(Places(q, 2, id)) = Cardinality(Places(q, 1, id)) - 1
      BY <1>2, <1>3, <1>4, <1>6
    <2> QED  BY <1>5, <1>6, <2>1
  <1>7. CASE Head(q).id # id
    <2>1. Cardinality(Places(q, 2, id)) = Cardinality(Places(q, 1, id))
      BY <1>2, <1>3, <1>4, <1>7
    <2> QED  BY <1>5, <1>7, <2>1
  <1> QED  BY <1>6, <1>7

(* The places of the stripes in a sequence of messages. *)
Sends(q) == {i \in 1 .. Len(q) : q[i].id = "send"}

(* The stripes are the messages of one kind. *)
LEMMA SendsArePlaces ==
  ASSUME NEW q \in Seq(Messages)
  PROVE  Sends(q) = Places(q, 1, "send")
  BY DEF Sends, Places

(* So they can be counted. *)
LEMMA SendsFinite ==
  ASSUME NEW q \in Seq(Messages)
  PROVE  IsFiniteSet(Sends(q)) /\ Cardinality(Sends(q)) \in Nat
  BY PlacesFinite, SendsArePlaces

(* A message that is queued adds one stripe, or none. *)
LEMMA SendsAppend ==
  ASSUME NEW q \in Seq(Messages), NEW m \in Messages
  PROVE  /\ Sends(Append(q, m)) = Sends(q) \cup (IF m.id = "send" THEN {Len(q) + 1} ELSE {})
         /\ Cardinality(Sends(Append(q, m))) =
              Cardinality(Sends(q)) + (IF m.id = "send" THEN 1 ELSE 0)
  <1>1. Append(q, m) \in Seq(Messages) /\ 1 \in 1 .. Len(q) + 1
    OBVIOUS
  <1>2. /\ Places(Append(q, m), 1, "send")
              = Places(q, 1, "send") \cup (IF m.id = "send" THEN {Len(q) + 1} ELSE {})
        /\ Cardinality(Places(Append(q, m), 1, "send")) =
              Cardinality(Places(q, 1, "send")) + (IF m.id = "send" THEN 1 ELSE 0)
    BY <1>1, PlacesAppend
  <1>3. Sends(q) = Places(q, 1, "send") /\ Sends(Append(q, m)) = Places(Append(q, m), 1, "send")
    BY <1>1, SendsArePlaces
  <1> QED  BY <1>2, <1>3

(* A message that is received takes one stripe away, or none. *)
LEMMA SendsTail ==
  ASSUME NEW q \in Seq(Messages), q # << >>
  PROVE  /\ \A i \in 1 .. Len(Tail(q)) : i \in Sends(Tail(q)) <=> i + 1 \in Sends(q)
         /\ Cardinality(Sends(q)) =
              Cardinality(Sends(Tail(q))) + (IF Head(q).id = "send" THEN 1 ELSE 0)
  <1>1. /\ Len(Tail(q)) = Len(q) - 1 /\ Len(q) \in Nat \ {0} /\ Tail(q) \in Seq(Messages)
        /\ \A i \in 1 .. Len(Tail(q)) : Tail(q)[i] = q[i + 1]
        /\ 1 \in 1 .. Len(q)
    OBVIOUS
  <1>2. \A i \in 1 .. Len(Tail(q)) : i \in Sends(Tail(q)) <=> i + 1 \in Sends(q)
    BY <1>1 DEF Sends
  <1>3. Cardinality(Places(Tail(q), 1, "send")) = Cardinality(Places(q, 2, "send"))
    BY <1>1, PlacesTail
  <1>4. Sends(q) = Places(q, 1, "send") /\ Sends(Tail(q)) = Places(Tail(q), 1, "send")
    BY <1>1, SendsArePlaces
  <1>5. Cardinality(Places(q, 1, "send")) =
          Cardinality(Places(q, 2, "send")) + (IF Head(q).id = "send" THEN 1 ELSE 0)
    BY PlacesHead
  <1> QED  BY <1>2, <1>3, <1>4, <1>5

(* Stripes at the end of a queue are no more than the stripes in it. *)
LEMMA SendsAtEnd ==
  ASSUME NEW q \in Seq(Messages), NEW i \in 1 .. Len(q) + 1, i .. Len(q) \subseteq Sends(q)
  PROVE  Len(q) - i + 1 <= Cardinality(Sends(q))
  <1>1. Len(q) \in Nat /\ Cardinality(Sends(q)) \in Nat
    BY SendsFinite
  <1>2. i \in Nat /\ i <= Len(q) + 1
    BY <1>1
  <1>3. Cardinality(i .. Len(q)) = IF i > Len(q) THEN 0 ELSE Len(q) - i + 1
    <2>1. \A a, b \in Int : Cardinality(a .. b) = IF a > b THEN 0 ELSE b - a + 1
      BY FS_Interval
    <2>2. i \in Int /\ Len(q) \in Int
      BY <1>1, <1>2
    <2> QED  BY <2>1, <2>2, Zenon
  <1>4. Cardinality(i .. Len(q)) <= Cardinality(Sends(q))
    BY SendsFinite, FS_Subset
  <1>5. CASE i > Len(q)
    BY <1>1, <1>2, <1>5
  <1>6. CASE ~(i > Len(q))
    <2>1. Cardinality(i .. Len(q)) = Len(q) - i + 1
      BY <1>3, <1>6
    <2> QED  BY <2>1, <1>4
  <1> QED  BY <1>5, <1>6

(* The parts of a message. *)
LEMMA MessageParts ==
  ASSUME NEW m \in Messages
  PROVE  /\ m.id \in {"startJob", "startPage", "send", "endPage", "endJob"}
         /\ m.id = "send" => m.page \in Pages /\ m.index \in Indexes
         /\ m.id \in {"startPage", "endPage"} => m.page \in Pages
  <1>1. CASE m \in {Msg("startJob", 0), Msg("endJob", 0)}
    BY <1>1 DEF Msg
  <1>2. CASE m \in {Msg("startPage", p) : p \in Pages}
    BY <1>2 DEF Msg
  <1>3. CASE m \in [id : {"send"}, page : Pages, index : Indexes, row : Nat, late : BOOLEAN]
    BY <1>3
  <1>4. CASE m \in [id : {"endPage"}, page : Pages, frees : BOOLEAN]
    BY <1>4
  <1> QED  BY <1>1, <1>2, <1>3, <1>4 DEF Messages

(* The messages without a buffer. *)
LEMMA MessagesMade ==
  /\ Msg("startJob", 0) \in Messages /\ Msg("startJob", 0).id = "startJob"
  /\ Msg("endJob", 0) \in Messages /\ Msg("endJob", 0).id = "endJob"
  /\ \A p \in Pages : /\ Msg("startPage", p) \in Messages
                       /\ Msg("startPage", p).id = "startPage"
  /\ \A p \in Pages, b \in BOOLEAN : /\ EndPageMsg(p, b) \in Messages
                                     /\ EndPageMsg(p, b).id = "endPage"
  <1>1. /\ Msg("startJob", 0).id = "startJob" /\ Msg("endJob", 0).id = "endJob"
        /\ \A p \in Pages : Msg("startPage", p).id = "startPage"
        /\ \A p \in Pages, b \in BOOLEAN : EndPageMsg(p, b).id = "endPage"
    BY DEF Msg, EndPageMsg
  <1>2. \A p \in Pages : Msg("startPage", p) \in Messages
    BY DEF Messages
  <1>3. Msg("startJob", 0) \in Messages /\ Msg("endJob", 0) \in Messages
    BY DEF Messages
  <1>4. \A p \in Pages, b \in BOOLEAN : EndPageMsg(p, b) \in Messages
    BY DEF Messages, EndPageMsg
  <1> QED  BY <1>1, <1>2, <1>3, <1>4

(* The message of a stripe. *)
LEMMA StripeMade ==
  ASSUME NEW p \in Pages, NEW i \in Indexes, NEW n \in Nat, NEW b \in BOOLEAN
  PROVE  /\ SendMsg(p, i, n, b) \in Messages
         /\ SendMsg(p, i, n, b).id = "send"
         /\ SendMsg(p, i, n, b).page = p
         /\ SendMsg(p, i, n, b).index = i
  BY DEF Messages, SendMsg

(* The buffer that was filled d stripes before buffer x. *)
Back(x, d) == IF x >= d THEN x - d ELSE x - d + MaxSendBuffs

InLoop == prod.pc \in {"loop", "fill", "put"}

(* Where the job thread is in a page, and which pages are on their way. *)
Placed ==
  /\ prod.pc \in {"loop", "fill", "put", "endPage"} => prod.page \in Pages
  /\ prod.pc \in {"fill", "put"} => prod.left > 0 /\ ~prod.failed
  /\ \A i \in Sends(queue) : queue[i].page <= prod.page
  /\ send.pc = "swath" => send.msg.id = "send" /\ send.msg.page <= prod.page

(* The stripes of the page in the loop are the last ones in the queue, and
   their buffers are those before the next one, in the order of the ring. *)
Ring ==
  InLoop /\ ~prod.failed =>
    /\ \A i \in Sends(queue) : queue[i].page = prod.page =>
         /\ i .. Len(queue) \subseteq Sends(queue)
         /\ queue[i].index = Back(prod.index, Len(queue) - i + 1)
    /\ send.pc = "swath" /\ send.msg.page = prod.page =>
         /\ 1 .. Len(queue) \subseteq Sends(queue)
         /\ send.msg.index = Back(prod.index, Len(queue) + 1)

Inv == TypeOK /\ PermitsKept /\ Placed /\ Ring

(* What happens to the queue when a message is put into it, or refused. *)
LEMMA PutStep ==
  ASSUME TypeOK, NEW m \in Messages, Put(m)
  PROVE  /\ queue' \in Seq(Messages) /\ Len(queue') <= QueueSize
         /\ Len(queue') = Len(queue) + (IF HasRoom THEN 1 ELSE 0)
         /\ Cardinality(Sends(queue')) = Cardinality(Sends(queue))
              + (IF HasRoom /\ m.id = "send" THEN 1 ELSE 0)
         /\ Sends(queue') = Sends(queue)
              \cup (IF HasRoom /\ m.id = "send" THEN {Len(queue) + 1} ELSE {})
         /\ \A i \in 1 .. Len(queue) : queue'[i] = queue[i]
         /\ HasRoom => queue'[Len(queue) + 1] = m
  <1>1. queue \in Seq(Messages) /\ Len(queue) \in Nat /\ Len(queue) <= QueueSize
        /\ QueueSize \in Nat
    BY PclAssumption DEF TypeOK
  <1>2. Cardinality(Sends(queue)) \in Nat
    BY <1>1, SendsFinite
  <1>3. CASE HasRoom
    <2>1. queue' = Append(queue, m)
      BY <1>3 DEF Put
    <2>2. /\ Sends(queue') = Sends(queue) \cup (IF m.id = "send" THEN {Len(queue) + 1} ELSE {})
          /\ Cardinality(Sends(queue')) =
               Cardinality(Sends(queue)) + (IF m.id = "send" THEN 1 ELSE 0)
      BY <1>1, <2>1, SendsAppend
    <2>3. /\ queue' \in Seq(Messages) /\ Len(queue') = Len(queue) + 1
          /\ \A i \in 1 .. Len(queue) : queue'[i] = queue[i]
          /\ queue'[Len(queue) + 1] = m
      BY <1>1, <2>1
    <2>4. Len(queue') <= QueueSize
      BY <1>1, <1>3, <2>3 DEF HasRoom
    <2> QED  BY <1>3, <2>2, <2>3, <2>4
  <1>4. CASE ~HasRoom
    <2>1. queue' = queue
      BY <1>4 DEF Put
    <2>2. Sends(queue) = Sends(queue) \cup {}
      OBVIOUS
    <2> QED  BY <1>1, <1>2, <1>4, <2>1, <2>2
  <1> QED  BY <1>3, <1>4

(* What happens to it when the send thread takes a message. *)
LEMMA TakeStep ==
  ASSUME TypeOK, NEW id, Take(id)
  PROVE  /\ send.pc = "receive"
         /\ queue' \in Seq(Messages) /\ Len(queue') <= QueueSize
         /\ Len(queue) \in Nat \ {0} /\ Len(queue') = Len(queue) - 1
         /\ Head(queue) = queue[1] /\ Head(queue) \in Messages /\ Head(queue).id = id
         /\ \A i \in 1 .. Len(queue') :
              queue'[i] = queue[i + 1] /\ (i \in Sends(queue') <=> i + 1 \in Sends(queue))
         /\ Cardinality(Sends(queue)) =
              Cardinality(Sends(queue')) + (IF id = "send" THEN 1 ELSE 0)
  <1>1. /\ queue \in Seq(Messages) /\ queue # << >> /\ Len(queue) <= QueueSize
        /\ QueueSize \in Nat
        /\ send.pc = "receive" /\ Head(queue).id = id /\ queue' = Tail(queue)
    BY PclAssumption DEF TypeOK, Take
  <1>2. /\ queue' \in Seq(Messages)
        /\ Len(queue) \in Nat \ {0} /\ Len(queue') = Len(queue) - 1
        /\ Head(queue) = queue[1] /\ Head(queue) \in Messages
        /\ \A i \in 1 .. Len(queue') : queue'[i] = queue[i + 1]
    BY <1>1
  <1>3. Len(queue') <= QueueSize
    BY <1>1, <1>2
  <1>4. /\ \A i \in 1 .. Len(queue') : i \in Sends(queue') <=> i + 1 \in Sends(queue)
        /\ Cardinality(Sends(queue)) =
             Cardinality(Sends(queue')) + (IF id = "send" THEN 1 ELSE 0)
    BY <1>1, SendsTail
  <1> QED  BY <1>1, <1>2, <1>3, <1>4

(* Everything the job thread queues is a message. *)
LEMMA Produced ==
  ASSUME TypeOK, Placed
  PROVE  /\ prod.page < MaxPages => prod.page + 1 \in Pages
         /\ prod.pc = "put" =>
              SendMsg(prod.page, prod.index, prod.row, prod.late) \in Messages
         /\ prod.pc = "endPage" => EndPageMsg(prod.page, prod.frees) \in Messages
  <1>1. /\ prod.page \in 0 .. MaxPages /\ prod.index \in Indexes /\ prod.row \in Nat
        /\ prod.late \in BOOLEAN /\ prod.frees \in BOOLEAN
    BY DEF TypeOK
  <1>2. prod.page < MaxPages => prod.page + 1 \in Pages
    BY <1>1, PclAssumption DEF Pages
  <1>3. prod.pc = "put" => SendMsg(prod.page, prod.index, prod.row, prod.late) \in Messages
    BY <1>1, StripeMade DEF Placed
  <1>4. prod.pc = "endPage" => EndPageMsg(prod.page, prod.frees) \in Messages
    BY <1>1, MessagesMade DEF Placed
  <1> QED  BY <1>2, <1>3, <1>4

(* The stripes that are on their way, and the permits, are numbers. *)
LEMMA Counts ==
  ASSUME TypeOK
  PROVE  /\ permits \in Nat /\ MaxSendBuffs \in Nat \ {0}
         /\ Len(queue) \in Nat
         /\ Cardinality(Sends(queue)) \in Nat /\ Queued = Sends(queue)
         /\ prod.index \in 0 .. MaxSendBuffs - 1
  <1>1. permits \in 0 .. MaxSendBuffs /\ queue \in Seq(Messages) /\ prod.index \in Indexes
    BY DEF TypeOK
  <1>2. Queued = Sends(queue)
    BY DEF Queued, Sends
  <1> QED  BY <1>1, <1>2, SendsFinite, PclAssumption DEF Indexes

(* Both sides of the account of the permits. *)
WithJobThread  == IF prod.pc \in {"fill", "put"} THEN 1 ELSE 0
WithSendThread == IF send.pc = "swath" THEN 1 ELSE 0

(* The invariant holds when the job starts. *)
LEMMA InitInv == Init => Inv
  <1> SUFFICES ASSUME Init PROVE Inv
    OBVIOUS
  <1>1. /\ queue = <<Msg("startJob", 0)>> /\ queue \in Seq(Messages) /\ Len(queue) = 1
        /\ queue[1].id = "startJob"
    BY MessagesMade DEF Init
  <1>2. Sends(queue) = {} /\ Queued = {}
    BY <1>1 DEF Sends, Queued
  <1>3. PermitsKept
    BY <1>2, FS_EmptySet, PclAssumption DEF Init, PermitsKept
  <1>4. Placed /\ Ring
    BY <1>2 DEF Init, Placed, Ring, InLoop
  <1>5. TypeOK
    <2>1. 0 \in Indexes /\ 0 \in 0 .. MaxPages
      BY PclAssumption DEF Indexes
    <2>2. mem \in [Pages -> [Indexes -> {"none", "junk", "image", "blank"}]]
      BY DEF Init, NoPool
    <2>3. send \in [pc : {"receive", "swath", "ended"}, msg : Messages]
      BY MessagesMade DEF Init
    <2>4. permits \in 0 .. MaxSendBuffs /\ 0 \in 0 .. MaxSendBuffs /\ 1 <= QueueSize
      BY PclAssumption DEF Init
    <2> QED  BY <1>1, <2>1, <2>2, <2>3, <2>4 DEF Init, TypeOK
  <1> QED  BY <1>3, <1>4, <1>5 DEF Inv

(* The account of the permits, now and after a step. *)
LEMMA Account ==
  PermitsKept <=> permits + WithJobThread + Cardinality(Sends(queue)) + WithSendThread
                    = MaxSendBuffs
  <1>1. Queued = Sends(queue)
    BY DEF Queued, Sends
  <1> QED  BY <1>1 DEF PermitsKept, WithJobThread, WithSendThread

(* The account after a step. *)
LEMMA AccountPrime ==
  PermitsKept' <=> permits' + WithJobThread' + Cardinality(Sends(queue')) + WithSendThread'
                    = MaxSendBuffs
  <1>1. Queued' = Sends(queue')
    BY DEF Queued, Sends
  <1> QED  BY <1>1 DEF PermitsKept, WithJobThread, WithSendThread

(* Every step keeps the account of the permits. *)
LEMMA PermitsStep ==
  ASSUME TypeOK, PermitsKept, Placed, Next
  PROVE  PermitsKept' /\ permits' \in 0 .. MaxSendBuffs
  <1>1. /\ permits \in Nat /\ MaxSendBuffs \in Nat /\ Cardinality(Sends(queue)) \in Nat
        /\ permits + WithJobThread + Cardinality(Sends(queue)) + WithSendThread = MaxSendBuffs
    BY Counts, Account
  <1>2. WithJobThread \in {0, 1} /\ WithSendThread \in {0, 1}
        /\ WithJobThread' \in {0, 1} /\ WithSendThread' \in {0, 1}
    BY DEF WithJobThread, WithSendThread
  <1>3. prod \in [pc : {"idle", "loop", "fill", "put", "endPage", "end", "join", "gone"},
               page : 0 .. MaxPages, left : Nat, row : Nat, index : Indexes,
               blank : 0 .. MaxSendBuffs, late : BOOLEAN, failed : BOOLEAN,
               frees : BOOLEAN, back : BOOLEAN]
        /\ send \in [pc : {"receive", "swath", "ended"}, msg : Messages]
    BY DEF TypeOK
  <1> DEFINE Balance ==
        /\ Cardinality(Sends(queue')) \in Nat /\ permits' \in Nat
        /\ permits' + WithJobThread' + Cardinality(Sends(queue')) + WithSendThread'
             = permits + WithJobThread + Cardinality(Sends(queue)) + WithSendThread
  <1>4. Balance => PermitsKept' /\ permits' \in 0 .. MaxSendBuffs
    BY <1>1, <1>2, AccountPrime
  <1> SUFFICES Balance
    BY <1>4
  <1>a. CASE Cancel
    BY <1>a, <1>1 DEF Cancel, WithJobThread, WithSendThread
  <1>b. CASE \E n \in Stripes : BeginPage(n)
    <2> PICK n \in Stripes : BeginPage(n)
      BY <1>b
    <2>1. Put(Msg("startPage", prod.page + 1)) /\ prod.page + 1 \in Pages
      BY Produced DEF BeginPage, NewPage
    <2>2. Cardinality(Sends(queue')) = Cardinality(Sends(queue))
      BY <2>1, <1>1, PutStep, MessagesMade
    <2> QED  BY <2>2, <1>1, <1>3 DEF BeginPage, NewPage, WithJobThread, WithSendThread
  <1>c. CASE \E n \in 0 .. (MaxSendBuffs - 1) : BreakPage(n)
    BY <1>c, <1>1, <1>3 DEF BreakPage, NewPage, WithJobThread, WithSendThread
  <1>d. CASE AbandonPage
    BY <1>d, <1>1, <1>3 DEF AbandonPage, NewPage, WithJobThread, WithSendThread
  <1>e. CASE WaitBuffer
    BY <1>e, <1>1, <1>3 DEF WaitBuffer, WithJobThread, WithSendThread
  <1>f. CASE Fill
    BY <1>f, <1>1, <1>3 DEF Fill, Filled, WithJobThread, WithSendThread
  <1>g. CASE FillFails
    BY <1>g, <1>1, <1>3 DEF FillFails, WithJobThread, WithSendThread
  <1>h. CASE SendStripe
    <2>1. Cardinality(Sends(queue')) = Cardinality(Sends(queue)) + (IF HasRoom THEN 1 ELSE 0)
      <3>1. /\ prod.page \in Pages /\ prod.index \in Indexes /\ prod.row \in Nat
            /\ prod.late \in BOOLEAN
        BY <1>h, <1>3 DEF Placed, SendStripe
      <3> QED  BY <3>1, <1>h, PutStep, StripeMade DEF SendStripe
    <2> QED  BY <2>1, <1>h, <1>1, <1>3 DEF SendStripe, WithJobThread, WithSendThread
  <1>i. CASE LoopEnds
    BY <1>i, <1>1, <1>3 DEF LoopEnds, WithJobThread, WithSendThread
  <1>j. CASE EndPage
    <2>1. Cardinality(Sends(queue')) = Cardinality(Sends(queue))
      <3>1. prod.page \in Pages /\ prod.frees \in BOOLEAN
        BY <1>j, <1>3 DEF Placed, EndPage
      <3> QED  BY <3>1, <1>j, <1>1, PutStep, MessagesMade DEF EndPage
    <2> QED  BY <2>1, <1>j, <1>1, <1>3 DEF EndPage, WithJobThread, WithSendThread
  <1>k. CASE BlankPage
    <2>1. Cardinality(Sends(queue')) = Cardinality(Sends(queue))
      <3>1. prod.page + 1 \in Pages
        BY <1>k, Produced DEF BlankPage, NewPage
      <3> QED  BY <3>1, <1>k, <1>1, PutStep, MessagesMade DEF BlankPage
    <2> QED  BY <2>1, <1>k, <1>1, <1>3 DEF BlankPage, NewPage, WithJobThread, WithSendThread
  <1>l. CASE EndJob
    <2>1. Cardinality(Sends(queue')) = Cardinality(Sends(queue))
      BY <1>l, <1>1, PutStep, MessagesMade DEF EndJob
    <2> QED  BY <2>1, <1>l, <1>1, <1>3 DEF EndJob, WithJobThread, WithSendThread
  <1>m. CASE Join
    BY <1>m, <1>1, <1>3 DEF Join, WithJobThread, WithSendThread
  <1>n. CASE StartsJob
    <2>1. Take("startJob")
      BY <1>n DEF StartsJob
    <2>2. /\ Cardinality(Sends(queue')) = Cardinality(Sends(queue))
          /\ send.pc = "receive"
      BY <2>1, <1>1, TakeStep, SendsFinite
    <2> QED  BY <2>2, <1>n, <1>1, <1>3 DEF StartsJob, WithJobThread, WithSendThread
  <1>o. CASE StartsPage
    <2>1. Take("startPage")
      BY <1>o DEF StartsPage
    <2>2. /\ Cardinality(Sends(queue')) = Cardinality(Sends(queue))
          /\ send.pc = "receive"
      BY <2>1, <1>1, TakeStep, SendsFinite
    <2> QED  BY <2>2, <1>o, <1>1, <1>3 DEF StartsPage, WithJobThread, WithSendThread
  <1>q. CASE EndsPage
    <2>1. Take("endPage")
      BY <1>q DEF EndsPage
    <2>2. /\ Cardinality(Sends(queue')) = Cardinality(Sends(queue))
          /\ send.pc = "receive"
      BY <2>1, <1>1, TakeStep, SendsFinite
    <2> QED  BY <2>2, <1>q, <1>1, <1>3 DEF EndsPage, WithJobThread, WithSendThread
  <1>r. CASE EndsJob
    <2>1. Take("endJob")
      BY <1>r DEF EndsJob
    <2>2. /\ Cardinality(Sends(queue')) = Cardinality(Sends(queue))
          /\ send.pc = "receive"
      BY <2>1, <1>1, TakeStep, SendsFinite
    <2> QED  BY <2>2, <1>r, <1>1, <1>3 DEF EndsJob, WithJobThread, WithSendThread
  <1>p. CASE BeginsSwath
    <2>1. Take("send")
      BY <1>p DEF BeginsSwath
    <2>2. /\ Cardinality(Sends(queue)) = Cardinality(Sends(queue')) + 1
          /\ Cardinality(Sends(queue')) \in Nat /\ send.pc = "receive"
      BY <2>1, TakeStep, SendsFinite
    <2> QED  BY <2>2, <1>p, <1>1, <1>3 DEF BeginsSwath, WithJobThread, WithSendThread
  <1>s. CASE EndsSwath
    BY <1>s, <1>1, <1>3 DEF EndsSwath, WithJobThread, WithSendThread
  <1> QED  BY <1>a, <1>b, <1>c, <1>d, <1>e, <1>f, <1>g, <1>h, <1>i, <1>j, <1>k, <1>l, <1>m,
              <1>n, <1>o, <1>p, <1>q, <1>r, <1>s DEF Next, JobThread, SendThread

(* Every step keeps each part of TypeOK. *)
LEMMA QueueType ==
  ASSUME TypeOK, Placed, Next
  PROVE  queue' \in Seq(Messages) /\ Len(queue') <= QueueSize
  <1>a. CASE Cancel
    BY <1>a DEF TypeOK, Cancel
  <1>b. CASE \E n \in Stripes : BeginPage(n)
    BY <1>b, Produced, PutStep, MessagesMade DEF BeginPage, NewPage
  <1>c. CASE \E n \in 0 .. (MaxSendBuffs - 1) : BreakPage(n)
    BY <1>c DEF TypeOK, BreakPage
  <1>d. CASE AbandonPage
    BY <1>d DEF TypeOK, AbandonPage
  <1>e. CASE WaitBuffer
    BY <1>e DEF TypeOK, WaitBuffer
  <1>f. CASE Fill
    BY <1>f DEF TypeOK, Fill, Filled
  <1>g. CASE FillFails
    BY <1>g DEF TypeOK, FillFails
  <1>h. CASE SendStripe
    BY <1>h, Produced, PutStep DEF SendStripe
  <1>i. CASE LoopEnds
    BY <1>i DEF TypeOK, LoopEnds
  <1>j. CASE EndPage
    BY <1>j, Produced, PutStep DEF EndPage
  <1>k. CASE BlankPage
    BY <1>k, Produced, PutStep, MessagesMade DEF BlankPage, NewPage
  <1>l. CASE EndJob
    BY <1>l, PutStep, MessagesMade DEF EndJob
  <1>m. CASE Join
    BY <1>m DEF TypeOK, Join
  <1>n. CASE StartsJob
    BY <1>n, TakeStep DEF StartsJob
  <1>o. CASE StartsPage
    BY <1>o, TakeStep DEF StartsPage
  <1>p. CASE BeginsSwath
    BY <1>p, TakeStep DEF BeginsSwath
  <1>q. CASE EndsPage
    BY <1>q, TakeStep DEF EndsPage
  <1>r. CASE EndsJob
    BY <1>r, TakeStep DEF EndsJob
  <1>s. CASE EndsSwath
    BY <1>s DEF TypeOK, EndsSwath
  <1> QED  BY <1>a, <1>b, <1>c, <1>d, <1>e, <1>f, <1>g, <1>h, <1>i, <1>j, <1>k, <1>l, <1>m,
              <1>n, <1>o, <1>p, <1>q, <1>r, <1>s DEF Next, JobThread, SendThread

(* What the job thread is in. *)
LEMMA ProdType ==
  ASSUME TypeOK, Placed, Next
  PROVE  (/\ prod \in [pc : {"idle", "loop", "fill", "put", "endPage", "end", "join", "gone"},
                       page : 0 .. MaxPages, left : Nat, row : Nat, index : Indexes,
                       blank : 0 .. MaxSendBuffs, late : BOOLEAN, failed : BOOLEAN,
                       frees : BOOLEAN, back : BOOLEAN]
          /\ cancelled \in BOOLEAN)'
  <1>1. /\ prod \in [pc : {"idle", "loop", "fill", "put", "endPage", "end", "join", "gone"},
                     page : 0 .. MaxPages, left : Nat, row : Nat, index : Indexes,
                     blank : 0 .. MaxSendBuffs, late : BOOLEAN, failed : BOOLEAN,
                     frees : BOOLEAN, back : BOOLEAN]
        /\ cancelled \in BOOLEAN
    BY DEF TypeOK
  <1>2. /\ MaxSendBuffs \in Nat \ {0} /\ MaxPages \in Nat /\ Stripes \subseteq Nat
        /\ 0 \in Indexes /\ \A i \in Indexes : (i + 1) % MaxSendBuffs \in Indexes
    BY PclAssumption DEF Indexes
  <1>a. CASE Cancel
    BY <1>a, <1>1, <1>2 DEF Cancel
  <1>b. CASE \E n \in Stripes : BeginPage(n)
    <2> PICK n \in Stripes : BeginPage(n)
      BY <1>b
    <2>1. prod.page + 1 \in 0 .. MaxPages /\ n \in Nat
      BY <1>1, <1>2 DEF BeginPage, NewPage
    <2>2. prod' = [prod EXCEPT !.pc = "loop", !.page = prod.page + 1, !.left = n,
                               !.row = 0, !.index = 0, !.blank = 0,
                               !.failed = FALSE, !.frees = TRUE]
          /\ cancelled' = cancelled
      BY DEF BeginPage
    <2>3. 0 \in Nat /\ 0 \in 0 .. MaxSendBuffs /\ 0 \in Indexes
          /\ TRUE \in BOOLEAN /\ FALSE \in BOOLEAN
      BY <1>2
    <2> DEFINE q == [prod EXCEPT !.pc = "loop", !.page = prod.page + 1, !.left = n,
                                 !.row = 0, !.index = 0, !.blank = 0]
    <2>4. q \in [pc : {"idle", "loop", "fill", "put", "endPage", "end", "join", "gone"},
                 page : 0 .. MaxPages, left : Nat, row : Nat, index : Indexes,
                 blank : 0 .. MaxSendBuffs, late : BOOLEAN, failed : BOOLEAN,
                 frees : BOOLEAN, back : BOOLEAN]
      BY <1>1, <2>1, <2>3
    <2>5. prod' = [q EXCEPT !.failed = FALSE, !.frees = TRUE]
      BY <1>1, <2>2
    <2> HIDE DEF q
    <2> QED  BY <1>1, <2>2, <2>3, <2>4, <2>5
  <1>c. CASE \E n \in 0 .. (MaxSendBuffs - 1) : BreakPage(n)
    <2> PICK n \in 0 .. (MaxSendBuffs - 1) : BreakPage(n)
      BY <1>c
    <2>1. prod.page + 1 \in 0 .. MaxPages /\ (n > 0) \in BOOLEAN
      BY <1>1, <1>2 DEF BreakPage, NewPage
    <2>2. prod' = [prod EXCEPT !.pc = "endPage", !.page = prod.page + 1,
                               !.frees = n > 0]
          /\ cancelled' = cancelled
      BY DEF BreakPage
    <2> QED  BY <1>1, <2>1, <2>2
  <1>d. CASE AbandonPage
    <2>1. prod.page + 1 \in 0 .. MaxPages
      BY <1>d, <1>1, <1>2 DEF AbandonPage, NewPage
    <2> QED  BY <1>d, <1>1, <2>1 DEF AbandonPage
  <1>e. CASE WaitBuffer
    BY <1>e, <1>1, <1>2 DEF WaitBuffer
  <1>f. CASE Fill
    <2>1. PICK blank \in 0 .. MaxSendBuffs :
            prod' = [prod EXCEPT !.pc = "put", !.blank = blank, !.late = cancelled]
      <3>1. prod.blank \in 0 .. MaxSendBuffs
        BY <1>1
      <3>2. CASE ~cancelled
        <4>1. (IF prod.blank > 0 THEN prod.blank - 1 ELSE 0) \in 0 .. MaxSendBuffs
          BY <1>2, <3>1
        <4> QED  BY <1>f, <3>2, <4>1 DEF Fill, Filled
      <3>3. CASE cancelled /\ Blanks
        <4>1. prod.blank + 1 \in 0 .. MaxSendBuffs
          BY <1>2, <3>1, <3>3 DEF Blanks
        <4> QED  BY <1>f, <3>3, <4>1 DEF Fill, Filled
      <3>4. CASE cancelled /\ ~Blanks
        BY <1>f, <3>1, <3>4 DEF Fill, Filled
      <3> QED  BY <3>2, <3>3, <3>4
    <2> QED  BY <1>f, <1>1, <2>1 DEF Fill
  <1>g. CASE FillFails
    BY <1>g, <1>1, <1>2 DEF FillFails
  <1>h. CASE SendStripe
    <2>1. prod.left > 0 /\ HasRoom \in BOOLEAN /\ (prod.index + 1) % MaxSendBuffs \in Indexes
      BY <1>h, <1>1, <1>2 DEF SendStripe, Placed, HasRoom
    <2>2. prod.left - 1 \in Nat /\ prod.row + 1 \in Nat /\ (~HasRoom) \in BOOLEAN
      BY <1>1, <2>1
    <2> QED  BY <1>h, <1>1, <2>1, <2>2 DEF SendStripe
  <1>i. CASE LoopEnds
    BY <1>i, <1>1, <1>2 DEF LoopEnds
  <1>j. CASE EndPage
    BY <1>j, <1>1, <1>2 DEF EndPage
  <1>k. CASE BlankPage
    <2>1. prod.page + 1 \in 0 .. MaxPages
      BY <1>k, <1>1, <1>2 DEF BlankPage, NewPage
    <2> QED  BY <1>k, <1>1, <2>1 DEF BlankPage
  <1>l. CASE EndJob
    BY <1>l, <1>1, <1>2 DEF EndJob
  <1>m. CASE Join
    BY <1>m, <1>1, <1>2 DEF Join
  <1>n. CASE StartsJob
    BY <1>n, <1>1 DEF StartsJob
  <1>o. CASE StartsPage
    BY <1>o, <1>1 DEF StartsPage
  <1>p. CASE BeginsSwath
    BY <1>p, <1>1 DEF BeginsSwath
  <1>q. CASE EndsPage
    BY <1>q, <1>1 DEF EndsPage
  <1>r. CASE EndsJob
    BY <1>r, <1>1 DEF EndsJob
  <1>s. CASE EndsSwath
    BY <1>s, <1>1 DEF EndsSwath
  <1> QED  BY <1>a, <1>b, <1>c, <1>d, <1>e, <1>f, <1>g, <1>h, <1>i, <1>j, <1>k, <1>l, <1>m,
              <1>n, <1>o, <1>p, <1>q, <1>r, <1>s DEF Next, JobThread, SendThread

(* What the send thread is in, and the generator. *)
LEMMA SendType ==
  ASSUME TypeOK, Placed, Next
  PROVE  (/\ send \in [pc : {"receive", "swath", "ended"}, msg : Messages]
          /\ out \in [page : 0 .. MaxPages, open : BOOLEAN, row : Nat, ended : Nat])'
  <1>1. /\ send \in [pc : {"receive", "swath", "ended"}, msg : Messages]
        /\ out \in [page : 0 .. MaxPages, open : BOOLEAN, row : Nat, ended : Nat]
    BY DEF TypeOK
  <1>a. CASE Cancel
    BY <1>a, <1>1 DEF Cancel
  <1>b. CASE \E n \in Stripes : BeginPage(n)
    BY <1>b, <1>1 DEF BeginPage
  <1>c. CASE \E n \in 0 .. (MaxSendBuffs - 1) : BreakPage(n)
    BY <1>c, <1>1 DEF BreakPage
  <1>d. CASE AbandonPage
    BY <1>d, <1>1 DEF AbandonPage
  <1>e. CASE WaitBuffer
    BY <1>e, <1>1 DEF WaitBuffer
  <1>f. CASE Fill
    BY <1>f, <1>1 DEF Fill, Filled
  <1>g. CASE FillFails
    BY <1>g, <1>1 DEF FillFails
  <1>h. CASE SendStripe
    BY <1>h, <1>1 DEF SendStripe
  <1>i. CASE LoopEnds
    BY <1>i, <1>1 DEF LoopEnds
  <1>j. CASE EndPage
    BY <1>j, <1>1 DEF EndPage
  <1>k. CASE BlankPage
    BY <1>k, <1>1 DEF BlankPage
  <1>l. CASE EndJob
    BY <1>l, <1>1 DEF EndJob
  <1>m. CASE Join
    BY <1>m, <1>1 DEF Join
  <1>n. CASE StartsJob
    BY <1>n, <1>1 DEF StartsJob
  <1>o. CASE StartsPage
    <2>1. Head(queue) \in Messages /\ Head(queue).id = "startPage"
      BY <1>o, TakeStep DEF StartsPage
    <2>2. Head(queue).page \in 0 .. MaxPages
      BY <2>1, MessageParts, PclAssumption DEF Pages
    <2> QED  BY <1>o, <1>1, <2>2 DEF StartsPage
  <1>p. CASE BeginsSwath
    <2>1. Head(queue) \in Messages
      BY <1>p, TakeStep DEF BeginsSwath
    <2> QED  BY <1>p, <1>1, <2>1 DEF BeginsSwath
  <1>q. CASE EndsPage
    <2>1. out' = [out EXCEPT !.open = FALSE, !.ended = out.ended + 1] /\ send' = send
      BY <1>q DEF EndsPage
    <2>2. out.ended + 1 \in Nat /\ FALSE \in BOOLEAN
      BY <1>1
    <2>3. out' \in [page : 0 .. MaxPages, open : BOOLEAN, row : Nat, ended : Nat]
      BY <1>1, <2>1, <2>2
    <2> QED  BY <1>1, <2>1, <2>3
  <1>r. CASE EndsJob
    BY <1>r, <1>1 DEF EndsJob
  <1>s. CASE EndsSwath
    BY <1>s, <1>1 DEF EndsSwath
  <1> QED  BY <1>a, <1>b, <1>c, <1>d, <1>e, <1>f, <1>g, <1>h, <1>i, <1>j, <1>k, <1>l, <1>m,
              <1>n, <1>o, <1>p, <1>q, <1>r, <1>s DEF Next, JobThread, SendThread

(* What the buffers hold. *)
LEMMA MemType ==
  ASSUME TypeOK, Placed, Next
  PROVE  (mem \in [Pages -> [Indexes -> {"none", "junk", "image", "blank"}]])'
  <1>1. mem \in [Pages -> [Indexes -> {"none", "junk", "image", "blank"}]]
    BY DEF TypeOK
  <1>a. CASE Cancel
    BY <1>a, <1>1 DEF Cancel
  <1>b. CASE \E n \in Stripes : BeginPage(n)
    <2>1. [i \in Indexes |-> "junk"] \in [Indexes -> {"none", "junk", "image", "blank"}]
      OBVIOUS
    <2>2. mem' = [mem EXCEPT ![prod.page + 1] = [i \in Indexes |-> "junk"]]
      BY <1>b DEF BeginPage
    <2> QED  BY <1>1, <2>1, <2>2
  <1>c. CASE \E n \in 0 .. (MaxSendBuffs - 1) : BreakPage(n)
    <2> PICK n \in 0 .. (MaxSendBuffs - 1) : BreakPage(n)
      BY <1>c
    <2>1. [i \in Indexes |-> IF i < n THEN "junk" ELSE "none"]
            \in [Indexes -> {"none", "junk", "image", "blank"}]
      OBVIOUS
    <2>2. mem' = [mem EXCEPT ![prod.page + 1] =
                    [i \in Indexes |-> IF i < n THEN "junk" ELSE "none"]]
      BY DEF BreakPage
    <2> QED  BY <1>1, <2>1, <2>2
  <1>d. CASE AbandonPage
    BY <1>d, <1>1 DEF AbandonPage
  <1>e. CASE WaitBuffer
    BY <1>e, <1>1 DEF WaitBuffer
  <1>f. CASE Fill
    <2>1. prod.page \in Pages /\ prod.index \in Indexes
      BY <1>f DEF Fill, Placed, TypeOK
    <2>2. mem[prod.page][prod.index] \in {"none", "junk", "image", "blank"}
      BY <1>1, <2>1
    <2>3. PICK content \in {"none", "junk", "image", "blank"} :
            mem' = [mem EXCEPT ![prod.page][prod.index] = content]
      BY <1>f, <2>2 DEF Fill, Filled
    <2> QED  BY <1>1, <2>1, <2>3
  <1>g. CASE FillFails
    BY <1>g, <1>1 DEF FillFails
  <1>h. CASE SendStripe
    BY <1>h, <1>1 DEF SendStripe
  <1>i. CASE LoopEnds
    BY <1>i, <1>1 DEF LoopEnds
  <1>j. CASE EndPage
    BY <1>j, <1>1 DEF EndPage
  <1>k. CASE BlankPage
    BY <1>k, <1>1 DEF BlankPage
  <1>l. CASE EndJob
    BY <1>l, <1>1 DEF EndJob
  <1>m. CASE Join
    BY <1>m, <1>1 DEF Join
  <1>n. CASE StartsJob
    BY <1>n, <1>1 DEF StartsJob
  <1>o. CASE StartsPage
    BY <1>o, <1>1 DEF StartsPage
  <1>p. CASE BeginsSwath
    BY <1>p, <1>1 DEF BeginsSwath
  <1>q. CASE EndsPage
    BY <1>q, <1>1 DEF EndsPage, NoPool
  <1>r. CASE EndsJob
    BY <1>r, <1>1 DEF EndsJob
  <1>s. CASE EndsSwath
    BY <1>s, <1>1 DEF EndsSwath
  <1> QED  BY <1>a, <1>b, <1>c, <1>d, <1>e, <1>f, <1>g, <1>h, <1>i, <1>j, <1>k, <1>l, <1>m,
              <1>n, <1>o, <1>p, <1>q, <1>r, <1>s DEF Next, JobThread, SendThread

(* The parts of TypeOK together. *)
LEMMA TypeStep ==
  ASSUME TypeOK, PermitsKept, Placed, Next
  PROVE  TypeOK'
  BY QueueType, PermitsStep, ProdType, SendType, MemType DEF TypeOK

(* What is queued or in the send thread's hand is of a page. *)
LEMMA PagesSent ==
  ASSUME TypeOK
  PROVE  /\ \A i \in Sends(queue) : /\ i \in 1 .. Len(queue) /\ queue[i] \in Messages
                                    /\ queue[i].id = "send" /\ queue[i].page \in Nat
         /\ send.msg.id = "send" => send.msg.page \in Nat
         /\ prod.page \in Nat /\ MaxPages \in Nat
  <1>1. /\ queue \in Seq(Messages) /\ send.msg \in Messages /\ prod.page \in 0 .. MaxPages
        /\ MaxPages \in Nat
    BY PclAssumption DEF TypeOK
  <1>2. \A i \in Sends(queue) : i \in 1 .. Len(queue) /\ queue[i] \in Messages /\ queue[i].id = "send"
    BY <1>1 DEF Sends
  <1> QED  BY <1>1, <1>2, MessageParts DEF Pages

(* A queue that only gives messages away, or gets one for the page that
   the job thread is in or comes to. *)
LEMMA PlacedPut ==
  ASSUME TypeOK, Placed, NEW m \in Messages, Put(m), send' = send,
         prod'.page \in Nat, prod'.page >= prod.page,
         m.id = "send" => m.page = prod'.page
  PROVE  /\ \A i \in Sends(queue') : queue'[i].page <= prod'.page
         /\ send'.pc = "swath" => send'.msg.id = "send" /\ send'.msg.page <= prod'.page
  <1>1. send.pc = "swath" => send.msg.id = "send" /\ send.msg.page <= prod'.page
    BY PagesSent DEF Placed
  <1>2. ASSUME NEW i \in Sends(queue') PROVE queue'[i].page <= prod'.page
    <2>1. CASE i \in Sends(queue)
      <3>1. queue'[i] = queue[i] /\ queue[i].page <= prod.page /\ queue[i].page \in Nat
        BY <2>1, PutStep, PagesSent DEF Placed
      <3> QED  BY <3>1, PagesSent
    <2>2. CASE i \notin Sends(queue)
      <3>1. HasRoom /\ m.id = "send" /\ i = Len(queue) + 1 /\ queue'[i] = m
        BY <2>2, PutStep
      <3> QED  BY <3>1
    <2> QED  BY <2>1, <2>2
  <1> QED  BY <1>1, <1>2

(* A message that leaves the queue changes no other. *)
LEMMA PlacedTake ==
  ASSUME TypeOK, Placed, NEW id, Take(id)
  PROVE  \A i \in Sends(queue') : queue'[i].page <= prod.page
  <1> TAKE i \in Sends(queue')
  <1>1. i \in 1 .. Len(queue')
    BY DEF Sends
  <1>2. i + 1 \in Sends(queue) /\ queue'[i] = queue[i + 1]
    BY <1>1, TakeStep
  <1> QED  BY <1>2 DEF Placed

(* Every step keeps Placed. *)
LEMMA PlacedStep ==
  ASSUME TypeOK, Placed, Next
  PROVE  Placed'
  <1>1. prod \in [pc : {"idle", "loop", "fill", "put", "endPage", "end", "join", "gone"},
                 page : 0 .. MaxPages, left : Nat, row : Nat, index : Indexes,
                 blank : 0 .. MaxSendBuffs, late : BOOLEAN, failed : BOOLEAN,
                 frees : BOOLEAN, back : BOOLEAN]
        /\ send \in [pc : {"receive", "swath", "ended"}, msg : Messages]
    BY DEF TypeOK
  <1>2. /\ prod.page \in Nat /\ prod.page + 1 \in Nat /\ prod.page + 1 >= prod.page
        /\ \A i \in Sends(queue) : queue[i].page <= prod.page + 1
        /\ send.pc = "swath" => send.msg.page <= prod.page + 1
    BY PagesSent DEF Placed
  <1>a. CASE Cancel
    BY <1>a, <1>1, <1>2 DEF Cancel, Placed, Sends
  <1>b. CASE \E n \in Stripes : BeginPage(n)
    <2> PICK n \in Stripes : BeginPage(n)
      BY <1>b
    <2>1. /\ prod.page + 1 \in Pages /\ Put(Msg("startPage", prod.page + 1)) /\ send' = send
          /\ prod'.page = prod.page + 1 /\ prod'.pc = "loop"
      BY <1>1, Produced DEF BeginPage, NewPage
    <2>2. /\ Msg("startPage", prod.page + 1) \in Messages
          /\ Msg("startPage", prod.page + 1).id = "startPage"
      BY <2>1, MessagesMade
    <2>3. /\ \A i \in Sends(queue') : queue'[i].page <= prod'.page
          /\ send'.pc = "swath" => send'.msg.id = "send" /\ send'.msg.page <= prod'.page
      BY <1>2, <2>1, <2>2, PlacedPut
    <2> QED  BY <2>1, <2>3 DEF Placed
  <1>c. CASE \E n \in 0 .. (MaxSendBuffs - 1) : BreakPage(n)
    <2> PICK n \in 0 .. (MaxSendBuffs - 1) : BreakPage(n)
      BY <1>c
    <2>1. /\ prod.page + 1 \in Pages /\ queue' = queue /\ send' = send
          /\ prod'.page = prod.page + 1 /\ prod'.pc = "endPage"
      BY <1>1, Produced DEF BreakPage, NewPage
    <2> QED  BY <1>2, <2>1 DEF Placed, Sends
  <1>d. CASE AbandonPage
    <2>1. /\ queue' = queue /\ send' = send
          /\ prod'.page = prod.page + 1 /\ prod'.pc = "idle"
      BY <1>d, <1>1 DEF AbandonPage, NewPage
    <2> QED  BY <1>2, <2>1 DEF Placed, Sends
  <1>e. CASE WaitBuffer
    BY <1>e, <1>1, <1>2 DEF WaitBuffer, MoreStripes, Placed, Sends
  <1>f. CASE Fill
    BY <1>f, <1>1, <1>2 DEF Fill, Filled, Placed, Sends
  <1>g. CASE FillFails
    BY <1>g, <1>1, <1>2 DEF FillFails, Placed, Sends
  <1>h. CASE SendStripe
    <2>1. /\ prod.page \in Pages /\ prod'.page = prod.page /\ prod'.pc = "loop" /\ send' = send
      BY <1>h, <1>1 DEF SendStripe, Placed
    <2>2. PICK m \in Messages : Put(m) /\ m.page = prod.page
      BY <1>h, <1>1, <2>1, StripeMade DEF SendStripe
    <2>3. /\ \A i \in Sends(queue') : queue'[i].page <= prod'.page
          /\ send'.pc = "swath" => send'.msg.id = "send" /\ send'.msg.page <= prod'.page
      BY <1>2, <2>1, <2>2, PlacedPut
    <2> QED  BY <2>1, <2>3 DEF Placed
  <1>i. CASE LoopEnds
    BY <1>i, <1>1, <1>2 DEF LoopEnds, Placed, Sends
  <1>j. CASE EndPage
    <2>1. /\ prod'.page = prod.page /\ prod'.pc = "idle" /\ send' = send
      BY <1>j, <1>1 DEF EndPage
    <2>2. PICK m \in Messages : Put(m) /\ m.id = "endPage"
      BY <1>j, <1>1, MessagesMade DEF EndPage, Placed
    <2>3. /\ \A i \in Sends(queue') : queue'[i].page <= prod'.page
          /\ send'.pc = "swath" => send'.msg.id = "send" /\ send'.msg.page <= prod'.page
      BY <1>2, <2>1, <2>2, PlacedPut
    <2> QED  BY <2>1, <2>3 DEF Placed
  <1>k. CASE BlankPage
    <2>1. /\ prod'.page = prod.page + 1 /\ prod'.pc \in {"idle", "end"} /\ send' = send
          /\ prod.page + 1 \in Pages
      BY <1>k, <1>1, Produced DEF BlankPage, NewPage
    <2>2. PICK m \in Messages : Put(m) /\ m.id = "endPage"
      BY <1>k, <2>1, MessagesMade DEF BlankPage
    <2>3. /\ \A i \in Sends(queue') : queue'[i].page <= prod'.page
          /\ send'.pc = "swath" => send'.msg.id = "send" /\ send'.msg.page <= prod'.page
      BY <1>2, <2>1, <2>2, PlacedPut
    <2> QED  BY <2>1, <2>3 DEF Placed
  <1>l. CASE EndJob
    <2>1. /\ prod'.page = prod.page /\ prod'.pc = "join" /\ send' = send
      BY <1>l, <1>1 DEF EndJob
    <2>2. PICK m \in Messages : Put(m) /\ m.id = "endJob"
      BY <1>l, MessagesMade DEF EndJob
    <2>3. /\ \A i \in Sends(queue') : queue'[i].page <= prod'.page
          /\ send'.pc = "swath" => send'.msg.id = "send" /\ send'.msg.page <= prod'.page
      BY <1>2, <2>1, <2>2, PlacedPut
    <2> QED  BY <2>1, <2>3 DEF Placed
  <1>m. CASE Join
    BY <1>m, <1>1, <1>2 DEF Join, Placed, Sends
  <1>n. CASE StartsJob
    <2>1. prod' = prod /\ send'.pc # "swath"
      BY <1>n, <1>1, TakeStep DEF StartsJob
    <2>2. \A i \in Sends(queue') : queue'[i].page <= prod.page
      BY <1>n, PlacedTake DEF StartsJob
    <2> QED  BY <2>1, <2>2 DEF Placed
  <1>o. CASE StartsPage
    <2>1. prod' = prod /\ send'.pc # "swath"
      BY <1>o, <1>1, TakeStep DEF StartsPage
    <2>2. \A i \in Sends(queue') : queue'[i].page <= prod.page
      BY <1>o, PlacedTake DEF StartsPage
    <2> QED  BY <2>1, <2>2 DEF Placed
  <1>p. CASE BeginsSwath
    <2>1. prod' = prod /\ send' = [pc |-> "swath", msg |-> Head(queue)]
      BY <1>p DEF BeginsSwath
    <2>2. \A i \in Sends(queue') : queue'[i].page <= prod.page
      BY <1>p, PlacedTake DEF BeginsSwath
    <2>3. Head(queue) = queue[1] /\ queue[1].id = "send" /\ 1 \in 1 .. Len(queue)
      BY <1>p, TakeStep DEF BeginsSwath
    <2>4. Head(queue).page <= prod.page
      BY <2>3 DEF Placed, Sends
    <2> QED  BY <2>1, <2>2, <2>3, <2>4 DEF Placed
  <1>q. CASE EndsPage
    <2>1. prod' = prod /\ send'.pc # "swath"
      BY <1>q, <1>1, TakeStep DEF EndsPage
    <2>2. \A i \in Sends(queue') : queue'[i].page <= prod.page
      BY <1>q, PlacedTake DEF EndsPage
    <2> QED  BY <2>1, <2>2 DEF Placed
  <1>r. CASE EndsJob
    <2>1. prod' = prod /\ send'.pc # "swath"
      BY <1>r, <1>1, TakeStep DEF EndsJob
    <2>2. \A i \in Sends(queue') : queue'[i].page <= prod.page
      BY <1>r, PlacedTake DEF EndsJob
    <2> QED  BY <2>1, <2>2 DEF Placed
  <1>s. CASE EndsSwath
    BY <1>s, <1>1, <1>2 DEF EndsSwath, Placed, Sends
  <1> QED  BY <1>a, <1>b, <1>c, <1>d, <1>e, <1>f, <1>g, <1>h, <1>i, <1>j, <1>k, <1>l, <1>m,
              <1>n, <1>o, <1>p, <1>q, <1>r, <1>s DEF Next, JobThread, SendThread

(* The ring when neither the queue nor the place in the page changes. *)
LEMMA RingSame ==
  ASSUME Ring, queue' = queue, send' = send, InLoop' => InLoop,
         prod'.page = prod.page, prod'.index = prod.index, prod'.failed = prod.failed
  PROVE  Ring'
  BY DEF Ring, InLoop, Sends

(* The ring when the send thread takes a message. *)
LEMMA RingTake ==
  ASSUME TypeOK, Ring, NEW id, Take(id), prod' = prod, InLoop, ~prod.failed
  PROVE  \A i \in Sends(queue') : queue'[i].page = prod.page =>
           /\ i .. Len(queue') \subseteq Sends(queue')
           /\ queue'[i].index = Back(prod.index, Len(queue') - i + 1)
  <1> SUFFICES ASSUME NEW i \in Sends(queue'), queue'[i].page = prod.page
               PROVE  /\ i .. Len(queue') \subseteq Sends(queue')
                      /\ queue'[i].index = Back(prod.index, Len(queue') - i + 1)
    OBVIOUS
  <1>1. /\ Len(queue) \in Nat /\ Len(queue') = Len(queue) - 1 /\ i \in 1 .. Len(queue')
    BY TakeStep DEF Sends
  <1>2. i + 1 \in Sends(queue) /\ queue'[i] = queue[i + 1]
    BY <1>1, TakeStep
  <1>3. /\ (i + 1) .. Len(queue) \subseteq Sends(queue)
        /\ queue[i + 1].index = Back(prod.index, Len(queue) - (i + 1) + 1)
    BY <1>2 DEF Ring
  <1>4. Len(queue) - (i + 1) + 1 = Len(queue') - i + 1
    BY <1>1
  <1>5. ASSUME NEW j \in i .. Len(queue') PROVE j \in Sends(queue')
    <2>1. j \in 1 .. Len(queue') /\ j + 1 \in (i + 1) .. Len(queue)
      BY <1>1
    <2> QED  BY <2>1, <1>3, TakeStep
  <1> QED  BY <1>2, <1>3, <1>4, <1>5

(* The ring advances: what was filled d stripes ago is now d + 1 ago. *)
LEMMA BackNext ==
  ASSUME NEW x \in Indexes, NEW d \in Nat, d < MaxSendBuffs
  PROVE  /\ d > 0 => Back((x + 1) % MaxSendBuffs, d + 1) = Back(x, d)
         /\ Back((x + 1) % MaxSendBuffs, 1) = x
  <1>1. x \in 0 .. MaxSendBuffs - 1 /\ MaxSendBuffs \in Nat \ {0}
    BY PclAssumption DEF Indexes
  <1>2. (x + 1) % MaxSendBuffs = IF x + 1 < MaxSendBuffs THEN x + 1 ELSE 0
    BY <1>1
  <1> QED  BY <1>1, <1>2 DEF Back

(* A stripe that finds room in the queue. *)
LEMMA RingSend ==
  ASSUME TypeOK, PermitsKept, Placed, Ring, SendStripe, HasRoom
  PROVE  Ring'
  <1>1. /\ prod.pc = "put" /\ prod'.page = prod.page /\ send' = send /\ InLoop
        /\ prod'.index = (prod.index + 1) % MaxSendBuffs
        /\ prod.index \in Indexes /\ ~prod.failed /\ prod.page \in Pages
    BY DEF SendStripe, TypeOK, Placed, InLoop
  <1>2. PICK m \in Messages :
          Put(m) /\ m.id = "send" /\ m.page = prod.page /\ m.index = prod.index
    <2>1. prod.index \in Indexes /\ prod.row \in Nat /\ prod.late \in BOOLEAN
      BY DEF TypeOK
    <2> QED  BY <1>1, <2>1, StripeMade DEF SendStripe
  <1>3. /\ Len(queue) \in Nat /\ Len(queue') = Len(queue) + 1
        /\ Sends(queue') = Sends(queue) \cup {Len(queue) + 1}
        /\ \A i \in 1 .. Len(queue) : queue'[i] = queue[i]
        /\ queue'[Len(queue) + 1] = m
    BY <1>2, PutStep, Counts
  <1>4. /\ MaxSendBuffs \in Nat \ {0} /\ Cardinality(Sends(queue)) \in Nat
        /\ Cardinality(Sends(queue)) < MaxSendBuffs
        /\ send.pc = "swath" => Cardinality(Sends(queue)) + 1 < MaxSendBuffs
    BY <1>1, Counts, Account DEF WithJobThread, WithSendThread
  <1>5. queue \in Seq(Messages)
    BY DEF TypeOK
  <1>6. ASSUME NEW i \in Sends(queue'), queue'[i].page = prod'.page
        PROVE  /\ i .. Len(queue') \subseteq Sends(queue')
               /\ queue'[i].index = Back(prod'.index, Len(queue') - i + 1)
    <2>1. CASE i = Len(queue) + 1
      <3>1. Back(prod'.index, 1) = prod.index /\ Len(queue') - i + 1 = 1
        BY <1>1, <1>3, <1>4, <2>1, BackNext
      <3>2. queue'[i].index = prod.index
        BY <1>2, <1>3, <2>1
      <3>3. i .. Len(queue') \subseteq Sends(queue')
        BY <1>3, <2>1
      <3> QED  BY <3>1, <3>2, <3>3
    <2>2. CASE i \in Sends(queue)
      <3>1. i \in 1 .. Len(queue) /\ queue'[i] = queue[i]
        BY <1>3, <2>2 DEF Sends
      <3>2. i .. Len(queue) \subseteq Sends(queue) /\ queue[i].index = Back(prod.index, Len(queue) - i + 1)
        BY <1>1, <1>6, <2>2, <3>1 DEF Ring
      <3>3. Len(queue) - i + 1 <= Cardinality(Sends(queue))
        BY <1>3, <1>5, <3>1, <3>2, SendsAtEnd
      <3>4. /\ Len(queue) - i + 1 \in Nat /\ Len(queue) - i + 1 < MaxSendBuffs
            /\ Len(queue) - i + 1 > 0
            /\ Len(queue') - i + 1 = (Len(queue) - i + 1) + 1
        BY <1>3, <1>4, <3>1, <3>3
      <3>5. Back(prod'.index, (Len(queue) - i + 1) + 1) = Back(prod.index, Len(queue) - i + 1)
        BY <1>1, <3>4, BackNext
      <3>6. i .. Len(queue') \subseteq Sends(queue')
        BY <1>3, <3>1, <3>2
      <3> QED  BY <3>1, <3>2, <3>4, <3>5, <3>6
    <2> QED  BY <1>3, <2>1, <2>2
  <1>7. ASSUME send'.pc = "swath", send'.msg.page = prod'.page
        PROVE  /\ 1 .. Len(queue') \subseteq Sends(queue')
               /\ send'.msg.index = Back(prod'.index, Len(queue') + 1)
    <2>1. 1 .. Len(queue) \subseteq Sends(queue) /\ send.msg.index = Back(prod.index, Len(queue) + 1)
      BY <1>1, <1>7 DEF Ring
    <2>2. 1 .. Len(queue') \subseteq Sends(queue')
      BY <1>3, <2>1
    <2>3. Len(queue) <= Cardinality(Sends(queue))
      <3>1. 1 \in 1 .. Len(queue) + 1 /\ Len(queue) - 1 + 1 = Len(queue)
        BY <1>3
      <3> QED  BY <1>5, <2>1, <3>1, SendsAtEnd
    <2>4. Len(queue) + 1 \in Nat /\ Len(queue) + 1 > 0 /\ Len(queue) + 1 < MaxSendBuffs
      BY <1>1, <1>3, <1>4, <1>7, <2>3
    <2>5. Back(prod'.index, (Len(queue) + 1) + 1) = Back(prod.index, Len(queue) + 1)
      BY <1>1, <2>4, BackNext
    <2> QED  BY <1>1, <1>3, <2>1, <2>2, <2>5
  <1> QED  BY <1>6, <1>7 DEF Ring

(* Every step keeps Ring. *)
LEMMA RingStep ==
  ASSUME TypeOK, PermitsKept, Placed, Ring, Next
  PROVE  Ring'
  <1>1. prod \in [pc : {"idle", "loop", "fill", "put", "endPage", "end", "join", "gone"},
                 page : 0 .. MaxPages, left : Nat, row : Nat, index : Indexes,
                 blank : 0 .. MaxSendBuffs, late : BOOLEAN, failed : BOOLEAN,
                 frees : BOOLEAN, back : BOOLEAN]
        /\ send \in [pc : {"receive", "swath", "ended"}, msg : Messages]
    BY DEF TypeOK
  <1>2. ~InLoop' => Ring'
    BY DEF Ring
  <1>a. CASE Cancel
    BY <1>a, <1>1, RingSame DEF Cancel, InLoop
  <1>b. CASE \E n \in Stripes : BeginPage(n)
    <2> PICK n \in Stripes : BeginPage(n)
      BY <1>b
    <2>1. /\ prod.page + 1 \in Pages /\ Put(Msg("startPage", prod.page + 1)) /\ send' = send
          /\ prod'.page = prod.page + 1 /\ prod.page \in Nat
      BY <1>1, Produced, PagesSent DEF BeginPage, NewPage
    <2>2. /\ Msg("startPage", prod.page + 1) \in Messages
          /\ Msg("startPage", prod.page + 1).id = "startPage"
      BY <2>1, MessagesMade
    <2>3. Sends(queue') = Sends(queue)
      BY <2>1, <2>2, PutStep
    <2>4. ASSUME NEW i \in Sends(queue') PROVE queue'[i].page # prod'.page
      <3>1. i \in 1 .. Len(queue) /\ queue[i].page \in Nat /\ queue[i].page <= prod.page
        BY <2>3, PagesSent DEF Placed
      <3>2. queue'[i] = queue[i]
        BY <2>1, <2>2, <3>1, PutStep
      <3> QED  BY <2>1, <3>1, <3>2
    <2>5. send'.pc = "swath" => send'.msg.page # prod'.page
      BY <2>1, PagesSent DEF Placed
    <2> QED  BY <2>4, <2>5 DEF Ring
  <1>c. CASE \E n \in 0 .. (MaxSendBuffs - 1) : BreakPage(n)
    BY <1>c, <1>1, <1>2 DEF BreakPage, NewPage, InLoop
  <1>d. CASE AbandonPage
    BY <1>d, <1>1, <1>2 DEF AbandonPage, NewPage, InLoop
  <1>e. CASE WaitBuffer
    BY <1>e, <1>1, RingSame DEF WaitBuffer, InLoop
  <1>f. CASE Fill
    BY <1>f, <1>1, RingSame DEF Fill, Filled, InLoop
  <1>g. CASE FillFails
    BY <1>g, <1>1, <1>2 DEF FillFails, InLoop
  <1>h. CASE SendStripe
    <2>1. CASE HasRoom
      BY <1>h, <2>1, RingSend
    <2>2. CASE ~HasRoom
      BY <1>h, <1>1, <2>2 DEF SendStripe, Ring
    <2> QED  BY <2>1, <2>2
  <1>i. CASE LoopEnds
    BY <1>i, <1>1, <1>2 DEF LoopEnds, InLoop
  <1>j. CASE EndPage
    BY <1>j, <1>1, <1>2 DEF EndPage, InLoop
  <1>k. CASE BlankPage
    BY <1>k, <1>1, <1>2 DEF BlankPage, NewPage, InLoop
  <1>l. CASE EndJob
    BY <1>l, <1>1, <1>2 DEF EndJob, InLoop
  <1>m. CASE Join
    BY <1>m, <1>1, <1>2 DEF Join, InLoop
  <1>n. CASE StartsJob
    <2>1. prod' = prod /\ send'.pc # "swath"
      BY <1>n, <1>1, TakeStep DEF StartsJob
    <2>2. InLoop /\ ~prod.failed =>
            \A i \in Sends(queue') : queue'[i].page = prod.page =>
              /\ i .. Len(queue') \subseteq Sends(queue')
              /\ queue'[i].index = Back(prod.index, Len(queue') - i + 1)
      BY <1>n, RingTake DEF StartsJob
    <2> QED  BY <2>1, <2>2 DEF Ring, InLoop
  <1>o. CASE StartsPage
    <2>1. prod' = prod /\ send'.pc # "swath"
      BY <1>o, <1>1, TakeStep DEF StartsPage
    <2>2. InLoop /\ ~prod.failed =>
            \A i \in Sends(queue') : queue'[i].page = prod.page =>
              /\ i .. Len(queue') \subseteq Sends(queue')
              /\ queue'[i].index = Back(prod.index, Len(queue') - i + 1)
      BY <1>o, RingTake DEF StartsPage
    <2> QED  BY <2>1, <2>2 DEF Ring, InLoop
  <1>p. CASE BeginsSwath
    <2>1. prod' = prod /\ send' = [pc |-> "swath", msg |-> Head(queue)]
      BY <1>p DEF BeginsSwath
    <2>2. InLoop /\ ~prod.failed =>
            \A i \in Sends(queue') : queue'[i].page = prod.page =>
              /\ i .. Len(queue') \subseteq Sends(queue')
              /\ queue'[i].index = Back(prod.index, Len(queue') - i + 1)
      BY <1>p, RingTake DEF BeginsSwath
    <2>3. ASSUME InLoop, ~prod.failed, Head(queue).page = prod.page
          PROVE  /\ 1 .. Len(queue') \subseteq Sends(queue')
                 /\ Head(queue).index = Back(prod.index, Len(queue') + 1)
      <3>0. /\ Len(queue) \in Nat \ {0} /\ Len(queue') = Len(queue) - 1
            /\ Head(queue) = queue[1] /\ Head(queue).id = "send"
        BY <1>p, TakeStep DEF BeginsSwath
      <3>1. 1 \in Sends(queue)
        BY <3>0 DEF Sends
      <3>2. 1 .. Len(queue) \subseteq Sends(queue) /\ queue[1].index = Back(prod.index, Len(queue) - 1 + 1)
        BY <2>3, <3>0, <3>1 DEF Ring
      <3>3. ASSUME NEW j \in 1 .. Len(queue') PROVE j \in Sends(queue')
        <4>1. j + 1 \in 1 .. Len(queue)
          BY <3>0
        <4> QED  BY <1>p, <3>2, <4>1, TakeStep DEF BeginsSwath
      <3>4. Len(queue) - 1 + 1 = Len(queue') + 1
        BY <3>0
      <3> QED  BY <3>0, <3>2, <3>3, <3>4
    <2> QED  BY <2>1, <2>2, <2>3 DEF Ring, InLoop
  <1>q. CASE EndsPage
    <2>1. prod' = prod /\ send'.pc # "swath"
      BY <1>q, <1>1, TakeStep DEF EndsPage
    <2>2. InLoop /\ ~prod.failed =>
            \A i \in Sends(queue') : queue'[i].page = prod.page =>
              /\ i .. Len(queue') \subseteq Sends(queue')
              /\ queue'[i].index = Back(prod.index, Len(queue') - i + 1)
      BY <1>q, RingTake DEF EndsPage
    <2> QED  BY <2>1, <2>2 DEF Ring, InLoop
  <1>r. CASE EndsJob
    <2>1. prod' = prod /\ send'.pc # "swath"
      BY <1>r, <1>1, TakeStep DEF EndsJob
    <2>2. InLoop /\ ~prod.failed =>
            \A i \in Sends(queue') : queue'[i].page = prod.page =>
              /\ i .. Len(queue') \subseteq Sends(queue')
              /\ queue'[i].index = Back(prod.index, Len(queue') - i + 1)
      BY <1>r, RingTake DEF EndsJob
    <2> QED  BY <2>1, <2>2 DEF Ring, InLoop
  <1>s. CASE EndsSwath
    <2>1. prod' = prod /\ queue' = queue /\ send'.pc # "swath"
      BY <1>s, <1>1 DEF EndsSwath
    <2> QED  BY <2>1 DEF Ring, InLoop, Sends
  <1> QED  BY <1>a, <1>b, <1>c, <1>d, <1>e, <1>f, <1>g, <1>h, <1>i, <1>j, <1>k, <1>l, <1>m,
              <1>n, <1>o, <1>p, <1>q, <1>r, <1>s DEF Next, JobThread, SendThread

(* The invariant is inductive. *)
LEMMA NextInv == Inv /\ [Next]_vars => Inv'
  <1> SUFFICES ASSUME Inv, [Next]_vars PROVE Inv'
    OBVIOUS
  <1>1. CASE Next
    BY <1>1, TypeStep, PermitsStep, PlacedStep, RingStep DEF Inv
  <1>2. CASE UNCHANGED vars
    BY <1>2 DEF vars, Inv, TypeOK, PermitsKept, Placed, Ring, InLoop, Queued, Sends
  <1> QED  BY <1>1, <1>2

(* While the job thread has a buffer, fewer stripes than buffers are on
   their way, so that none of them is in the same place of the ring. *)
LEMMA InvOneOwner == Inv => OneOwner
  <1> SUFFICES ASSUME Inv, prod.pc \in {"fill", "put"}, NEW m \in InFlight,
                      m.page = prod.page, m.index = prod.index
               PROVE  FALSE
    BY DEF OneOwner, InUse
  <1>1. /\ InLoop /\ ~prod.failed /\ queue \in Seq(Messages)
        /\ prod.index \in 0 .. MaxSendBuffs - 1 /\ MaxSendBuffs \in Nat
        /\ Queued = Sends(queue) /\ Len(queue) \in Nat
    BY Counts DEF Inv, Placed, InLoop, TypeOK
  <1>2. /\ Cardinality(Sends(queue)) \in Nat
        /\ Cardinality(Sends(queue)) < MaxSendBuffs
        /\ send.pc = "swath" => Cardinality(Sends(queue)) + 1 < MaxSendBuffs
    BY <1>1, Counts, Account DEF Inv, WithJobThread, WithSendThread
  <1>3. \A d \in 1 .. MaxSendBuffs - 1 : Back(prod.index, d) # prod.index
    BY <1>1 DEF Back
  <1>4. CASE \E i \in Sends(queue) : m = queue[i]
    <2>1. PICK i \in Sends(queue) : m = queue[i]
      BY <1>4
    <2>2. i \in 1 .. Len(queue)
      BY DEF Sends
    <2>3. /\ i .. Len(queue) \subseteq Sends(queue)
          /\ prod.index = Back(prod.index, Len(queue) - i + 1)
      BY <1>1, <2>1 DEF Inv, Ring
    <2>4. Len(queue) - i + 1 <= Cardinality(Sends(queue))
      <3>1. i \in 1 .. Len(queue) + 1
        BY <1>1, <2>2
      <3> QED  BY <1>1, <2>3, <3>1, SendsAtEnd
    <2>5. Len(queue) - i + 1 \in 1 .. MaxSendBuffs - 1
      BY <1>1, <1>2, <2>2, <2>4
    <2> QED  BY <1>3, <2>3, <2>5
  <1>5. CASE send.pc = "swath" /\ m = send.msg
    <2>1. /\ 1 .. Len(queue) \subseteq Sends(queue)
          /\ prod.index = Back(prod.index, Len(queue) + 1)
      BY <1>1, <1>5 DEF Inv, Ring
    <2>2. Len(queue) <= Cardinality(Sends(queue))
      <3>1. 1 \in 1 .. Len(queue) + 1 /\ Len(queue) - 1 + 1 = Len(queue)
        BY <1>1
      <3> QED  BY <1>1, <2>1, <3>1, SendsAtEnd
    <2>3. Len(queue) + 1 \in 1 .. MaxSendBuffs - 1
      BY <1>1, <1>2, <1>5, <2>2
    <2> QED  BY <1>3, <2>1, <2>3
  <1> QED  BY <1>1, <1>4, <1>5 DEF InFlight

(* The invariant holds in every behaviour. *)
LEMMA InvHolds == Spec => []Inv
  BY InitInv, NextInv, PTL DEF Spec

(* The plugin is type correct: whatever the pages are, the semaphore never
   counts more buffers than a page has. *)
THEOREM PluginTypeCorrect == Spec => []TypeOK
  <1>1. Inv => TypeOK
    BY DEF Inv
  <1> QED  BY <1>1, InvHolds, PTL

(* No permit is lost or given back twice, also when a stripe cannot be
   decoded or finds the queue full. *)
THEOREM NoPermitLost == Spec => []PermitsKept
  <1>1. Inv => PermitsKept
    BY DEF Inv
  <1> QED  BY <1>1, InvHolds, PTL

(* The job thread never fills a buffer that waits to be sent or is being
   sent. *)
THEOREM BufferHasOneOwner == Spec => []OneOwner
  BY InvOneOwner, InvHolds, PTL

(***************************************************************************)
(* What is in the buffers.  The end of a page frees them behind the last   *)
(* stripe of the page, and from the cancel on the ring fills with white.   *)
(***************************************************************************)
InPage == prod.pc \in {"loop", "fill", "put", "endPage"}

(* The end of a page is queued when the job thread has left the page, and
   no stripe of the page comes after it. *)
EndsLast ==
  /\ \A i \in 1 .. Len(queue) : queue[i].id = "endPage" =>
       /\ queue[i].page <= prod.page
       /\ InPage => queue[i].page < prod.page
  /\ \A i, j \in 1 .. Len(queue) :
       i < j /\ queue[i].id = "endPage" /\ queue[j].id = "send" =>
         queue[i].page < queue[j].page

(* The buffer that is filled next. *)
NextIndex ==
  IF prod.pc = "put" THEN (prod.index + 1) % MaxSendBuffs ELSE prod.index

(* The buffers of the page are there; those filled since the cancel, as
   many as the job thread has counted, are white; the one to be queued is
   filled, white if the job thread has seen the cancel. *)
Filling ==
  /\ ~cancelled => prod.blank = 0
  /\ InLoop =>
       /\ \A i \in Indexes : mem[prod.page][i] # "none"
       /\ \A d \in 1 .. prod.blank : mem[prod.page][Back(NextIndex, d)] = "blank"
  /\ prod.pc = "put" =>
       /\ mem[prod.page][prod.index] \notin {"none", "junk"}
       /\ prod.late => mem[prod.page][prod.index] = "blank"

(* What is on its way is filled, and white if it was made after the cancel. *)
Flying ==
  \A m \in InFlight : /\ mem[m.page][m.index] \notin {"none", "junk"}
                      /\ m.late => mem[m.page][m.index] = "blank"

BufferInv == Inv /\ EndsLast /\ Filling /\ Flying

(* The stripes on their way are of pages that were begun. *)
LEMMA FlightParts ==
  ASSUME TypeOK, Placed, NEW m \in InFlight
  PROVE  /\ m.page \in Pages /\ m.index \in Indexes /\ m.page <= prod.page
         /\ m.page \in Nat /\ prod.page \in Nat
  <1>1. \A i \in Sends(queue) : i \in 1 .. Len(queue) /\ queue[i] \in Messages /\ queue[i].id = "send"
    BY PagesSent
  <1>2. send.msg \in Messages /\ Queued = Sends(queue)
    BY Counts DEF TypeOK
  <1>3. m \in Messages /\ m.id = "send" /\ m.page <= prod.page
    BY <1>1, <1>2 DEF InFlight, Placed
  <1>4. m.page \in Pages /\ m.index \in Indexes
    BY <1>3, MessageParts
  <1>5. prod.page \in Nat /\ MaxPages \in Nat
    BY PagesSent
  <1> QED  BY <1>3, <1>4, <1>5 DEF Pages

(* A message that is put into the queue may be a stripe on its way. *)
LEMMA FlightPut ==
  ASSUME TypeOK, NEW x \in Messages, Put(x), send' = send
  PROVE  \A m \in InFlight' : m \in InFlight \/ (m = x /\ m.id = "send")
  <1> TAKE m \in InFlight'
  <1>1. Queued' = Sends(queue') /\ Queued = Sends(queue)
    BY DEF Queued, Sends
  <1>2. CASE send'.pc = "swath" /\ m = send'.msg
    BY <1>2 DEF InFlight
  <1>3. CASE \E i \in Sends(queue') : m = queue'[i]
    <2>1. PICK i \in Sends(queue') : m = queue'[i]
      BY <1>3
    <2>2. CASE i \in Sends(queue)
      <3>1. i \in 1 .. Len(queue) /\ queue'[i] = queue[i]
        BY <2>2, PutStep DEF Sends
      <3> QED  BY <1>1, <2>1, <2>2, <3>1 DEF InFlight
    <2>3. CASE i \notin Sends(queue)
      <3>1. HasRoom /\ x.id = "send" /\ i = Len(queue) + 1 /\ queue'[i] = x
        BY <2>1, <2>3, PutStep
      <3> QED  BY <2>1, <3>1
    <2> QED  BY <2>2, <2>3
  <1> QED  BY <1>1, <1>2, <1>3 DEF InFlight

(* A message that is taken is on its way, or is no stripe. *)
LEMMA FlightTake ==
  ASSUME TypeOK, NEW id, Take(id),
         send'.pc = "swath" => id = "send" /\ send'.msg = Head(queue)
  PROVE  \A m \in InFlight' : m \in InFlight
  <1> TAKE m \in InFlight'
  <1>1. Queued' = Sends(queue') /\ Queued = Sends(queue)
    BY DEF Queued, Sends
  <1>2. CASE send'.pc = "swath" /\ m = send'.msg
    <2>1. /\ Len(queue) \in Nat \ {0} /\ Head(queue) = queue[1] /\ Head(queue).id = id
          /\ id = "send" /\ m = Head(queue)
      BY <1>2, TakeStep
    <2>2. m = queue[1] /\ 1 \in Sends(queue)
      BY <2>1 DEF Sends
    <2> QED  BY <1>1, <2>2 DEF InFlight
  <1>3. CASE \E i \in Sends(queue') : m = queue'[i]
    <2>1. PICK i \in Sends(queue') : m = queue'[i]
      BY <1>3
    <2>2. i \in 1 .. Len(queue')
      BY DEF Sends
    <2>3. i + 1 \in Sends(queue) /\ m = queue[i + 1]
      BY <2>1, <2>2, TakeStep
    <2> QED  BY <1>1, <2>3 DEF InFlight
  <1> QED  BY <1>1, <1>2, <1>3 DEF InFlight

(* Only the job thread sends a stripe on its way. *)
LEMMA FlightStep ==
  ASSUME TypeOK, Placed, Next, NEW m \in InFlight', m \notin InFlight
  PROVE  SendStripe /\ m = SendMsg(prod.page, prod.index, prod.row, prod.late)
  <1>1. ASSUME queue' = queue, send' = send PROVE FALSE
    BY <1>1 DEF InFlight, Queued
  <1>2. send \in [pc : {"receive", "swath", "ended"}, msg : Messages]
    BY DEF TypeOK
  <1>3. ASSUME NEW x \in Messages, Put(x), send' = send, x.id # "send" PROVE FALSE
    BY <1>3, FlightPut
  <1>a. CASE Cancel
    BY <1>a, <1>1 DEF Cancel
  <1>b. CASE \E n \in Stripes : BeginPage(n)
    <2> PICK n \in Stripes : BeginPage(n)
      BY <1>b
    <2>1. prod.page + 1 \in Pages
      BY Produced DEF BeginPage, NewPage
    <2> QED  BY <2>1, <1>3, MessagesMade DEF BeginPage
  <1>c. CASE \E n \in 0 .. (MaxSendBuffs - 1) : BreakPage(n)
    BY <1>c, <1>1 DEF BreakPage
  <1>d. CASE AbandonPage
    BY <1>d, <1>1 DEF AbandonPage
  <1>e. CASE WaitBuffer
    BY <1>e, <1>1 DEF WaitBuffer
  <1>f. CASE Fill
    BY <1>f, <1>1 DEF Fill
  <1>g. CASE FillFails
    BY <1>g, <1>1 DEF FillFails
  <1>h. CASE SendStripe
    BY <1>h, Produced, FlightPut DEF SendStripe
  <1>i. CASE LoopEnds
    BY <1>i, <1>1 DEF LoopEnds
  <1>j. CASE EndPage
    <2>1. prod.page \in Pages /\ prod.frees \in BOOLEAN
      BY <1>j DEF Placed, EndPage, TypeOK
    <2> QED  BY <1>j, <2>1, <1>3, MessagesMade DEF EndPage
  <1>k. CASE BlankPage
    <2>1. prod.page + 1 \in Pages
      BY <1>k, Produced DEF BlankPage, NewPage
    <2> QED  BY <1>k, <2>1, <1>3, MessagesMade DEF BlankPage
  <1>l. CASE EndJob
    BY <1>l, <1>3, MessagesMade DEF EndJob
  <1>m. CASE Join
    BY <1>m, <1>1 DEF Join
  <1>n. CASE StartsJob
    BY <1>n, TakeStep, FlightTake DEF StartsJob
  <1>o. CASE StartsPage
    BY <1>o, TakeStep, FlightTake DEF StartsPage
  <1>p. CASE BeginsSwath
    BY <1>p, FlightTake DEF BeginsSwath
  <1>q. CASE EndsPage
    BY <1>q, TakeStep, FlightTake DEF EndsPage
  <1>r. CASE EndsJob
    <2>1. send'.pc = "ended"
      BY <1>r, <1>2 DEF EndsJob
    <2> QED  BY <1>r, <2>1, FlightTake DEF EndsJob
  <1>s. CASE EndsSwath
    <2>1. queue' = queue /\ send'.pc = "receive"
      BY <1>s, <1>2 DEF EndsSwath
    <2> QED  BY <2>1 DEF InFlight, Queued
  <1> QED  BY <1>a, <1>b, <1>c, <1>d, <1>e, <1>f, <1>g, <1>h, <1>i, <1>j, <1>k, <1>l, <1>m,
              <1>n, <1>o, <1>p, <1>q, <1>r, <1>s DEF Next, JobThread, SendThread

(* Nobody touches a buffer on its way: it is not the one being filled, and
   the end of its page has not come. *)
LEMMA FlightKept ==
  ASSUME Inv, EndsLast, Next, NEW m \in InFlight
  PROVE  \/ mem'[m.page][m.index] = mem[m.page][m.index]
         \/ m \notin InFlight'
  <1>1. /\ m.page \in Pages /\ m.index \in Indexes /\ m.page <= prod.page
        /\ m.page \in Nat /\ prod.page \in Nat
    BY FlightParts DEF Inv
  <1>2. mem \in [Pages -> [Indexes -> {"none", "junk", "image", "blank"}]]
    BY DEF Inv, TypeOK
  <1>3. m.page # prod.page + 1
    BY <1>1
  <1>4. ASSUME mem' = mem PROVE mem'[m.page][m.index] = mem[m.page][m.index]
    BY <1>4
  <1>a. CASE Cancel
    BY <1>a DEF Cancel
  <1>b. CASE \E n \in Stripes : BeginPage(n)
    BY <1>b, <1>1, <1>2, <1>3 DEF BeginPage
  <1>c. CASE \E n \in 0 .. (MaxSendBuffs - 1) : BreakPage(n)
    BY <1>c, <1>1, <1>2, <1>3 DEF BreakPage
  <1>d. CASE AbandonPage
    BY <1>d DEF AbandonPage
  <1>e. CASE WaitBuffer
    BY <1>e DEF WaitBuffer
  <1>f. CASE Fill
    <2>1. ~(m.page = prod.page /\ m.index = prod.index)
      BY <1>f, InvOneOwner DEF Fill, OneOwner, InUse
    <2>2. PICK c : mem' = [mem EXCEPT ![prod.page][prod.index] = c]
      BY <1>f DEF Fill, Filled
    <2> QED  BY <1>1, <1>2, <2>1, <2>2
  <1>g. CASE FillFails
    BY <1>g DEF FillFails
  <1>h. CASE SendStripe
    BY <1>h DEF SendStripe
  <1>i. CASE LoopEnds
    BY <1>i DEF LoopEnds
  <1>j. CASE EndPage
    BY <1>j DEF EndPage
  <1>k. CASE BlankPage
    BY <1>k DEF BlankPage
  <1>l. CASE EndJob
    BY <1>l DEF EndJob
  <1>m. CASE Join
    BY <1>m DEF Join
  <1>n. CASE StartsJob
    BY <1>n DEF StartsJob
  <1>o. CASE StartsPage
    BY <1>o DEF StartsPage
  <1>p. CASE BeginsSwath
    BY <1>p DEF BeginsSwath
  <1>q. CASE EndsPage
    <2>1. /\ send.pc = "receive" /\ Len(queue) \in Nat \ {0}
          /\ Head(queue) = queue[1] /\ queue[1] \in Messages /\ queue[1].id = "endPage"
      BY <1>q, TakeStep DEF EndsPage, Inv
    <2>2. PICK j \in Sends(queue) : m = queue[j]
      BY <2>1, Counts DEF InFlight, Inv
    <2>3. j \in 1 .. Len(queue) /\ m.id = "send" /\ j # 1
      BY <2>1, <2>2 DEF Sends
    <2>4. queue[1].page < m.page
      BY <2>1, <2>2, <2>3 DEF EndsLast
    <2>5. queue[1].page \in Pages /\ queue[1].page \in Nat
      BY <2>1, MessageParts, PclAssumption DEF Pages
    <2>6. queue[1].page # m.page
      BY <1>1, <2>4, <2>5
    <2> QED  BY <1>q, <1>1, <1>2, <2>1, <2>5, <2>6 DEF EndsPage
  <1>r. CASE EndsJob
    BY <1>r DEF EndsJob
  <1>s. CASE EndsSwath
    BY <1>s DEF EndsSwath
  <1> QED  BY <1>a, <1>b, <1>c, <1>d, <1>e, <1>f, <1>g, <1>h, <1>i, <1>j, <1>k, <1>l, <1>m,
              <1>n, <1>o, <1>p, <1>q, <1>r, <1>s DEF Next, JobThread, SendThread

(* Every step keeps Flying. *)
LEMMA FlyingStep ==
  ASSUME BufferInv, Next
  PROVE  Flying'
  <1> SUFFICES ASSUME NEW m \in InFlight'
               PROVE  /\ mem'[m.page][m.index] \notin {"none", "junk"}
                      /\ m.late => mem'[m.page][m.index] = "blank"
    BY DEF Flying
  <1>1. CASE m \in InFlight
    BY <1>1, FlightKept DEF BufferInv, Flying
  <1>2. CASE m \notin InFlight
    <2>1. SendStripe /\ m = SendMsg(prod.page, prod.index, prod.row, prod.late)
      BY <1>2, FlightStep DEF BufferInv, Inv
    <2>2. m.page = prod.page /\ m.index = prod.index /\ m.late = prod.late
      BY <2>1 DEF SendMsg
    <2>3. mem' = mem /\ prod.pc = "put"
      BY <2>1 DEF SendStripe
    <2> QED  BY <2>2, <2>3 DEF BufferInv, Filling
  <1> QED  BY <1>1, <1>2
(* The order of the ends of pages when a message is put into the queue. *)
LEMMA EndsPut ==
  ASSUME TypeOK, Placed, EndsLast, NEW x \in Messages, Put(x),
         prod'.page \in Nat, prod'.page >= prod.page,
         InPage' => prod'.page > prod.page \/ InPage,
         x.id = "send" => x.page = prod.page /\ InPage,
         x.id = "endPage" => x.page <= prod'.page /\ ~InPage'
  PROVE  EndsLast'
  <1>1. /\ queue \in Seq(Messages) /\ Len(queue) \in Nat /\ prod.page \in Nat
        /\ MaxPages \in Nat
    BY PagesSent DEF TypeOK
  <1>2. \A i \in 1 .. Len(queue) : /\ queue[i] \in Messages
                                   /\ queue[i].id = "endPage" => queue[i].page \in Nat
    BY <1>1, MessageParts DEF Pages
  <1>3. \A i \in 1 .. Len(queue') : \/ i \in 1 .. Len(queue) /\ queue'[i] = queue[i]
                                    \/ i = Len(queue) + 1 /\ queue'[i] = x
    BY <1>1, PutStep
  <1>4. ASSUME NEW i \in 1 .. Len(queue'), queue'[i].id = "endPage"
        PROVE  queue'[i].page <= prod'.page /\ (InPage' => queue'[i].page < prod'.page)
    <2>1. CASE i \in 1 .. Len(queue) /\ queue'[i] = queue[i]
      <3>1. queue[i].page \in Nat /\ queue[i].page <= prod.page
            /\ (InPage => queue[i].page < prod.page)
        BY <1>2, <1>4, <2>1 DEF EndsLast
      <3> QED  BY <1>1, <2>1, <3>1
    <2>2. CASE queue'[i] = x
      BY <1>4, <2>2
    <2> QED  BY <1>3, <2>1, <2>2
  <1>5. ASSUME NEW i \in 1 .. Len(queue'), NEW j \in 1 .. Len(queue'), i < j,
               queue'[i].id = "endPage", queue'[j].id = "send"
        PROVE  queue'[i].page < queue'[j].page
    <2>1. i \in 1 .. Len(queue) /\ queue'[i] = queue[i]
      BY <1>1, <1>3, <1>5
    <2>2. CASE j \in 1 .. Len(queue) /\ queue'[j] = queue[j]
      BY <1>5, <2>1, <2>2 DEF EndsLast
    <2>3. CASE queue'[j] = x
      BY <1>5, <2>1, <2>3 DEF EndsLast
    <2> QED  BY <1>3, <2>2, <2>3
  <1> QED  BY <1>4, <1>5 DEF EndsLast

(* The order when the send thread takes a message. *)
LEMMA EndsTake ==
  ASSUME TypeOK, EndsLast, NEW id, Take(id), prod' = prod
  PROVE  EndsLast'
  <1>1. /\ Len(queue) \in Nat \ {0} /\ Len(queue') = Len(queue) - 1
        /\ \A i \in 1 .. Len(queue') : queue'[i] = queue[i + 1]
    BY TakeStep
  <1>2. \A i \in 1 .. Len(queue') : i + 1 \in 1 .. Len(queue)
    BY <1>1
  <1>3. \A i, j \in 1 .. Len(queue') : i < j => i + 1 < j + 1
    BY <1>1
  <1> QED  BY <1>1, <1>2, <1>3 DEF EndsLast, InPage

(* The order when the queue stays as it is. *)
LEMMA EndsSame ==
  ASSUME TypeOK, EndsLast, queue' = queue, prod'.page \in Nat, prod'.page >= prod.page,
         InPage' => prod'.page > prod.page \/ InPage
  PROVE  EndsLast'
  <1>1. /\ queue \in Seq(Messages) /\ Len(queue) \in Nat /\ prod.page \in Nat
        /\ MaxPages \in Nat
    BY PagesSent DEF TypeOK
  <1>2. \A i \in 1 .. Len(queue) : /\ queue[i] \in Messages
                                   /\ queue[i].id = "endPage" => queue[i].page \in Nat
    BY <1>1, MessageParts DEF Pages
  <1>3. ASSUME NEW i \in 1 .. Len(queue), queue[i].id = "endPage"
        PROVE  queue[i].page <= prod'.page /\ (InPage' => queue[i].page < prod'.page)
    <2>1. queue[i].page \in Nat /\ queue[i].page <= prod.page
          /\ (InPage => queue[i].page < prod.page)
      BY <1>2, <1>3 DEF EndsLast
    <2> QED  BY <1>1, <2>1
  <1> QED  BY <1>3 DEF EndsLast

(* Every step keeps EndsLast. *)
LEMMA EndsLastStep ==
  ASSUME TypeOK, Placed, EndsLast, Next
  PROVE  EndsLast'
  <1>1. prod \in [pc : {"idle", "loop", "fill", "put", "endPage", "end", "join", "gone"},
                 page : 0 .. MaxPages, left : Nat, row : Nat, index : Indexes,
                 blank : 0 .. MaxSendBuffs, late : BOOLEAN, failed : BOOLEAN,
                 frees : BOOLEAN, back : BOOLEAN]
    BY DEF TypeOK
  <1>2. /\ prod.page \in Nat /\ prod.page + 1 \in Nat /\ prod.page + 1 > prod.page
        /\ prod.page >= prod.page
    BY PagesSent
  <1>a. CASE Cancel
    BY <1>a, <1>2, EndsSame DEF Cancel, InPage
  <1>b. CASE \E n \in Stripes : BeginPage(n)
    <2> PICK n \in Stripes : BeginPage(n)
      BY <1>b
    <2>1. /\ prod.page + 1 \in Pages /\ Put(Msg("startPage", prod.page + 1))
          /\ prod'.page = prod.page + 1
      BY <1>1, Produced DEF BeginPage, NewPage
    <2>2. /\ Msg("startPage", prod.page + 1) \in Messages
          /\ Msg("startPage", prod.page + 1).id = "startPage"
      BY <2>1, MessagesMade
    <2> QED  BY <1>2, <2>1, <2>2, EndsPut
  <1>c. CASE \E n \in 0 .. (MaxSendBuffs - 1) : BreakPage(n)
    BY <1>c, <1>1, <1>2, EndsSame DEF BreakPage
  <1>d. CASE AbandonPage
    BY <1>d, <1>1, <1>2, EndsSame DEF AbandonPage
  <1>e. CASE WaitBuffer
    BY <1>e, <1>1, <1>2, EndsSame DEF WaitBuffer, InPage
  <1>f. CASE Fill
    <2>1. queue' = queue /\ prod'.page = prod.page /\ InPage
      BY <1>f, <1>1 DEF Fill, Filled, InPage
    <2> QED  BY <1>2, <2>1, EndsSame
  <1>g. CASE FillFails
    BY <1>g, <1>1, <1>2, EndsSame DEF FillFails, InPage
  <1>h. CASE SendStripe
    <2>1. /\ prod.page \in Pages /\ prod'.page = prod.page /\ InPage
      BY <1>h, <1>1 DEF SendStripe, Placed, InPage
    <2>2. PICK m \in Messages : Put(m) /\ m.page = prod.page /\ m.id = "send"
      BY <1>h, <1>1, <2>1, StripeMade DEF SendStripe
    <2> QED  BY <1>2, <2>1, <2>2, EndsPut
  <1>i. CASE LoopEnds
    BY <1>i, <1>1, <1>2, EndsSame DEF LoopEnds, InPage
  <1>j. CASE EndPage
    <2>1. prod'.page = prod.page /\ prod'.pc = "idle" /\ ~InPage'
      BY <1>j, <1>1 DEF EndPage, InPage
    <2>2. PICK m \in Messages : Put(m) /\ m.id = "endPage" /\ m.page = prod.page
      BY <1>j, <1>1, MessagesMade DEF EndPage, Placed, EndPageMsg
    <2> QED  BY <1>2, <2>1, <2>2, EndsPut
  <1>k. CASE BlankPage
    <2>1. /\ prod'.page = prod.page + 1 /\ ~InPage' /\ prod.page + 1 \in Pages
      BY <1>k, <1>1, Produced DEF BlankPage, NewPage, InPage
    <2>2. PICK m \in Messages : Put(m) /\ m.id = "endPage" /\ m.page = prod.page + 1
      BY <1>k, <2>1, MessagesMade DEF BlankPage, EndPageMsg
    <2> QED  BY <1>2, <2>1, <2>2, EndsPut
  <1>l. CASE EndJob
    <2>1. prod'.page = prod.page /\ ~InPage'
      BY <1>l, <1>1 DEF EndJob, InPage
    <2>2. PICK m \in Messages : Put(m) /\ m.id = "endJob"
      BY <1>l, MessagesMade DEF EndJob
    <2> QED  BY <1>2, <2>1, <2>2, EndsPut
  <1>m. CASE Join
    BY <1>m, <1>1, <1>2, EndsSame DEF Join, InPage
  <1>n. CASE StartsJob
    BY <1>n, EndsTake DEF StartsJob
  <1>o. CASE StartsPage
    BY <1>o, EndsTake DEF StartsPage
  <1>p. CASE BeginsSwath
    BY <1>p, EndsTake DEF BeginsSwath
  <1>q. CASE EndsPage
    BY <1>q, EndsTake DEF EndsPage
  <1>r. CASE EndsJob
    BY <1>r, EndsTake DEF EndsJob
  <1>s. CASE EndsSwath
    BY <1>s, <1>1, <1>2, EndsSame DEF EndsSwath, InPage
  <1> QED  BY <1>a, <1>b, <1>c, <1>d, <1>e, <1>f, <1>g, <1>h, <1>i, <1>j, <1>k, <1>l, <1>m,
              <1>n, <1>o, <1>p, <1>q, <1>r, <1>s DEF Next, JobThread, SendThread

(* The buffers before the next one are all there are. *)
LEMMA BackAll ==
  ASSUME NEW x \in Indexes
  PROVE  /\ \A d \in 1 .. MaxSendBuffs : Back(x, d) \in Indexes
         /\ Back(x, MaxSendBuffs) = x
         /\ (x + 1) % MaxSendBuffs \in Indexes
  BY PclAssumption DEF Back, Indexes

(* Filling while the buffers stay as they are. *)
LEMMA FillingSame ==
  ASSUME Filling, mem' = mem, cancelled' = cancelled \/ cancelled',
         cancelled' = FALSE => cancelled = FALSE,
         InLoop' => InLoop, prod'.page = prod.page, prod'.blank = prod.blank,
         InLoop' => NextIndex' = NextIndex,
         prod'.pc = "put" => prod.pc = "put" /\ prod'.late = prod.late
                             /\ prod'.index = prod.index
  PROVE  Filling'
  <1>1. (~cancelled => prod.blank = 0)'
    BY DEF Filling
  <1>2. (InLoop => /\ \A i \in Indexes : mem[prod.page][i] # "none"
                   /\ \A d \in 1 .. prod.blank : mem[prod.page][Back(NextIndex, d)] = "blank")'
    BY DEF Filling, Back
  <1>3. (prod.pc = "put" => /\ mem[prod.page][prod.index] \notin {"none", "junk"}
                            /\ prod.late => mem[prod.page][prod.index] = "blank")'
    BY DEF Filling
  <1> QED  BY <1>1, <1>2, <1>3 DEF Filling

(* A stripe is made: the picture, white, or white once more. *)
LEMMA FillingFill ==
  ASSUME Inv, Filling, Fill
  PROVE  Filling'
  <1>1. prod \in [pc : {"idle", "loop", "fill", "put", "endPage", "end", "join", "gone"},
                 page : 0 .. MaxPages, left : Nat, row : Nat, index : Indexes,
                 blank : 0 .. MaxSendBuffs, late : BOOLEAN, failed : BOOLEAN,
                 frees : BOOLEAN, back : BOOLEAN]
        /\ mem \in [Pages -> [Indexes -> {"none", "junk", "image", "blank"}]]
        /\ cancelled \in BOOLEAN
    BY DEF Inv, TypeOK
  <1>2. /\ prod.pc = "fill" /\ cancelled' = cancelled /\ InLoop
        /\ prod.page \in Pages /\ prod.index \in Indexes /\ NextIndex = prod.index
        /\ MaxSendBuffs \in Nat \ {0}
    BY <1>1, PclAssumption DEF Fill, Inv, Placed, InLoop, NextIndex
  <1> DEFINE N == (prod.index + 1) % MaxSendBuffs
  <1>3. /\ N \in Indexes /\ \A d \in 1 .. MaxSendBuffs : Back(N, d) \in Indexes
        /\ Back(prod.index, MaxSendBuffs) = prod.index
        /\ Back(N, 1) = prod.index
        /\ \A d \in 1 .. MaxSendBuffs - 1 : Back(N, d + 1) = Back(prod.index, d)
    <2>1. MaxSendBuffs > 0 /\ 0 < MaxSendBuffs
      BY <1>2
    <2> QED  BY <1>2, <2>1, BackAll, BackNext
  <1> HIDE DEF N
  <1>4. ASSUME NEW c \in {"image", "blank"}, NEW b \in 0 .. MaxSendBuffs, Filled(c, b),
               cancelled => c = "blank", ~cancelled => b = 0,
               \A d \in 2 .. b : mem[prod.page][Back(N, d)] = "blank",
               b > 0 => c = "blank"
        PROVE  Filling'
    <2>1. /\ mem' = [mem EXCEPT ![prod.page][prod.index] = c]
          /\ prod'.pc = "put" /\ prod'.page = prod.page /\ prod'.index = prod.index
          /\ prod'.blank = b /\ prod'.late = cancelled
      BY <1>1, <1>4 DEF Filled
    <2>2. /\ mem'[prod.page][prod.index] = c
          /\ \A i \in Indexes : i # prod.index => mem'[prod.page][i] = mem[prod.page][i]
      BY <1>1, <1>2, <2>1
    <2>3. NextIndex' = N
      BY <2>1 DEF NextIndex, N
    <2>4. \A i \in Indexes : mem'[prod.page][i] # "none"
      BY <1>2, <2>2 DEF Filling
    <2>5. ASSUME NEW d \in 1 .. b PROVE mem'[prod.page][Back(N, d)] = "blank"
      <3>1. d \in 1 .. MaxSendBuffs /\ b > 0 /\ (d = 1 \/ d \in 2 .. b)
        BY <1>2
      <3>2. CASE Back(N, d) = prod.index
        BY <1>4, <2>2, <3>1, <3>2
      <3>3. CASE Back(N, d) # prod.index
        <4>1. d \in 2 .. b
          BY <1>3, <3>1, <3>3
        <4> QED  BY <1>3, <1>4, <2>2, <3>1, <3>3, <4>1
      <3> QED  BY <3>2, <3>3
    <2>6. InLoop' => /\ \A i \in Indexes : mem'[prod'.page][i] # "none"
                     /\ \A d \in 1 .. prod'.blank : mem'[prod'.page][Back(NextIndex', d)] = "blank"
      BY <2>1, <2>3, <2>4, <2>5
    <2>7. /\ mem'[prod'.page][prod'.index] \notin {"none", "junk"}
          /\ prod'.late => mem'[prod'.page][prod'.index] = "blank"
      BY <1>4, <2>1, <2>2
    <2>8. ~cancelled' => prod'.blank = 0
      BY <1>2, <1>4, <2>1
    <2> QED  BY <2>6, <2>7, <2>8 DEF Filling, Back
  <1>5. \A d \in 1 .. prod.blank : mem[prod.page][Back(prod.index, d)] = "blank"
    BY <1>2 DEF Filling
  <1>6. CASE ~cancelled
    <2>1. prod.blank = 0
      BY <1>6 DEF Filling
    <2>2. Filled("image", 0)
      BY <1>6, <2>1 DEF Fill
    <2> QED  BY <1>2, <1>4, <1>6, <2>2
  <1>7. CASE cancelled /\ Blanks
    <2>1. Filled("blank", prod.blank + 1) /\ prod.blank + 1 \in 0 .. MaxSendBuffs
          /\ prod.blank \in 0 .. MaxSendBuffs - 1
      BY <1>1, <1>2, <1>7 DEF Fill, Blanks
    <2>2. ASSUME NEW d \in 2 .. prod.blank + 1 PROVE mem[prod.page][Back(N, d)] = "blank"
      <3>1. d - 1 \in 1 .. prod.blank /\ d - 1 \in 1 .. MaxSendBuffs - 1 /\ (d - 1) + 1 = d
        BY <1>2, <2>1
      <3>2. Back(N, (d - 1) + 1) = Back(prod.index, d - 1)
        BY <1>3, <3>1
      <3> QED  BY <1>5, <3>1, <3>2
    <2> QED  BY <1>4, <1>7, <2>1, <2>2
  <1>8. CASE cancelled /\ ~Blanks
    <2>1. prod.blank = MaxSendBuffs
      BY <1>1, <1>2, <1>8 DEF Blanks
    <2>2. mem[prod.page][prod.index] = "blank"
      <3>1. MaxSendBuffs \in 1 .. prod.blank
        BY <1>2, <2>1
      <3> QED  BY <1>3, <1>5, <3>1
    <2>3. Filled("blank", MaxSendBuffs)
      BY <1>8, <2>1, <2>2 DEF Fill
    <2>4. ASSUME NEW d \in 2 .. MaxSendBuffs PROVE mem[prod.page][Back(N, d)] = "blank"
      <3>1. d - 1 \in 1 .. prod.blank /\ d - 1 \in 1 .. MaxSendBuffs - 1 /\ (d - 1) + 1 = d
        BY <1>2, <2>1
      <3>2. Back(N, (d - 1) + 1) = Back(prod.index, d - 1)
        BY <1>3, <3>1
      <3> QED  BY <1>5, <3>1, <3>2
    <2> QED  BY <1>2, <1>4, <1>8, <2>3, <2>4
  <1> QED  BY <1>6, <1>7, <1>8

(* Every step keeps Filling. *)
LEMMA FillingStep ==
  ASSUME Inv, EndsLast, Filling, Next
  PROVE  Filling'
  <1>1. prod \in [pc : {"idle", "loop", "fill", "put", "endPage", "end", "join", "gone"},
                 page : 0 .. MaxPages, left : Nat, row : Nat, index : Indexes,
                 blank : 0 .. MaxSendBuffs, late : BOOLEAN, failed : BOOLEAN,
                 frees : BOOLEAN, back : BOOLEAN]
        /\ mem \in [Pages -> [Indexes -> {"none", "junk", "image", "blank"}]]
        /\ cancelled \in BOOLEAN
    BY DEF Inv, TypeOK
  <1>2. ~InLoop' /\ cancelled' = cancelled /\ prod'.blank = prod.blank => Filling'
    BY DEF Filling, InLoop
  <1>a. CASE Cancel
    BY <1>a, <1>1, FillingSame DEF Cancel, InLoop, NextIndex
  <1>b. CASE \E n \in Stripes : BeginPage(n)
    <2> PICK n \in Stripes : BeginPage(n)
      BY <1>b
    <2>1. /\ prod.page + 1 \in Pages /\ cancelled' = cancelled
          /\ prod'.page = prod.page + 1 /\ prod'.blank = 0 /\ prod'.pc = "loop"
          /\ mem' = [mem EXCEPT ![prod.page + 1] = [i \in Indexes |-> "junk"]]
      BY <1>1, Produced DEF BeginPage, NewPage, Inv
    <2>2. /\ \A i \in Indexes : mem'[prod'.page][i] # "none"
          /\ 1 .. prod'.blank = {}
      BY <1>1, <2>1
    <2> QED  BY <2>1, <2>2 DEF Filling
  <1>c. CASE \E n \in 0 .. (MaxSendBuffs - 1) : BreakPage(n)
    BY <1>c, <1>1, <1>2 DEF BreakPage, InLoop
  <1>d. CASE AbandonPage
    BY <1>d, <1>1, <1>2 DEF AbandonPage, NewPage, InLoop
  <1>e. CASE WaitBuffer
    BY <1>e, <1>1, FillingSame DEF WaitBuffer, InLoop, NextIndex
  <1>f. CASE Fill
    BY <1>f, FillingFill
  <1>g. CASE FillFails
    BY <1>g, <1>1, <1>2 DEF FillFails, InLoop
  <1>h. CASE SendStripe
    <2>1. /\ prod.pc = "put" /\ mem' = mem /\ cancelled' = cancelled
          /\ prod'.pc = "loop" /\ prod'.page = prod.page /\ prod'.blank = prod.blank
          /\ prod'.index = (prod.index + 1) % MaxSendBuffs
      BY <1>h, <1>1 DEF SendStripe
    <2> QED  BY <2>1, FillingSame DEF InLoop, NextIndex
  <1>i. CASE LoopEnds
    BY <1>i, <1>1, <1>2 DEF LoopEnds, InLoop
  <1>j. CASE EndPage
    BY <1>j, <1>1, <1>2 DEF EndPage, InLoop
  <1>k. CASE BlankPage
    BY <1>k, <1>1, <1>2 DEF BlankPage, NewPage, InLoop
  <1>l. CASE EndJob
    BY <1>l, <1>1, <1>2 DEF EndJob, InLoop
  <1>m. CASE Join
    BY <1>m, <1>1, <1>2 DEF Join, InLoop
  <1>n. CASE StartsJob
    BY <1>n, <1>1, FillingSame DEF StartsJob, InLoop, NextIndex
  <1>o. CASE StartsPage
    BY <1>o, <1>1, FillingSame DEF StartsPage, InLoop, NextIndex
  <1>p. CASE BeginsSwath
    BY <1>p, <1>1, FillingSame DEF BeginsSwath, InLoop, NextIndex
  <1>q. CASE EndsPage
    <2>1. CASE ~InLoop
      BY <1>q, <1>2, <2>1 DEF EndsPage, InLoop
    <2>2. CASE InLoop
      <3>1. /\ Len(queue) \in Nat \ {0} /\ Head(queue) = queue[1]
            /\ queue[1] \in Messages /\ queue[1].id = "endPage"
        BY <1>q, TakeStep DEF EndsPage, Inv
      <3>2. queue[1].page \in Pages /\ queue[1].page < prod.page
        BY <2>2, <3>1, MessageParts DEF EndsLast, InPage, InLoop
      <3>3. prod.page \in Pages /\ queue[1].page # prod.page
        BY <2>2, <3>2, PclAssumption DEF Inv, Placed, InLoop, Pages
      <3>4. mem'[prod.page] = mem[prod.page]
        BY <1>q, <1>1, <3>1, <3>2, <3>3 DEF EndsPage
      <3>5. prod' = prod /\ cancelled' = cancelled
        BY <1>q DEF EndsPage
      <3> QED  BY <3>4, <3>5 DEF Filling, InLoop, NextIndex, Back
    <2> QED  BY <2>1, <2>2
  <1>r. CASE EndsJob
    BY <1>r, <1>1, FillingSame DEF EndsJob, InLoop, NextIndex
  <1>s. CASE EndsSwath
    BY <1>s, <1>1, FillingSame DEF EndsSwath, InLoop, NextIndex
  <1> QED  BY <1>a, <1>b, <1>c, <1>d, <1>e, <1>f, <1>g, <1>h, <1>i, <1>j, <1>k, <1>l, <1>m,
              <1>n, <1>o, <1>p, <1>q, <1>r, <1>s DEF Next, JobThread, SendThread

(* Nothing is on its way when the job starts. *)
LEMMA InitBuffers == Init => BufferInv
  <1> SUFFICES ASSUME Init PROVE BufferInv
    OBVIOUS
  <1>1. Inv
    BY InitInv
  <1>2. Len(queue) = 1 /\ queue[1].id = "startJob" /\ send.pc = "receive"
    BY MessagesMade DEF Init
  <1>3. EndsLast
    BY <1>2 DEF EndsLast
  <1>4. Flying
    BY <1>2 DEF Flying, InFlight, Queued
  <1>5. Filling
    BY DEF Init, Filling, InLoop
  <1> QED  BY <1>1, <1>3, <1>4, <1>5 DEF BufferInv

(* The invariant of the buffers is inductive. *)
LEMMA NextBuffers == BufferInv /\ [Next]_vars => BufferInv'
  <1> SUFFICES ASSUME BufferInv, [Next]_vars PROVE BufferInv'
    OBVIOUS
  <1>1. Inv'
    BY NextInv DEF BufferInv
  <1>2. CASE Next
    <2>1. EndsLast'
      BY <1>2, EndsLastStep DEF BufferInv, Inv
    <2>2. Filling'
      BY <1>2, FillingStep DEF BufferInv
    <2>3. Flying'
      BY <1>2, FlyingStep
    <2> QED  BY <1>1, <2>1, <2>2, <2>3 DEF BufferInv
  <1>3. CASE UNCHANGED vars
    <2>1. EndsLast'
      BY <1>3 DEF vars, BufferInv, EndsLast, InPage
    <2>2. Filling'
      BY <1>3 DEF vars, BufferInv, Filling, InLoop, NextIndex, Back
    <2>3. Flying'
      BY <1>3 DEF vars, BufferInv, Flying, InFlight, Queued
    <2> QED  BY <1>1, <2>1, <2>2, <2>3 DEF BufferInv
  <1> QED  BY <1>2, <1>3

(* Nobody uses a buffer that is gone or was never there, and everything
   made after the cancel is white, although the ring is blanked only once:
   for any pages, whole or broken, and also when the queue is full. *)
THEOREM BuffersStaySafe == Spec => []BuffersAreSafe
  <1>1. BufferInv => BuffersAreSafe
    <2> SUFFICES ASSUME BufferInv PROVE BuffersAreSafe
      OBVIOUS
    <2>1. NoDeadBuffer
      BY DEF BufferInv, Flying, Filling, InLoop, NoDeadBuffer
    <2>2. BlankAfterCancel
      BY DEF BufferInv, Flying, BlankAfterCancel
    <2> QED  BY <2>1, <2>2 DEF BuffersAreSafe
  <1> QED  BY <1>1, InitBuffers, NextBuffers, PTL DEF Spec

(***************************************************************************)
(* The calls of the generator.  A message that is refused is missed by it, *)
(* so that the order of the calls is proved of the behaviours in which     *)
(* none is (NothingRefused), and those are what the next part is about.    *)
(***************************************************************************)
(* A stripe of row r of page p may come after message m. *)
Follows(m, p, r) == \/ m.id = "startPage" /\ m.page = p /\ r = 0
                    \/ m.id = "send" /\ m.page = p /\ r = m.row + 1

(* It may come at place i of the queue: after the message before it, or
   the one in the send thread's hand, or what the generator has got. *)
Expects(q, s, o, i, p, r) ==
  IF i > 1 THEN Follows(q[i - 1], p, r)
  ELSE IF s.pc = "swath" THEN Follows(s.msg, p, r)
  ELSE o.open /\ o.page = p /\ o.row = r

(* Every stripe is where it may come, the next one will be. *)
RowsInOrder ==
  /\ \A i \in Sends(queue) : Expects(queue, send, out, i, queue[i].page, queue[i].row)
  /\ InLoop => Expects(queue, send, out, Len(queue) + 1, prod.page, prod.row)
  /\ SwathsInOrder

(* The end of a page that was started is queued, or will be. *)
PagesClose ==
  /\ out.open => InPage \/ \E j \in 1 .. Len(queue) : queue[j].id = "endPage"
  /\ \A i \in 1 .. Len(queue) : queue[i].id = "startPage" =>
       InPage \/ \E j \in (i + 1) .. Len(queue) : queue[j].id = "endPage"

(* The end of the job is the last message of all. *)
EndIsLast ==
  /\ \A i \in 1 .. Len(queue) : queue[i].id = "endJob" => i = Len(queue) /\ prod.pc = "join"
  /\ send.pc = "ended" => queue = << >> /\ prod.pc \in {"join", "gone"}
  /\ prod.pc = "gone" => send.pc = "ended"

(* Each page that was begun has been ended, or will be. *)
EndsCounted ==
  out.ended + Cardinality(Places(queue, 1, "endPage")) + (IF InPage THEN 1 ELSE 0)
    = prod.page

CallInv == Inv /\ RowsInOrder /\ PagesClose /\ EndIsLast /\ EndsCounted

(* What a message that finds room does to the queue. *)
LEMMA PutRoom ==
  ASSUME TypeOK, NEW x \in Messages, Put(x), HasRoom
  PROVE  /\ queue' = Append(queue, x) /\ queue \in Seq(Messages)
         /\ Len(queue) \in Nat /\ Len(queue') = Len(queue) + 1
         /\ \A i \in 1 .. Len(queue) : queue'[i] = queue[i]
         /\ queue'[Len(queue) + 1] = x
         /\ Sends(queue') = Sends(queue) \cup (IF x.id = "send" THEN {Len(queue) + 1} ELSE {})
  <1>1. queue' = Append(queue, x) /\ queue \in Seq(Messages)
    BY DEF Put, TypeOK
  <1> QED  BY <1>1, PutStep

(* What is expected at a place does not change when a message is added. *)
LEMMA ExpectsPut ==
  ASSUME TypeOK, NEW x \in Messages, Put(x), HasRoom, send' = send, out' = out
  PROVE  /\ \A i \in 1 .. Len(queue) + 1 : \A p, r :
              Expects(queue, send, out, i, p, r) => Expects(queue', send', out', i, p, r)
         /\ \A p, r : Follows(x, p, r) => Expects(queue', send', out', Len(queue') + 1, p, r)
  <1>1. /\ Len(queue) \in Nat /\ Len(queue') = Len(queue) + 1
        /\ \A i \in 1 .. Len(queue) : queue'[i] = queue[i]
        /\ queue'[Len(queue) + 1] = x
    BY PutRoom
  <1>2. ASSUME NEW i \in 1 .. Len(queue) + 1, NEW p, NEW r, Expects(queue, send, out, i, p, r)
        PROVE  Expects(queue', send', out', i, p, r)
    <2>1. CASE i > 1
      <3>1. i - 1 \in 1 .. Len(queue)
        BY <1>1, <2>1
      <3> QED  BY <1>1, <1>2, <2>1, <3>1 DEF Expects
    <2>2. CASE ~(i > 1)
      BY <1>2, <2>2 DEF Expects
    <2> QED  BY <2>1, <2>2
  <1>3. ASSUME NEW p, NEW r, Follows(x, p, r)
        PROVE  Expects(queue', send', out', Len(queue') + 1, p, r)
    <2>1. Len(queue') + 1 > 1 /\ (Len(queue') + 1) - 1 = Len(queue) + 1
      BY <1>1
    <2> QED  BY <1>1, <1>3, <2>1 DEF Expects
  <1> QED  BY <1>2, <1>3

(* It moves up when the send thread takes a message and calls. *)
LEMMA ExpectsTake ==
  ASSUME TypeOK, NEW id, Take(id),
         \A p, r : Follows(Head(queue), p, r) =>
           IF send'.pc = "swath" THEN Follows(send'.msg, p, r)
                                 ELSE out'.open /\ out'.page = p /\ out'.row = r
  PROVE  \A i \in 1 .. Len(queue) : \A p, r :
           Expects(queue, send, out, i + 1, p, r) => Expects(queue', send', out', i, p, r)
  <1> SUFFICES ASSUME NEW i \in 1 .. Len(queue), NEW p, NEW r,
                      Expects(queue, send, out, i + 1, p, r)
               PROVE  Expects(queue', send', out', i, p, r)
    OBVIOUS
  <1>1. /\ Len(queue) \in Nat \ {0} /\ Len(queue') = Len(queue) - 1
        /\ Head(queue) = queue[1]
        /\ \A j \in 1 .. Len(queue') : queue'[j] = queue[j + 1]
    BY TakeStep
  <1>2. i + 1 > 1 /\ (i + 1) - 1 = i
    BY <1>1
  <1>3. Follows(queue[i], p, r)
    BY <1>2 DEF Expects
  <1>4. CASE i > 1
    <2>1. i - 1 \in 1 .. Len(queue') /\ (i - 1) + 1 = i
      BY <1>1, <1>4
    <2>2. queue'[i - 1] = queue[i]
      BY <1>1, <2>1
    <2> QED  BY <1>3, <1>4, <2>2 DEF Expects
  <1>5. CASE ~(i > 1)
    <2>1. i = 1
      BY <1>1, <1>5
    <2>2. Follows(Head(queue), p, r)
      BY <1>1, <1>3, <2>1
    <2> QED  BY <2>1, <2>2 DEF Expects
  <1> QED  BY <1>4, <1>5

(* The order of the rows when nothing is queued or received. *)
LEMMA RowsSame ==
  ASSUME RowsInOrder, queue' = queue, send' = send, out' = out,
         InLoop' => InLoop /\ prod'.page = prod.page /\ prod'.row = prod.row
  PROVE  RowsInOrder'
  <1>1. \A i, p, r : Expects(queue', send', out', i, p, r) <=> Expects(queue, send, out, i, p, r)
    BY DEF Expects
  <1>2. (\A i \in Sends(queue) : Expects(queue, send, out, i, queue[i].page, queue[i].row))'
    BY <1>1 DEF RowsInOrder, Sends
  <1>3. (InLoop => Expects(queue, send, out, Len(queue) + 1, prod.page, prod.row))'
    BY <1>1 DEF RowsInOrder
  <1>4. SwathsInOrder'
    BY DEF RowsInOrder, SwathsInOrder
  <1> QED  BY <1>2, <1>3, <1>4 DEF RowsInOrder

(* When a message is queued behind which the job thread leaves the page. *)
LEMMA RowsPut ==
  ASSUME TypeOK, RowsInOrder, NEW x \in Messages, Put(x), HasRoom,
         send' = send, out' = out,
         x.id = "send" => Expects(queue, send, out, Len(queue) + 1, x.page, x.row),
         InLoop' => Follows(x, prod'.page, prod'.row)
  PROVE  RowsInOrder'
  <1>1. /\ Len(queue) \in Nat /\ Len(queue') = Len(queue) + 1
        /\ \A i \in 1 .. Len(queue) : queue'[i] = queue[i]
        /\ queue'[Len(queue) + 1] = x
        /\ Sends(queue') = Sends(queue) \cup (IF x.id = "send" THEN {Len(queue) + 1} ELSE {})
    BY PutRoom
  <1>2. ASSUME NEW i \in Sends(queue')
        PROVE  Expects(queue', send', out', i, queue'[i].page, queue'[i].row)
    <2>1. CASE i \in Sends(queue)
      <3>1. i \in 1 .. Len(queue) /\ i \in 1 .. Len(queue) + 1
        BY <1>1, <2>1 DEF Sends
      <3>2. Expects(queue, send, out, i, queue[i].page, queue[i].row)
        BY <2>1 DEF RowsInOrder
      <3>3. Expects(queue', send', out', i, queue[i].page, queue[i].row)
              <=> Expects(queue', send', out', i, queue'[i].page, queue'[i].row)
        BY <1>1, <3>1
      <3> QED  BY <3>1, <3>2, <3>3, ExpectsPut
    <2>2. CASE i = Len(queue) + 1 /\ x.id = "send"
      <3>1. Expects(queue, send, out, i, x.page, x.row) /\ i \in 1 .. Len(queue) + 1
        BY <1>1, <2>2
      <3> QED  BY <1>1, <2>2, <3>1, ExpectsPut
    <2> QED  BY <1>1, <2>1, <2>2
  <1>3. (InLoop => Expects(queue, send, out, Len(queue) + 1, prod.page, prod.row))'
    BY ExpectsPut
  <1>4. SwathsInOrder'
    BY DEF RowsInOrder, SwathsInOrder
  <1> QED  BY <1>2, <1>3, <1>4 DEF RowsInOrder

(* When the send thread takes a message. *)
LEMMA RowsTake ==
  ASSUME TypeOK, RowsInOrder, NEW id, Take(id), prod' = prod, SwathsInOrder',
         \A p, r : Follows(Head(queue), p, r) =>
           IF send'.pc = "swath" THEN Follows(send'.msg, p, r)
                                 ELSE out'.open /\ out'.page = p /\ out'.row = r
  PROVE  RowsInOrder'
  <1>1. /\ Len(queue) \in Nat \ {0} /\ Len(queue') = Len(queue) - 1
        /\ \A i \in 1 .. Len(queue') :
              queue'[i] = queue[i + 1] /\ (i \in Sends(queue') <=> i + 1 \in Sends(queue))
    BY TakeStep
  <1>2. ASSUME NEW i \in Sends(queue')
        PROVE  Expects(queue', send', out', i, queue'[i].page, queue'[i].row)
    <2>1. i \in 1 .. Len(queue') /\ i \in 1 .. Len(queue)
      BY <1>1 DEF Sends
    <2>2. Expects(queue, send, out, i + 1, queue[i + 1].page, queue[i + 1].row)
      BY <1>1, <2>1 DEF RowsInOrder
    <2>3. Expects(queue, send, out, i + 1, queue'[i].page, queue'[i].row)
      BY <1>1, <2>1, <2>2
    <2> QED  BY <2>1, <2>3, ExpectsTake
  <1>3. (InLoop => Expects(queue, send, out, Len(queue) + 1, prod.page, prod.row))'
    <2>1. Len(queue) \in 1 .. Len(queue) /\ Len(queue') + 1 = Len(queue)
      BY <1>1
    <2>2. InLoop => Expects(queue, send, out, Len(queue) + 1, prod.page, prod.row)
      BY DEF RowsInOrder
    <2>3. InLoop => Expects(queue', send', out', Len(queue), prod.page, prod.row)
      BY <2>1, <2>2, ExpectsTake
    <2> QED  BY <2>1, <2>3 DEF InLoop
  <1> QED  BY <1>2, <1>3 DEF RowsInOrder

(* Every step that is not refused keeps the order of the rows. *)
LEMMA RowsStep ==
  ASSUME TypeOK, Placed, NothingRefused, RowsInOrder, Next
  PROVE  RowsInOrder'
  <1>1. /\ prod \in [pc : {"idle", "loop", "fill", "put", "endPage", "end", "join", "gone"},
                 page : 0 .. MaxPages, left : Nat, row : Nat, index : Indexes,
                 blank : 0 .. MaxSendBuffs, late : BOOLEAN, failed : BOOLEAN,
                 frees : BOOLEAN, back : BOOLEAN]
        /\ send \in [pc : {"receive", "swath", "ended"}, msg : Messages]
        /\ out \in [page : 0 .. MaxPages, open : BOOLEAN, row : Nat, ended : Nat]
    BY DEF TypeOK
  <1>2. prod.pc \in {"idle", "put", "endPage", "end"} => HasRoom
    BY DEF NothingRefused
  <1>a. CASE Cancel
    BY <1>a, RowsSame DEF Cancel, InLoop
  <1>b. CASE \E n \in Stripes : BeginPage(n)
    <2> PICK n \in Stripes : BeginPage(n)
      BY <1>b
    <2>1. /\ prod.page + 1 \in Pages /\ Put(Msg("startPage", prod.page + 1)) /\ HasRoom
          /\ prod'.page = prod.page + 1 /\ prod'.row = 0 /\ send' = send /\ out' = out
      BY <1>1, <1>2, Produced DEF BeginPage, NewPage
    <2>2. /\ Msg("startPage", prod.page + 1) \in Messages
          /\ Msg("startPage", prod.page + 1).id = "startPage"
          /\ Msg("startPage", prod.page + 1).page = prod.page + 1
      BY <2>1, MessagesMade DEF Msg
    <2>3. Follows(Msg("startPage", prod.page + 1), prod'.page, prod'.row)
      BY <2>1, <2>2 DEF Follows
    <2> QED  BY <2>1, <2>2, <2>3, RowsPut
  <1>c. CASE \E n \in 0 .. (MaxSendBuffs - 1) : BreakPage(n)
    BY <1>c, <1>1, RowsSame DEF BreakPage, InLoop
  <1>d. CASE AbandonPage
    BY <1>d, <1>1, RowsSame DEF AbandonPage, NewPage, InLoop
  <1>e. CASE WaitBuffer
    BY <1>e, <1>1, RowsSame DEF WaitBuffer, InLoop
  <1>f. CASE Fill
    <2>1. prod'.page = prod.page /\ prod'.row = prod.row /\ InLoop
          /\ queue' = queue /\ send' = send /\ out' = out
      BY <1>f, <1>1 DEF Fill, Filled, InLoop
    <2> QED  BY <2>1, RowsSame
  <1>g. CASE FillFails
    BY <1>g, <1>1, RowsSame DEF FillFails, InLoop
  <1>h. CASE SendStripe
    <2>1. /\ prod.pc = "put" /\ HasRoom /\ InLoop /\ prod.page \in Pages
          /\ prod'.page = prod.page /\ prod'.row = prod.row + 1 /\ send' = send /\ out' = out
      BY <1>h, <1>1, <1>2 DEF SendStripe, InLoop, Placed
    <2> DEFINE x == SendMsg(prod.page, prod.index, prod.row, prod.late)
    <2>2. x \in Messages /\ x.id = "send" /\ x.page = prod.page /\ x.row = prod.row /\ Put(x)
      BY <1>h, <1>1, <2>1, StripeMade DEF SendStripe, SendMsg
    <2> HIDE DEF x
    <2>3. Expects(queue, send, out, Len(queue) + 1, x.page, x.row)
      BY <2>1, <2>2 DEF RowsInOrder
    <2>4. Follows(x, prod'.page, prod'.row)
      BY <2>1, <2>2 DEF Follows
    <2> QED  BY <2>1, <2>2, <2>3, <2>4, RowsPut
  <1>i. CASE LoopEnds
    BY <1>i, <1>1, RowsSame DEF LoopEnds, InLoop
  <1>j. CASE EndPage
    <2>1. ~InLoop' /\ HasRoom /\ send' = send /\ out' = out
      BY <1>j, <1>1, <1>2 DEF EndPage, InLoop
    <2>2. PICK m \in Messages : Put(m) /\ m.id = "endPage"
      BY <1>j, <1>1, MessagesMade DEF EndPage, Placed
    <2> QED  BY <2>1, <2>2, RowsPut
  <1>k. CASE BlankPage
    <2>1. ~InLoop' /\ HasRoom /\ send' = send /\ out' = out /\ prod.page + 1 \in Pages
      BY <1>k, <1>1, <1>2, Produced DEF BlankPage, NewPage, InLoop
    <2>2. PICK m \in Messages : Put(m) /\ m.id = "endPage"
      BY <1>k, <2>1, MessagesMade DEF BlankPage
    <2> QED  BY <2>1, <2>2, RowsPut
  <1>l. CASE EndJob
    <2>1. ~InLoop' /\ HasRoom /\ send' = send /\ out' = out
      BY <1>l, <1>1, <1>2 DEF EndJob, InLoop
    <2>2. PICK m \in Messages : Put(m) /\ m.id = "endJob"
      BY <1>l, MessagesMade DEF EndJob
    <2> QED  BY <2>1, <2>2, RowsPut
  <1>m. CASE Join
    BY <1>m, <1>1, RowsSame DEF Join, InLoop
  <1>n. CASE StartsJob
    <2>1. Take("startJob") /\ send'.pc # "swath" /\ Head(queue).id = "startJob" /\ prod' = prod
      BY <1>n, TakeStep DEF StartsJob
    <2> QED  BY <2>1, RowsTake DEF Follows, SwathsInOrder
  <1>o. CASE StartsPage
    <2>1. /\ Take("startPage") /\ send'.pc # "swath" /\ Head(queue).id = "startPage"
          /\ prod' = prod /\ out'.open /\ out'.page = Head(queue).page /\ out'.row = 0
      BY <1>o, <1>1, TakeStep DEF StartsPage
    <2> QED  BY <2>1, RowsTake DEF Follows, SwathsInOrder
  <1>p. CASE BeginsSwath
    <2>1. /\ Take("send") /\ Head(queue) = queue[1] /\ 1 \in Sends(queue) /\ prod' = prod
          /\ send' = [pc |-> "swath", msg |-> Head(queue)] /\ out' = out /\ send.pc = "receive"
      <3>1. Take("send")
        BY <1>p DEF BeginsSwath
      <3>2. Len(queue) \in Nat \ {0} /\ Head(queue) = queue[1] /\ Head(queue).id = "send"
            /\ send.pc = "receive"
        BY <3>1, TakeStep
      <3>3. 1 \in Sends(queue)
        BY <3>2 DEF Sends
      <3> QED  BY <1>p, <3>1, <3>2, <3>3 DEF BeginsSwath
    <2>2. out.open /\ out.page = Head(queue).page /\ out.row = Head(queue).row
      BY <2>1 DEF RowsInOrder, Expects
    <2>3. SwathsInOrder'
      BY <2>1, <2>2 DEF SwathsInOrder
    <2> QED  BY <2>1, <2>3, RowsTake
  <1>q. CASE EndsPage
    <2>1. Take("endPage") /\ send'.pc # "swath" /\ Head(queue).id = "endPage" /\ prod' = prod
      BY <1>q, TakeStep DEF EndsPage
    <2> QED  BY <2>1, RowsTake DEF Follows, SwathsInOrder
  <1>r. CASE EndsJob
    <2>1. Take("endJob") /\ send'.pc # "swath" /\ Head(queue).id = "endJob" /\ prod' = prod
      BY <1>r, <1>1, TakeStep DEF EndsJob
    <2> QED  BY <2>1, RowsTake DEF Follows, SwathsInOrder
  <1>s. CASE EndsSwath
    <2>1. /\ queue' = queue /\ prod' = prod /\ send.pc = "swath" /\ send'.pc = "receive"
          /\ out'.open = out.open /\ out'.page = out.page /\ out'.row = out.row + 1
          /\ out.open /\ out.page = send.msg.page /\ out.row = send.msg.row
      BY <1>s, <1>1 DEF EndsSwath, RowsInOrder, SwathsInOrder
    <2>2. send.msg.id = "send"
      BY <2>1 DEF Placed
    <2>3. \A i, p, r : Expects(queue, send, out, i, p, r) => Expects(queue', send', out', i, p, r)
      BY <2>1, <2>2 DEF Expects, Follows
    <2> QED  BY <2>1, <2>3 DEF RowsInOrder, InLoop, Sends, SwathsInOrder
  <1> QED  BY <1>a, <1>b, <1>c, <1>d, <1>e, <1>f, <1>g, <1>h, <1>i, <1>j, <1>k, <1>l, <1>m,
              <1>n, <1>o, <1>p, <1>q, <1>r, <1>s DEF Next, JobThread, SendThread

(* The ends of pages when nothing is queued or received. *)
LEMMA CloseSame ==
  ASSUME PagesClose, queue' = queue, out'.open = out.open, InPage => InPage'
  PROVE  PagesClose'
  BY DEF PagesClose

(* When a message is queued: when the job thread leaves the page it is the
   end of the page. *)
LEMMA ClosePut ==
  ASSUME TypeOK, PagesClose, NEW x \in Messages, Put(x), HasRoom, out' = out,
         InPage => InPage' \/ x.id = "endPage",
         x.id = "startPage" => InPage'
  PROVE  PagesClose'
  <1>1. /\ Len(queue) \in Nat /\ Len(queue') = Len(queue) + 1
        /\ \A i \in 1 .. Len(queue) : queue'[i] = queue[i]
        /\ queue'[Len(queue) + 1] = x
    BY PutRoom
  <1>2. ASSUME NEW i \in 0 .. Len(queue),
               InPage \/ \E j \in (i + 1) .. Len(queue) : queue[j].id = "endPage"
        PROVE  InPage' \/ \E j \in (i + 1) .. Len(queue') : queue'[j].id = "endPage"
    <2>1. CASE \E j \in (i + 1) .. Len(queue) : queue[j].id = "endPage"
      <3> PICK j \in (i + 1) .. Len(queue) : queue[j].id = "endPage"
        BY <2>1
      <3>1. j \in 1 .. Len(queue) /\ j \in (i + 1) .. Len(queue')
        BY <1>1
      <3> QED  BY <1>1, <3>1
    <2>2. CASE InPage /\ ~InPage'
      <3>1. Len(queue) + 1 \in (i + 1) .. Len(queue')
        BY <1>1
      <3> QED  BY <1>1, <2>2, <3>1
    <2> QED  BY <1>2, <2>1, <2>2
  <1>3. out'.open => InPage' \/ \E j \in 1 .. Len(queue') : queue'[j].id = "endPage"
    <2>1. 0 \in 0 .. Len(queue) /\ 0 + 1 = 1
      BY <1>1
    <2>2. out'.open => InPage \/ \E j \in 1 .. Len(queue) : queue[j].id = "endPage"
      BY DEF PagesClose
    <2> QED  BY <1>2, <2>1, <2>2
  <1>4. ASSUME NEW i \in 1 .. Len(queue'), queue'[i].id = "startPage"
        PROVE  InPage' \/ \E j \in (i + 1) .. Len(queue') : queue'[j].id = "endPage"
    <2>1. CASE i \in 1 .. Len(queue)
      <3>1. i \in 0 .. Len(queue) /\ queue'[i] = queue[i]
        BY <1>1, <2>1
      <3> QED  BY <1>2, <1>4, <2>1, <3>1 DEF PagesClose
    <2>2. CASE i = Len(queue) + 1
      BY <1>1, <1>4, <2>2
    <2> QED  BY <1>1, <2>1, <2>2
  <1> QED  BY <1>3, <1>4 DEF PagesClose

(* When one is received: the generator has opened or closed the page. *)
LEMMA CloseTake ==
  ASSUME TypeOK, PagesClose, NEW id, Take(id), prod' = prod,
         out'.open => id = "startPage" \/ (out.open /\ id # "endPage")
  PROVE  PagesClose'
  <1>1. /\ Len(queue) \in Nat \ {0} /\ Len(queue') = Len(queue) - 1
        /\ Head(queue) = queue[1] /\ Head(queue).id = id
        /\ \A i \in 1 .. Len(queue') : queue'[i] = queue[i + 1]
    BY TakeStep
  <1>2. ASSUME NEW i \in 0 .. Len(queue'),
               InPage \/ \E j \in (i + 2) .. Len(queue) : queue[j].id = "endPage"
        PROVE  InPage' \/ \E j \in (i + 1) .. Len(queue') : queue'[j].id = "endPage"
    <2>1. CASE \E j \in (i + 2) .. Len(queue) : queue[j].id = "endPage"
      <3> PICK j \in (i + 2) .. Len(queue) : queue[j].id = "endPage"
        BY <2>1
      <3>1. /\ j - 1 \in 1 .. Len(queue') /\ j - 1 \in (i + 1) .. Len(queue')
            /\ (j - 1) + 1 = j
        BY <1>1
      <3> QED  BY <1>1, <3>1
    <2>2. CASE InPage
      BY <2>2 DEF InPage
    <2> QED  BY <1>2, <2>1, <2>2
  <1>3. out'.open => InPage' \/ \E j \in 1 .. Len(queue') : queue'[j].id = "endPage"
    <2>1. 0 \in 0 .. Len(queue') /\ 0 + 1 = 1 /\ 0 + 2 = 2 /\ 1 + 1 = 2 /\ 1 \in 1 .. Len(queue)
      BY <1>1
    <2>2. ASSUME out'.open
          PROVE  InPage \/ \E j \in 2 .. Len(queue) : queue[j].id = "endPage"
      <3>1. CASE id = "startPage"
        BY <1>1, <2>1, <3>1 DEF PagesClose
      <3>2. CASE out.open /\ id # "endPage"
        <4>1. InPage \/ \E j \in 1 .. Len(queue) : queue[j].id = "endPage"
          BY <3>2 DEF PagesClose
        <4>2. \A j \in 1 .. Len(queue) : j = 1 \/ j \in 2 .. Len(queue)
          BY <1>1
        <4> QED  BY <1>1, <3>2, <4>1, <4>2
      <3> QED  BY <2>2, <3>1, <3>2
    <2> QED  BY <1>2, <2>1, <2>2
  <1>4. ASSUME NEW i \in 1 .. Len(queue'), queue'[i].id = "startPage"
        PROVE  InPage' \/ \E j \in (i + 1) .. Len(queue') : queue'[j].id = "endPage"
    <2>1. i + 1 \in 1 .. Len(queue) /\ (i + 1) + 1 = i + 2 /\ i \in 0 .. Len(queue')
      BY <1>1
    <2>2. queue[i + 1].id = "startPage"
      BY <1>1, <1>4
    <2>3. InPage \/ \E j \in (i + 2) .. Len(queue) : queue[j].id = "endPage"
      BY <2>1, <2>2 DEF PagesClose
    <2> QED  BY <1>2, <2>1, <2>3
  <1> QED  BY <1>3, <1>4 DEF PagesClose

(* Every step that is not refused keeps PagesClose. *)
LEMMA CloseStep ==
  ASSUME TypeOK, Placed, NothingRefused, PagesClose, Next
  PROVE  PagesClose'
  <1>1. /\ prod \in [pc : {"idle", "loop", "fill", "put", "endPage", "end", "join", "gone"},
                 page : 0 .. MaxPages, left : Nat, row : Nat, index : Indexes,
                 blank : 0 .. MaxSendBuffs, late : BOOLEAN, failed : BOOLEAN,
                 frees : BOOLEAN, back : BOOLEAN]
        /\ out \in [page : 0 .. MaxPages, open : BOOLEAN, row : Nat, ended : Nat]
    BY DEF TypeOK
  <1>2. prod.pc \in {"idle", "put", "endPage", "end"} => HasRoom
    BY DEF NothingRefused
  <1>a. CASE Cancel
    BY <1>a, CloseSame DEF Cancel, InPage
  <1>b. CASE \E n \in Stripes : BeginPage(n)
    <2> PICK n \in Stripes : BeginPage(n)
      BY <1>b
    <2>1. /\ prod.page + 1 \in Pages /\ Put(Msg("startPage", prod.page + 1)) /\ HasRoom
          /\ InPage' /\ out' = out
      BY <1>1, <1>2, Produced DEF BeginPage, NewPage, InPage
    <2>2. Msg("startPage", prod.page + 1) \in Messages
      BY <2>1, MessagesMade
    <2> QED  BY <2>1, <2>2, ClosePut
  <1>c. CASE \E n \in 0 .. (MaxSendBuffs - 1) : BreakPage(n)
    BY <1>c, <1>1, CloseSame DEF BreakPage, InPage
  <1>d. CASE AbandonPage
    BY <1>d, <1>1, CloseSame DEF AbandonPage, NewPage, InPage
  <1>e. CASE WaitBuffer
    BY <1>e, <1>1, CloseSame DEF WaitBuffer, InPage
  <1>f. CASE Fill
    <2>1. prod'.pc = "put" /\ queue' = queue /\ out' = out
      BY <1>f, <1>1 DEF Fill, Filled
    <2> QED  BY <2>1, CloseSame DEF InPage
  <1>g. CASE FillFails
    BY <1>g, <1>1, CloseSame DEF FillFails, InPage
  <1>h. CASE SendStripe
    <2>1. HasRoom /\ InPage' /\ out' = out
      BY <1>h, <1>1, <1>2 DEF SendStripe, InPage
    <2>2. PICK m \in Messages : Put(m) /\ m.id = "send"
      BY <1>h, <1>1, StripeMade DEF SendStripe, Placed
    <2> QED  BY <2>1, <2>2, ClosePut
  <1>i. CASE LoopEnds
    BY <1>i, <1>1, CloseSame DEF LoopEnds, InPage
  <1>j. CASE EndPage
    <2>1. HasRoom /\ out' = out
      BY <1>j, <1>2 DEF EndPage
    <2>2. PICK m \in Messages : Put(m) /\ m.id = "endPage"
      BY <1>j, <1>1, MessagesMade DEF EndPage, Placed
    <2> QED  BY <2>1, <2>2, ClosePut
  <1>k. CASE BlankPage
    <2>1. HasRoom /\ out' = out /\ prod.page + 1 \in Pages /\ ~InPage
      BY <1>k, <1>2, Produced DEF BlankPage, NewPage, InPage
    <2>2. PICK m \in Messages : Put(m) /\ m.id = "endPage"
      BY <1>k, <2>1, MessagesMade DEF BlankPage
    <2> QED  BY <2>1, <2>2, ClosePut
  <1>l. CASE EndJob
    <2>1. HasRoom /\ out' = out /\ ~InPage
      BY <1>l, <1>2 DEF EndJob, InPage
    <2>2. PICK m \in Messages : Put(m) /\ m.id = "endJob"
      BY <1>l, MessagesMade DEF EndJob
    <2> QED  BY <2>1, <2>2, ClosePut
  <1>m. CASE Join
    BY <1>m, <1>1, CloseSame DEF Join, InPage
  <1>n. CASE StartsJob
    BY <1>n, CloseTake DEF StartsJob
  <1>o. CASE StartsPage
    BY <1>o, CloseTake DEF StartsPage
  <1>p. CASE BeginsSwath
    BY <1>p, CloseTake DEF BeginsSwath
  <1>q. CASE EndsPage
    <2>1. Take("endPage") /\ prod' = prod /\ ~out'.open
      BY <1>q, <1>1 DEF EndsPage
    <2> QED  BY <2>1, CloseTake
  <1>r. CASE EndsJob
    BY <1>r, CloseTake DEF EndsJob
  <1>s. CASE EndsSwath
    BY <1>s, <1>1, CloseSame DEF EndsSwath, InPage
  <1> QED  BY <1>a, <1>b, <1>c, <1>d, <1>e, <1>f, <1>g, <1>h, <1>i, <1>j, <1>k, <1>l, <1>m,
              <1>n, <1>o, <1>p, <1>q, <1>r, <1>s DEF Next, JobThread, SendThread

(* The end of the job while the queue stays as it is. *)
LEMMA LastSame ==
  ASSUME EndIsLast, queue' = queue, send'.pc = "ended" => send.pc = "ended",
         prod.pc = "join" => prod'.pc = "join",
         prod.pc = "gone" => prod'.pc = "gone",
         prod'.pc = "gone" => prod.pc = "gone" /\ send'.pc = "ended"
  PROVE  EndIsLast'
  BY DEF EndIsLast

(* While a message is queued, the end of the job or one before it. *)
LEMMA LastPut ==
  ASSUME TypeOK, EndIsLast, NEW x \in Messages, Put(x), HasRoom, send' = send,
         prod.pc \notin {"join", "gone"},
         x.id = "endJob" => prod'.pc = "join", prod'.pc # "gone"
  PROVE  EndIsLast'
  <1>1. /\ Len(queue) \in Nat /\ Len(queue') = Len(queue) + 1
        /\ \A i \in 1 .. Len(queue) : queue'[i] = queue[i]
        /\ queue'[Len(queue) + 1] = x
    BY PutRoom
  <1>2. \A i \in 1 .. Len(queue) : queue[i].id # "endJob"
    BY DEF EndIsLast
  <1>3. send'.pc # "ended"
    BY DEF EndIsLast
  <1>4. ASSUME NEW i \in 1 .. Len(queue'), queue'[i].id = "endJob"
        PROVE  i = Len(queue') /\ prod'.pc = "join"
    <2>1. i = Len(queue) + 1
      BY <1>1, <1>2, <1>4
    <2> QED  BY <1>1, <1>4, <2>1
  <1> QED  BY <1>3, <1>4 DEF EndIsLast

(* While one is received. *)
LEMMA LastTake ==
  ASSUME TypeOK, EndIsLast, NEW id, Take(id), prod' = prod,
         send'.pc = "ended" => id = "endJob"
  PROVE  EndIsLast'
  <1>1. /\ Len(queue) \in Nat \ {0} /\ Len(queue') = Len(queue) - 1
        /\ Head(queue) = queue[1] /\ Head(queue).id = id /\ send.pc = "receive"
        /\ \A i \in 1 .. Len(queue') : queue'[i] = queue[i + 1]
        /\ queue' \in Seq(Messages)
    BY TakeStep
  <1>2. ASSUME NEW i \in 1 .. Len(queue'), queue'[i].id = "endJob"
        PROVE  i = Len(queue') /\ prod'.pc = "join"
    <2>1. i + 1 \in 1 .. Len(queue) /\ queue[i + 1].id = "endJob"
      BY <1>1, <1>2
    <2>2. i + 1 = Len(queue) /\ prod.pc = "join"
      BY <2>1 DEF EndIsLast
    <2> QED  BY <1>1, <2>2
  <1>3. ASSUME send'.pc = "ended" PROVE queue' = << >> /\ prod'.pc \in {"join", "gone"}
    <2>1. 1 \in 1 .. Len(queue) /\ queue[1].id = "endJob"
      BY <1>1, <1>3
    <2>2. 1 = Len(queue) /\ prod.pc = "join"
      BY <2>1 DEF EndIsLast
    <2>3. Len(queue') = 0
      <3>1. Len(queue') = Len(queue) - 1 /\ Len(queue) = 1
        BY <1>1, <2>2
      <3> QED  BY <3>1
    <2>4. queue' = << >>
      BY <1>1, <2>3
    <2> QED  BY <2>2, <2>4
  <1>4. prod.pc # "gone"
    BY <1>1 DEF EndIsLast
  <1> QED  BY <1>2, <1>3, <1>4 DEF EndIsLast

(* Every step that is not refused keeps EndIsLast. *)
LEMMA LastStep ==
  ASSUME TypeOK, Placed, NothingRefused, EndIsLast, Next
  PROVE  EndIsLast'
  <1>1. /\ prod \in [pc : {"idle", "loop", "fill", "put", "endPage", "end", "join", "gone"},
                 page : 0 .. MaxPages, left : Nat, row : Nat, index : Indexes,
                 blank : 0 .. MaxSendBuffs, late : BOOLEAN, failed : BOOLEAN,
                 frees : BOOLEAN, back : BOOLEAN]
        /\ send \in [pc : {"receive", "swath", "ended"}, msg : Messages]
    BY DEF TypeOK
  <1>2. prod.pc \in {"idle", "put", "endPage", "end"} => HasRoom
    BY DEF NothingRefused
  <1>a. CASE Cancel
    BY <1>a, LastSame DEF Cancel, EndIsLast
  <1>b. CASE \E n \in Stripes : BeginPage(n)
    <2> PICK n \in Stripes : BeginPage(n)
      BY <1>b
    <2>1. /\ prod.page + 1 \in Pages /\ Put(Msg("startPage", prod.page + 1)) /\ HasRoom
          /\ prod.pc = "idle" /\ prod'.pc = "loop" /\ send' = send
      BY <1>1, <1>2, Produced DEF BeginPage, NewPage
    <2>2. /\ Msg("startPage", prod.page + 1) \in Messages
          /\ Msg("startPage", prod.page + 1).id = "startPage"
      BY <2>1, MessagesMade
    <2> QED  BY <2>1, <2>2, LastPut
  <1>c. CASE \E n \in 0 .. (MaxSendBuffs - 1) : BreakPage(n)
    BY <1>c, <1>1, LastSame DEF BreakPage, NewPage
  <1>d. CASE AbandonPage
    BY <1>d, <1>1, LastSame DEF AbandonPage, NewPage
  <1>e. CASE WaitBuffer
    BY <1>e, <1>1, LastSame DEF WaitBuffer
  <1>f. CASE Fill
    <2>1. prod.pc = "fill" /\ prod'.pc = "put" /\ queue' = queue /\ send' = send
      BY <1>f, <1>1 DEF Fill, Filled
    <2> QED  BY <2>1, LastSame
  <1>g. CASE FillFails
    BY <1>g, <1>1, LastSame DEF FillFails
  <1>h. CASE SendStripe
    <2>1. HasRoom /\ prod.pc = "put" /\ prod'.pc = "loop" /\ send' = send
      BY <1>h, <1>1, <1>2 DEF SendStripe
    <2>2. PICK m \in Messages : Put(m) /\ m.id = "send"
      BY <1>h, <1>1, StripeMade DEF SendStripe, Placed
    <2> QED  BY <2>1, <2>2, LastPut
  <1>i. CASE LoopEnds
    BY <1>i, <1>1, LastSame DEF LoopEnds
  <1>j. CASE EndPage
    <2>1. HasRoom /\ prod.pc = "endPage" /\ prod'.pc = "idle" /\ send' = send
      BY <1>j, <1>1, <1>2 DEF EndPage
    <2>2. PICK m \in Messages : Put(m) /\ m.id = "endPage"
      BY <1>j, <1>1, MessagesMade DEF EndPage, Placed
    <2> QED  BY <2>1, <2>2, LastPut
  <1>k. CASE BlankPage
    <2>1. /\ HasRoom /\ prod.page + 1 \in Pages /\ send' = send
          /\ prod.pc = "idle" /\ prod'.pc \in {"end", "idle"}
      BY <1>k, <1>1, <1>2, Produced DEF BlankPage, NewPage
    <2>2. PICK m \in Messages : Put(m) /\ m.id = "endPage"
      BY <1>k, <2>1, MessagesMade DEF BlankPage
    <2> QED  BY <2>1, <2>2, LastPut
  <1>l. CASE EndJob
    <2>1. HasRoom /\ prod.pc \in {"end", "idle"} /\ prod'.pc = "join" /\ send' = send
      BY <1>l, <1>1, <1>2 DEF EndJob
    <2>2. PICK m \in Messages : Put(m) /\ m.id = "endJob"
      BY <1>l, MessagesMade DEF EndJob
    <2> QED  BY <2>1, <2>2, LastPut
  <1>m. CASE Join
    <2>1. prod.pc = "join" /\ prod'.pc = "gone" /\ send.pc = "ended" /\ send' = send
          /\ queue' = queue
      BY <1>m, <1>1 DEF Join
    <2> QED  BY <2>1 DEF EndIsLast
  <1>n. CASE StartsJob
    BY <1>n, TakeStep, LastTake DEF StartsJob
  <1>o. CASE StartsPage
    BY <1>o, TakeStep, LastTake DEF StartsPage
  <1>p. CASE BeginsSwath
    BY <1>p, LastTake DEF BeginsSwath
  <1>q. CASE EndsPage
    BY <1>q, TakeStep, LastTake DEF EndsPage
  <1>r. CASE EndsJob
    BY <1>r, LastTake DEF EndsJob
  <1>s. CASE EndsSwath
    <2>1. /\ send.pc = "swath" /\ send'.pc = "receive" /\ prod' = prod /\ queue' = queue
      BY <1>s, <1>1 DEF EndsSwath
    <2> QED  BY <2>1 DEF EndIsLast
  <1> QED  BY <1>a, <1>b, <1>c, <1>d, <1>e, <1>f, <1>g, <1>h, <1>i, <1>j, <1>k, <1>l, <1>m,
              <1>n, <1>o, <1>p, <1>q, <1>r, <1>s DEF Next, JobThread, SendThread

(* How many messages of a kind a message adds or takes away. *)
LEMMA PlacesPut ==
  ASSUME TypeOK, NEW x \in Messages, Put(x), HasRoom, NEW id
  PROVE  /\ Cardinality(Places(queue, 1, id)) \in Nat
         /\ Cardinality(Places(queue', 1, id)) =
              Cardinality(Places(queue, 1, id)) + (IF x.id = id THEN 1 ELSE 0)
  <1>1. queue' = Append(queue, x) /\ queue \in Seq(Messages) /\ 1 \in 1 .. Len(queue) + 1
    BY PutRoom
  <1> QED  BY <1>1, PlacesAppend, PlacesFinite

(* A message that is received counts no more. *)
LEMMA PlacesTake ==
  ASSUME TypeOK, NEW k, Take(k), NEW id
  PROVE  /\ Cardinality(Places(queue', 1, id)) \in Nat
         /\ Cardinality(Places(queue, 1, id)) =
              Cardinality(Places(queue', 1, id)) + (IF k = id THEN 1 ELSE 0)
  <1>1. /\ queue' = Tail(queue) /\ queue \in Seq(Messages) /\ queue # << >>
        /\ Head(queue).id = k /\ queue' \in Seq(Messages)
    BY DEF TypeOK, Take
  <1>2. 1 \in 1 .. Len(queue) /\ 1 + 1 = 2
    BY <1>1
  <1>3. Cardinality(Places(queue', 1, id)) = Cardinality(Places(queue, 2, id))
    BY <1>1, <1>2, PlacesTail
  <1>4. Cardinality(Places(queue', 1, id)) \in Nat
    BY <1>1, PlacesFinite
  <1> QED  BY <1>1, <1>3, <1>4, PlacesHead

(* The page the job thread is in, counted. *)
InPageCount == IF InPage THEN 1 ELSE 0

(* The account of the pages. *)
LEMMA CountIs ==
  ASSUME TypeOK
  PROVE  /\ EndsCounted <=> out.ended + Cardinality(Places(queue, 1, "endPage")) + InPageCount
                              = prod.page
         /\ Cardinality(Places(queue, 1, "endPage")) \in Nat
         /\ out.ended \in Nat /\ prod.page \in Nat
  <1>1. queue \in Seq(Messages) /\ out.ended \in Nat /\ prod.page \in Nat
    BY PagesSent DEF TypeOK
  <1> QED  BY <1>1, PlacesFinite DEF EndsCounted, InPageCount

(* Every step that is not refused keeps the count, if no page is given up. *)
LEMMA CountStep ==
  ASSUME ~Broken, TypeOK, TypeOK', Placed, NothingRefused, EndsCounted, Next
  PROVE  EndsCounted'
  <1>1. /\ prod \in [pc : {"idle", "loop", "fill", "put", "endPage", "end", "join", "gone"},
                 page : 0 .. MaxPages, left : Nat, row : Nat, index : Indexes,
                 blank : 0 .. MaxSendBuffs, late : BOOLEAN, failed : BOOLEAN,
                 frees : BOOLEAN, back : BOOLEAN]
        /\ out \in [page : 0 .. MaxPages, open : BOOLEAN, row : Nat, ended : Nat]
    BY DEF TypeOK
  <1>2. prod.pc \in {"idle", "put", "endPage", "end"} => HasRoom
    BY DEF NothingRefused
  <1> DEFINE EndsNow == Cardinality(Places(queue, 1, "endPage"))
             EndsNext == Cardinality(Places(queue', 1, "endPage"))
  <1>3. out.ended + EndsNow + InPageCount = prod.page
        /\ EndsNow \in Nat /\ out.ended \in Nat /\ prod.page \in Nat
    BY CountIs
  <1>4. /\ EndsNext \in Nat
        /\ out'.ended + EndsNext + InPageCount' = prod'.page => EndsCounted'
    <2>1. queue' \in Seq(Messages)
      BY DEF TypeOK
    <2>2. EndsNext \in Nat
      BY <2>1, PlacesFinite
    <2> QED  BY <2>2 DEF EndsCounted, InPageCount
  <1>5. queue' = queue => EndsNext = EndsNow
    OBVIOUS
  <1>6. \A x \in Messages : Put(x) /\ HasRoom => EndsNext = EndsNow + (IF x.id = "endPage" THEN 1 ELSE 0)
    BY PlacesPut
  <1>7. \A k : Take(k) => EndsNow = EndsNext + (IF k = "endPage" THEN 1 ELSE 0)
    BY PlacesTake
  <1> HIDE DEF EndsNow, EndsNext
  <1>a. CASE Cancel
    BY <1>a, <1>3, <1>4, <1>5 DEF Cancel, InPageCount, InPage
  <1>b. CASE \E n \in Stripes : BeginPage(n)
    <2> PICK n \in Stripes : BeginPage(n)
      BY <1>b
    <2>1. /\ prod.page + 1 \in Pages /\ Put(Msg("startPage", prod.page + 1)) /\ HasRoom
          /\ prod'.page = prod.page + 1 /\ out' = out
          /\ InPageCount = 0 /\ InPageCount' = 1
      BY <1>1, <1>2, Produced DEF BeginPage, NewPage, InPageCount, InPage
    <2>2. /\ Msg("startPage", prod.page + 1) \in Messages
          /\ Msg("startPage", prod.page + 1).id = "startPage"
      BY <2>1, MessagesMade
    <2>3. EndsNext = EndsNow
      BY <1>3, <1>6, <2>1, <2>2
    <2> QED  BY <1>3, <1>4, <2>1, <2>3
  <1>c. CASE \E n \in 0 .. (MaxSendBuffs - 1) : BreakPage(n)
    BY <1>c DEF BreakPage
  <1>d. CASE AbandonPage
    BY <1>d DEF AbandonPage
  <1>e. CASE WaitBuffer
    <2>1. queue' = queue /\ out' = out /\ prod'.page = prod.page /\ InPageCount' = InPageCount
      BY <1>e, <1>1 DEF WaitBuffer, InPageCount, InPage
    <2> QED  BY <1>3, <1>4, <1>5, <2>1
  <1>f. CASE Fill
    <2>1. queue' = queue /\ out' = out /\ prod'.page = prod.page /\ InPageCount' = InPageCount
      <3>1. /\ queue' = queue /\ out' = out /\ prod.pc = "fill"
            /\ \E b : prod' = [prod EXCEPT !.pc = "put", !.blank = b, !.late = cancelled]
        BY <1>f DEF Fill, Filled
      <3>2. prod'.page = prod.page /\ prod'.pc = "put"
        BY <1>1, <3>1
      <3> QED  BY <3>1, <3>2 DEF InPageCount, InPage
    <2> QED  BY <1>3, <1>4, <1>5, <2>1
  <1>g. CASE FillFails
    BY <1>g DEF FillFails
  <1>h. CASE SendStripe
    <2>1. /\ HasRoom /\ out' = out /\ prod'.page = prod.page /\ InPageCount' = InPageCount
      BY <1>h, <1>1, <1>2 DEF SendStripe, InPageCount, InPage
    <2>2. PICK m \in Messages : Put(m) /\ m.id = "send"
      BY <1>h, <1>1, StripeMade DEF SendStripe, Placed
    <2>3. EndsNext = EndsNow
      BY <1>3, <1>6, <2>1, <2>2
    <2> QED  BY <1>3, <1>4, <2>1, <2>3
  <1>i. CASE LoopEnds
    <2>1. queue' = queue /\ out' = out /\ prod'.page = prod.page /\ InPageCount' = InPageCount
      BY <1>i, <1>1 DEF LoopEnds, InPageCount, InPage
    <2> QED  BY <1>3, <1>4, <1>5, <2>1
  <1>j. CASE EndPage
    <2>1. /\ HasRoom /\ out' = out /\ prod'.page = prod.page
          /\ InPageCount = 1 /\ InPageCount' = 0
      BY <1>j, <1>1, <1>2 DEF EndPage, InPageCount, InPage
    <2>2. PICK m \in Messages : Put(m) /\ m.id = "endPage"
      BY <1>j, <1>1, MessagesMade DEF EndPage, Placed
    <2>3. EndsNext = EndsNow + 1
      BY <1>6, <2>1, <2>2
    <2> QED  BY <1>3, <1>4, <2>1, <2>3
  <1>k. CASE BlankPage
    <2>1. /\ HasRoom /\ prod.page + 1 \in Pages /\ out' = out /\ prod'.page = prod.page + 1
          /\ InPageCount = 0 /\ InPageCount' = 0
      BY <1>k, <1>1, <1>2, Produced DEF BlankPage, NewPage, InPageCount, InPage
    <2>2. PICK m \in Messages : Put(m) /\ m.id = "endPage"
      BY <1>k, <2>1, MessagesMade DEF BlankPage
    <2>3. EndsNext = EndsNow + 1
      BY <1>6, <2>1, <2>2
    <2> QED  BY <1>3, <1>4, <2>1, <2>3
  <1>l. CASE EndJob
    <2>1. /\ HasRoom /\ out' = out /\ prod'.page = prod.page
          /\ InPageCount = 0 /\ InPageCount' = 0
      BY <1>l, <1>1, <1>2 DEF EndJob, InPageCount, InPage
    <2>2. PICK m \in Messages : Put(m) /\ m.id = "endJob"
      BY <1>l, MessagesMade DEF EndJob
    <2>3. EndsNext = EndsNow
      BY <1>3, <1>6, <2>1, <2>2
    <2> QED  BY <1>3, <1>4, <2>1, <2>3
  <1>m. CASE Join
    <2>1. queue' = queue /\ out' = out /\ prod'.page = prod.page /\ InPageCount' = InPageCount
      BY <1>m, <1>1 DEF Join, InPageCount, InPage
    <2> QED  BY <1>3, <1>4, <1>5, <2>1
  <1>n. CASE StartsJob
    <2>1. /\ Take("startJob") /\ out' = out /\ prod' = prod /\ InPageCount' = InPageCount
      BY <1>n DEF StartsJob, InPageCount, InPage
    <2>2. EndsNext = EndsNow
      BY <1>4, <1>7, <2>1
    <2> QED  BY <1>3, <1>4, <2>1, <2>2
  <1>o. CASE StartsPage
    <2>1. /\ Take("startPage") /\ out'.ended = out.ended /\ prod' = prod
          /\ InPageCount' = InPageCount
      BY <1>o, <1>1 DEF StartsPage, InPageCount, InPage
    <2>2. EndsNext = EndsNow
      BY <1>4, <1>7, <2>1
    <2> QED  BY <1>3, <1>4, <2>1, <2>2
  <1>p. CASE BeginsSwath
    <2>1. /\ Take("send") /\ out' = out /\ prod' = prod /\ InPageCount' = InPageCount
      BY <1>p DEF BeginsSwath, InPageCount, InPage
    <2>2. EndsNext = EndsNow
      BY <1>4, <1>7, <2>1
    <2> QED  BY <1>3, <1>4, <2>1, <2>2
  <1>q. CASE EndsPage
    <2>1. /\ Take("endPage") /\ out'.ended = out.ended + 1 /\ prod' = prod
          /\ InPageCount' = InPageCount
      BY <1>q, <1>1 DEF EndsPage, InPageCount, InPage
    <2>2. EndsNow = EndsNext + 1
      BY <1>7, <2>1
    <2> QED  BY <1>3, <1>4, <2>1, <2>2
  <1>r. CASE EndsJob
    <2>1. /\ Take("endJob") /\ out' = out /\ prod' = prod /\ InPageCount' = InPageCount
      BY <1>r DEF EndsJob, InPageCount, InPage
    <2>2. EndsNext = EndsNow
      BY <1>4, <1>7, <2>1
    <2> QED  BY <1>3, <1>4, <2>1, <2>2
  <1>s. CASE EndsSwath
    <2>1. queue' = queue /\ out'.ended = out.ended /\ prod' = prod /\ InPageCount' = InPageCount
      BY <1>s, <1>1 DEF EndsSwath, InPageCount, InPage
    <2> QED  BY <1>3, <1>4, <1>5, <2>1
  <1> QED  BY <1>a, <1>b, <1>c, <1>d, <1>e, <1>f, <1>g, <1>h, <1>i, <1>j, <1>k, <1>l, <1>m,
              <1>n, <1>o, <1>p, <1>q, <1>r, <1>s DEF Next, JobThread, SendThread

(* Nothing has been called when the job starts. *)
LEMMA InitCalls == Init => CallInv
  <1> SUFFICES ASSUME Init PROVE CallInv
    OBVIOUS
  <1>1. Inv
    BY InitInv
  <1>2. /\ queue = <<Msg("startJob", 0)>> /\ queue \in Seq(Messages) /\ Len(queue) = 1
        /\ queue[1].id = "startJob" /\ prod.pc = "idle" /\ prod.page = 0
        /\ send.pc = "receive" /\ ~out.open /\ out.ended = 0
    BY MessagesMade DEF Init
  <1>3. RowsInOrder
    BY <1>2 DEF RowsInOrder, Sends, InLoop, SwathsInOrder
  <1>4. PagesClose
    BY <1>2 DEF PagesClose
  <1>5. EndIsLast
    BY <1>2 DEF EndIsLast
  <1>6. EndsCounted
    <2>1. Places(queue, 1, "endPage") = {}
      BY <1>2 DEF Places
    <2> QED  BY <1>2, <2>1, FS_EmptySet DEF EndsCounted, InPage
  <1> QED  BY <1>1, <1>3, <1>4, <1>5, <1>6 DEF CallInv

(* The invariant of the calls is inductive while no message is refused. *)
LEMMA NextCalls ==
  ASSUME ~Broken
  PROVE  CallInv /\ NothingRefused /\ [Next]_vars => CallInv'
  <1> SUFFICES ASSUME CallInv, NothingRefused, [Next]_vars PROVE CallInv'
    OBVIOUS
  <1>1. Inv /\ Inv'
    BY NextInv DEF CallInv
  <1>2. CASE Next
    <2>1. TypeOK /\ TypeOK' /\ Placed
      BY <1>1 DEF Inv
    <2>2. RowsInOrder'
      BY <1>2, <2>1, RowsStep DEF CallInv
    <2>3. PagesClose'
      BY <1>2, <2>1, CloseStep DEF CallInv
    <2>4. EndIsLast'
      BY <1>2, <2>1, LastStep DEF CallInv
    <2>5. EndsCounted'
      BY <1>2, <2>1, CountStep DEF CallInv
    <2> QED  BY <1>1, <2>2, <2>3, <2>4, <2>5 DEF CallInv
  <1>3. CASE UNCHANGED vars
    <2>1. RowsInOrder'
      BY <1>3, RowsSame DEF vars, InLoop, CallInv
    <2>2. PagesClose'
      BY <1>3, CloseSame DEF vars, InPage, CallInv
    <2>3. EndIsLast'
      BY <1>3 DEF vars, CallInv, EndIsLast
    <2>4. EndsCounted'
      BY <1>3 DEF vars, CallInv, EndsCounted, InPage
    <2> QED  BY <1>1, <2>1, <2>2, <2>3, <2>4 DEF CallInv
  <1> QED  BY <1>2, <1>3

(* At the end of the job nothing is left in the queue to be counted. *)
LEMMA CallsFollow == CallInv => CallsInOrder
  <1> SUFFICES ASSUME CallInv PROVE CallsInOrder
    OBVIOUS
  <1>1. SwathsInOrder
    BY DEF CallInv, RowsInOrder
  <1>2. ASSUME prod.pc = "gone" PROVE out.ended = prod.page /\ ~out.open
    <2>1. queue = << >> /\ ~InPage
      BY <1>2 DEF CallInv, EndIsLast, InPage
    <2>2. Places(queue, 1, "endPage") = {} /\ 1 .. Len(queue) = {}
      BY <2>1 DEF Places
    <2>3. ~out.open
      BY <2>1, <2>2 DEF CallInv, PagesClose
    <2>4. out.ended \in Nat /\ prod.page \in Nat
      BY CountIs DEF CallInv, Inv
    <2>5. out.ended + Cardinality({}) + 0 = prod.page
      BY <2>1, <2>2 DEF CallInv, EndsCounted
    <2> QED  BY <2>3, <2>4, <2>5, FS_EmptySet
  <1> QED  BY <1>1, <1>2 DEF CallsInOrder, EveryPageEnds

(* The generator is called in its protocol and every page is ended, in a
   job of whole files of which no message is refused. *)
THEOREM CallsKeepOrder ==
  ASSUME ~Broken
  PROVE  Spec /\ []NothingRefused => []CallsInOrder
  BY InitCalls, NextCalls, CallsFollow, PTL DEF Spec

(***************************************************************************)
(* When no message is refused.  A stripe on its way holds a permit, the    *)
(* other messages hold none: between the stripes of a page and those of    *)
(* the next there are at most three, the end of the page, a blank page and *)
(* the start of the next.  If two pages have more stripes than there are   *)
(* buffers, no two such gaps are in the queue with a whole page on either  *)
(* side, and a queue of six messages more than there are buffers is never  *)
(* full: in the code, with 8 buffers and a queue of 16, for pages of five  *)
(* stripes or more, as many as there are.                                  *)
(***************************************************************************)
LongPages == \A n \in Stripes : 2 * n > MaxSendBuffs
RoomyQueue == MaxSendBuffs + 5 < QueueSize

(* The stripes from place i of a queue on, and the other messages there. *)
Since(q, i)  == Cardinality(Places(q, i, "send"))
Others(q, i) == Len(q) - i + 1 - Since(q, i)

(* How many messages the job thread has queued since the last stripe. *)
Gap == IF prod.page = 0 \/ prod.back THEN 1 ELSE 2

(* A page that is left has as many rows as it was to have. *)
PagesAreLong ==
  /\ InLoop => 2 * (prod.row + prod.left) > MaxSendBuffs /\ ~prod.failed
  /\ prod.pc = "endPage" => 2 * prod.row > MaxSendBuffs

(* From any place of the queue on: only the last gap, or more than half
   the buffers before it and one gap more. *)
Spaced ==
  \A i \in 1 .. Len(queue) + 1 :
    /\ prod.pc \in {"idle", "end"} =>
         \/ Others(queue, i) <= Gap
         \/ 2 * Since(queue, i) > MaxSendBuffs /\ Others(queue, i) <= Gap + 3
    /\ InPage =>
         \/ Others(queue, i) = 0
         \/ Others(queue, i) <= 3 /\ Since(queue, i) >= prod.row
         \/ Others(queue, i) <= 6 /\ 2 * (Since(queue, i) - prod.row) > MaxSendBuffs

RoomInv == Inv /\ PagesAreLong /\ Spaced

(* The counts are numbers, and no more stripes than buffers are queued. *)
LEMMA SpaceBounds ==
  ASSUME TypeOK, PermitsKept, NEW i \in 1 .. Len(queue) + 1
  PROVE  /\ Since(queue, i) \in Nat /\ Others(queue, i) \in Int
         /\ Since(queue, i) <= MaxSendBuffs
         /\ prod.pc = "put" => Since(queue, i) < MaxSendBuffs
         /\ Len(queue) \in Nat /\ MaxSendBuffs \in Nat
         /\ i = Len(queue) + 1 => Since(queue, i) = 0 /\ Others(queue, i) = 0
         /\ Len(queue) = Others(queue, 1) + Since(queue, 1)
  <1>1. queue \in Seq(Messages) /\ Len(queue) \in Nat /\ i \in Nat /\ i > 0
    BY DEF TypeOK
  <1>2. Since(queue, i) \in Nat /\ Since(queue, 1) \in Nat /\ Cardinality(Sends(queue)) \in Nat
    BY <1>1, PlacesFinite, SendsFinite DEF Since
  <1>3. Since(queue, i) <= Cardinality(Sends(queue))
    <2>1. Places(queue, i, "send") \subseteq Sends(queue)
      BY <1>1 DEF Places, Sends
    <2> QED  BY <1>1, <2>1, SendsFinite, FS_Subset DEF Since
  <1>4. /\ permits \in Nat /\ MaxSendBuffs \in Nat
        /\ permits + WithJobThread + Cardinality(Sends(queue)) + WithSendThread = MaxSendBuffs
        /\ WithJobThread \in {0, 1} /\ WithSendThread \in {0, 1}
        /\ prod.pc = "put" => WithJobThread = 1
    BY Counts, Account DEF WithJobThread, WithSendThread
  <1>5. Cardinality(Sends(queue)) <= MaxSendBuffs
        /\ (prod.pc = "put" => Cardinality(Sends(queue)) < MaxSendBuffs)
    BY <1>2, <1>4
  <1>6. ASSUME i = Len(queue) + 1 PROVE Since(queue, i) = 0 /\ Others(queue, i) = 0
    <2>1. Places(queue, i, "send") = {}
      BY <1>1, <1>6 DEF Places
    <2>2. Since(queue, i) = 0
      BY <2>1, FS_EmptySet DEF Since
    <2> QED  BY <1>1, <1>6, <2>2 DEF Others
  <1>7. Others(queue, i) \in Int /\ Len(queue) = Others(queue, 1) + Since(queue, 1)
    BY <1>1, <1>2 DEF Others
  <1> QED  BY <1>1, <1>2, <1>3, <1>4, <1>5, <1>6, <1>7

(* A message that is put into the queue counts from every place on. *)
LEMMA SpacePut ==
  ASSUME TypeOK, NEW x \in Messages, Put(x), HasRoom, NEW i \in 1 .. Len(queue) + 1
  PROVE  /\ x.id = "send" => /\ Since(queue', i) = Since(queue, i) + 1
                             /\ Others(queue', i) = Others(queue, i)
         /\ x.id # "send" => /\ Since(queue', i) = Since(queue, i)
                             /\ Others(queue', i) = Others(queue, i) + 1
  <1>1. /\ queue' = Append(queue, x) /\ queue \in Seq(Messages)
        /\ Len(queue) \in Nat /\ Len(queue') = Len(queue) + 1 /\ i \in Nat
    BY PutRoom
  <1>2. Since(queue, i) \in Nat
    BY <1>1, PlacesFinite DEF Since
  <1>3. Since(queue', i) = Since(queue, i) + (IF x.id = "send" THEN 1 ELSE 0)
    BY <1>1, PlacesAppend DEF Since
  <1>4. CASE x.id = "send"
    <2>1. Since(queue', i) = Since(queue, i) + 1
      BY <1>3, <1>4
    <2> QED  BY <1>1, <1>2, <1>4, <2>1 DEF Others
  <1>5. CASE x.id # "send"
    <2>1. Since(queue', i) = Since(queue, i)
      BY <1>2, <1>3, <1>5
    <2> QED  BY <1>1, <1>2, <1>5, <2>1 DEF Others
  <1> QED  BY <1>4, <1>5

(* When one is received the counts move up. *)
LEMMA SpaceTake ==
  ASSUME TypeOK, NEW id, Take(id), NEW i \in 1 .. Len(queue') + 1
  PROVE  /\ i + 1 \in 1 .. Len(queue) + 1
         /\ Since(queue', i) = Since(queue, i + 1)
         /\ Others(queue', i) = Others(queue, i + 1)
  <1>1. /\ queue' = Tail(queue) /\ queue \in Seq(Messages) /\ queue # << >>
        /\ Len(queue) \in Nat \ {0} /\ Len(queue') = Len(queue) - 1
    BY TakeStep DEF TypeOK, Take
  <1>2. i \in 1 .. Len(queue) /\ i + 1 \in 1 .. Len(queue) + 1 /\ i + 1 \in Nat
    BY <1>1
  <1>3. Since(queue', i) = Since(queue, i + 1)
    BY <1>1, <1>2, PlacesTail DEF Since
  <1>4. Since(queue, i + 1) \in Nat
    BY <1>1, <1>2, PlacesFinite DEF Since
  <1> QED  BY <1>1, <1>2, <1>3, <1>4 DEF Others

(* There is room for whatever the job thread is about to queue. *)
LEMMA RoomFollows ==
  ASSUME RoomyQueue
  PROVE  RoomInv => NothingRefused
  <1> SUFFICES ASSUME RoomInv, prod.pc \in {"idle", "put", "endPage", "end"}
               PROVE  Len(queue) < QueueSize
    BY DEF NothingRefused, HasRoom
  <1>1. 1 \in 1 .. Len(queue) + 1
    BY Counts DEF RoomInv, Inv
  <1>2. /\ Since(queue, 1) \in Nat /\ Others(queue, 1) \in Int
        /\ Since(queue, 1) <= MaxSendBuffs
        /\ prod.pc = "put" => Since(queue, 1) < MaxSendBuffs
        /\ MaxSendBuffs \in Nat /\ QueueSize \in Nat
        /\ Len(queue) = Others(queue, 1) + Since(queue, 1)
    BY <1>1, SpaceBounds, PclAssumption DEF RoomInv, Inv
  <1>3. Gap \in {1, 2}
    BY DEF Gap
  <1>4. prod.row \in Nat
    BY DEF RoomInv, Inv, TypeOK
  <1>5. CASE prod.pc \in {"idle", "end"}
    <2>1. Others(queue, 1) <= Gap \/ Others(queue, 1) <= Gap + 3
      BY <1>1, <1>5 DEF RoomInv, Spaced
    <2>2. Others(queue, 1) <= 5
      BY <1>2, <1>3, <2>1
    <2> QED  BY <1>2, <2>2 DEF RoomyQueue
  <1>6. CASE prod.pc \in {"put", "endPage"}
    <2>1. \/ Others(queue, 1) = 0
          \/ Others(queue, 1) <= 3 /\ Since(queue, 1) >= prod.row
          \/ Others(queue, 1) <= 6 /\ 2 * (Since(queue, 1) - prod.row) > MaxSendBuffs
      BY <1>1, <1>6 DEF RoomInv, Spaced, InPage
    <2>2. prod.pc = "endPage" => 2 * prod.row > MaxSendBuffs
      BY DEF RoomInv, PagesAreLong
    <2>3. CASE prod.pc = "put"
      <3>1. Others(queue, 1) <= 6
        BY <1>2, <2>1
      <3> QED  BY <1>2, <2>3, <3>1 DEF RoomyQueue
    <2>4. CASE prod.pc = "endPage"
      <3>1. ~(2 * (Since(queue, 1) - prod.row) > MaxSendBuffs)
        BY <1>2, <1>4, <2>2, <2>4
      <3>2. Others(queue, 1) <= 3
        BY <1>2, <2>1, <3>1
      <3> QED  BY <1>2, <3>2 DEF RoomyQueue
    <2> QED  BY <1>6, <2>3, <2>4
  <1> QED  BY <1>5, <1>6

(* The gaps while nothing is queued or received. *)
LEMMA SpacedSame ==
  ASSUME Spaced, queue' = queue,
         prod'.pc \in {"idle", "end"} => prod.pc \in {"idle", "end"} /\ Gap' = Gap,
         InPage' => InPage /\ prod'.row = prod.row
  PROVE  Spaced'
  BY DEF Spaced, Since, Others, Places

(* While one is received. *)
LEMMA SpacedTake ==
  ASSUME TypeOK, Spaced, NEW id, Take(id), prod' = prod
  PROVE  Spaced'
  <1>1. InPage' = InPage /\ Gap' = Gap
    BY DEF InPage, Gap
  <1>2. ASSUME NEW i \in 1 .. Len(queue') + 1
        PROVE  /\ prod'.pc \in {"idle", "end"} =>
                  \/ Others(queue', i) <= Gap'
                  \/ 2 * Since(queue', i) > MaxSendBuffs /\ Others(queue', i) <= Gap' + 3
               /\ InPage' =>
                  \/ Others(queue', i) = 0
                  \/ Others(queue', i) <= 3 /\ Since(queue', i) >= prod'.row
                  \/ Others(queue', i) <= 6 /\ 2 * (Since(queue', i) - prod'.row) > MaxSendBuffs
    <2>1. /\ i + 1 \in 1 .. Len(queue) + 1
          /\ Since(queue', i) = Since(queue, i + 1)
          /\ Others(queue', i) = Others(queue, i + 1)
      BY SpaceTake
    <2> QED  BY <1>1, <2>1 DEF Spaced
  <1> QED  BY <1>2 DEF Spaced

(* While one is queued: from the place behind it on there is nothing. *)
LEMMA SpacedPut ==
  ASSUME TypeOK, PermitsKept, TypeOK', PermitsKept', NEW x \in Messages, Put(x), HasRoom,
         \A i \in 1 .. Len(queue) + 1 :
           /\ prod'.pc \in {"idle", "end"} =>
                \/ Others(queue', i) <= Gap'
                \/ 2 * Since(queue', i) > MaxSendBuffs /\ Others(queue', i) <= Gap' + 3
           /\ InPage' =>
                \/ Others(queue', i) = 0
                \/ Others(queue', i) <= 3 /\ Since(queue', i) >= prod'.row
                \/ Others(queue', i) <= 6 /\ 2 * (Since(queue', i) - prod'.row) > MaxSendBuffs
  PROVE  Spaced'
  <1>1. Len(queue) \in Nat /\ Len(queue') = Len(queue) + 1 /\ queue' \in Seq(Messages)
    BY PutRoom DEF TypeOK
  <1>2. \A i \in 1 .. Len(queue') + 1 : i \in 1 .. Len(queue) + 1 \/ i = Len(queue') + 1
    BY <1>1
  <1>3. Since(queue', Len(queue') + 1) = 0 /\ Others(queue', Len(queue') + 1) = 0
    <2>1. Places(queue', Len(queue') + 1, "send") = {}
      BY <1>1 DEF Places
    <2>2. Since(queue', Len(queue') + 1) = 0
      BY <2>1, FS_EmptySet DEF Since
    <2> QED  BY <1>1, <2>2 DEF Others
  <1>4. Gap' \in {1, 2}
    BY DEF Gap
  <1> QED  BY <1>2, <1>3, <1>4 DEF Spaced

(* Every step keeps PagesAreLong, if no page fails. *)
LEMMA LongStep ==
  ASSUME ~Broken, LongPages, TypeOK, Placed, NothingRefused, PagesAreLong, Next
  PROVE  PagesAreLong'
  <1>1. prod \in [pc : {"idle", "loop", "fill", "put", "endPage", "end", "join", "gone"},
                 page : 0 .. MaxPages, left : Nat, row : Nat, index : Indexes,
                 blank : 0 .. MaxSendBuffs, late : BOOLEAN, failed : BOOLEAN,
                 frees : BOOLEAN, back : BOOLEAN]
    BY DEF TypeOK
  <1>2. prod.pc \in {"idle", "put", "endPage", "end"} => HasRoom
    BY DEF NothingRefused
  <1>3. ASSUME prod' = prod PROVE PagesAreLong'
    BY <1>3 DEF PagesAreLong, InLoop
  <1>a. CASE Cancel
    BY <1>a, <1>3 DEF Cancel
  <1>b. CASE \E n \in Stripes : BeginPage(n)
    <2> PICK n \in Stripes : BeginPage(n)
      BY <1>b
    <2>1. n \in Nat /\ 2 * n > MaxSendBuffs
      BY PclAssumption DEF LongPages
    <2>2. prod'.pc = "loop" /\ prod'.row = 0 /\ prod'.left = n /\ prod'.failed = FALSE
      BY <1>1 DEF BeginPage
    <2>3. prod'.row + prod'.left = n
      BY <2>1, <2>2
    <2> QED  BY <2>1, <2>2, <2>3 DEF PagesAreLong, InLoop
  <1>c. CASE \E n \in 0 .. (MaxSendBuffs - 1) : BreakPage(n)
    BY <1>c DEF BreakPage
  <1>d. CASE AbandonPage
    BY <1>d DEF AbandonPage
  <1>e. CASE WaitBuffer
    BY <1>e, <1>1 DEF WaitBuffer, PagesAreLong, InLoop
  <1>f. CASE Fill
    <2>1. /\ prod.pc = "fill" /\ prod'.pc = "put" /\ prod'.row = prod.row
          /\ prod'.left = prod.left /\ prod'.failed = prod.failed
      BY <1>f, <1>1 DEF Fill, Filled
    <2> QED  BY <2>1 DEF PagesAreLong, InLoop
  <1>g. CASE FillFails
    BY <1>g DEF FillFails
  <1>h. CASE SendStripe
    <2>1. /\ prod.pc = "put" /\ prod'.pc = "loop" /\ prod'.row = prod.row + 1
          /\ prod'.left = prod.left - 1 /\ prod'.failed = FALSE
      BY <1>h, <1>1, <1>2 DEF SendStripe
    <2>2. prod'.row + prod'.left = prod.row + prod.left
      BY <1>1, <2>1
    <2> QED  BY <2>1, <2>2 DEF PagesAreLong, InLoop
  <1>i. CASE LoopEnds
    <2>1. /\ prod.pc = "loop" /\ prod'.pc = "endPage" /\ prod'.row = prod.row
          /\ ~(prod.left > 0 /\ ~prod.failed)
      BY <1>i, <1>1 DEF LoopEnds, MoreStripes
    <2>2. 2 * (prod.row + prod.left) > MaxSendBuffs /\ ~prod.failed
      BY <2>1 DEF PagesAreLong, InLoop
    <2>3. prod.row + prod.left = prod.row
      BY <1>1, <2>1, <2>2
    <2> QED  BY <2>1, <2>2, <2>3 DEF PagesAreLong, InLoop
  <1>j. CASE EndPage
    BY <1>j, <1>1 DEF EndPage, PagesAreLong, InLoop
  <1>k. CASE BlankPage
    BY <1>k, <1>1 DEF BlankPage, NewPage, PagesAreLong, InLoop
  <1>l. CASE EndJob
    BY <1>l, <1>1 DEF EndJob, PagesAreLong, InLoop
  <1>m. CASE Join
    BY <1>m, <1>1 DEF Join, PagesAreLong, InLoop
  <1>n. CASE SendThread
    BY <1>n, <1>3 DEF SendThread, StartsJob, StartsPage, BeginsSwath, EndsSwath, EndsPage, EndsJob
  <1> QED  BY <1>a, <1>b, <1>c, <1>d, <1>e, <1>f, <1>g, <1>h, <1>i, <1>j, <1>k, <1>l, <1>m,
              <1>n DEF Next, JobThread

(* Every step keeps Spaced, if no page fails. *)
LEMMA SpacedStep ==
  ASSUME ~Broken, Inv, Inv', NothingRefused, PagesAreLong, Spaced, Next
  PROVE  Spaced'
  <1>1. /\ prod \in [pc : {"idle", "loop", "fill", "put", "endPage", "end", "join", "gone"},
                 page : 0 .. MaxPages, left : Nat, row : Nat, index : Indexes,
                 blank : 0 .. MaxSendBuffs, late : BOOLEAN, failed : BOOLEAN,
                 frees : BOOLEAN, back : BOOLEAN]
        /\ TypeOK /\ Placed /\ PermitsKept /\ TypeOK' /\ PermitsKept'
    BY DEF Inv, TypeOK
  <1>2. prod.pc \in {"idle", "put", "endPage", "end"} => HasRoom
    BY DEF NothingRefused
  <1>3. \A i \in 1 .. Len(queue) + 1 :
          /\ Since(queue, i) \in Nat /\ Others(queue, i) \in Int
          /\ Since(queue, i) <= MaxSendBuffs /\ MaxSendBuffs \in Nat
    BY <1>1, SpaceBounds
  <1>4. Gap \in {1, 2} /\ Gap' \in {1, 2}
    BY DEF Gap
  <1>a. CASE Cancel
    BY <1>a, SpacedSame DEF Cancel, InPage, Gap
  <1>b. CASE \E n \in Stripes : BeginPage(n)
    <2> PICK n \in Stripes : BeginPage(n)
      BY <1>b
    <2>1. /\ prod.pc = "idle" /\ prod.page + 1 \in Pages
          /\ Put(Msg("startPage", prod.page + 1)) /\ HasRoom
          /\ prod'.pc = "loop" /\ prod'.row = 0
      BY <1>1, <1>2, Produced DEF BeginPage, NewPage
    <2>2. PICK x \in Messages : Put(x) /\ x.id = "startPage"
      BY <2>1, MessagesMade
    <2>3. ASSUME NEW i \in 1 .. Len(queue) + 1
          PROVE  \/ Others(queue', i) <= 3 /\ Since(queue', i) >= prod'.row
                 \/ Others(queue', i) <= 6 /\ 2 * (Since(queue', i) - prod'.row) > MaxSendBuffs
      <3>1. Since(queue', i) = Since(queue, i) /\ Others(queue', i) = Others(queue, i) + 1
        BY <1>1, <2>1, <2>2, SpacePut
      <3>2. \/ Others(queue, i) <= Gap
            \/ 2 * Since(queue, i) > MaxSendBuffs /\ Others(queue, i) <= Gap + 3
        BY <2>1 DEF Spaced
      <3> QED  BY <1>3, <1>4, <2>1, <3>1, <3>2
    <2> QED  BY <1>1, <2>1, <2>2, <2>3, SpacedPut
  <1>c. CASE \E n \in 0 .. (MaxSendBuffs - 1) : BreakPage(n)
    BY <1>c DEF BreakPage
  <1>d. CASE AbandonPage
    BY <1>d DEF AbandonPage
  <1>e. CASE WaitBuffer
    BY <1>e, <1>1, SpacedSame DEF WaitBuffer, InPage
  <1>f. CASE Fill
    <2>1. /\ prod.pc = "fill" /\ prod'.pc = "put" /\ prod'.row = prod.row /\ queue' = queue
      BY <1>f, <1>1 DEF Fill, Filled
    <2> QED  BY <2>1, SpacedSame DEF InPage
  <1>g. CASE FillFails
    BY <1>g DEF FillFails
  <1>h. CASE SendStripe
    <2>1. HasRoom /\ prod.pc = "put" /\ prod'.pc = "loop" /\ prod'.row = prod.row + 1
      BY <1>h, <1>1, <1>2 DEF SendStripe
    <2>2. PICK x \in Messages : Put(x) /\ x.id = "send"
      BY <1>h, <1>1, StripeMade DEF SendStripe, Placed
    <2>3. ASSUME NEW i \in 1 .. Len(queue) + 1
          PROVE  \/ Others(queue', i) = 0
                 \/ Others(queue', i) <= 3 /\ Since(queue', i) >= prod'.row
                 \/ Others(queue', i) <= 6 /\ 2 * (Since(queue', i) - prod'.row) > MaxSendBuffs
      <3>1. Since(queue', i) = Since(queue, i) + 1 /\ Others(queue', i) = Others(queue, i)
        BY <1>1, <2>1, <2>2, SpacePut
      <3>2. \/ Others(queue, i) = 0
            \/ Others(queue, i) <= 3 /\ Since(queue, i) >= prod.row
            \/ Others(queue, i) <= 6 /\ 2 * (Since(queue, i) - prod.row) > MaxSendBuffs
        BY <2>1 DEF Spaced, InPage
      <3>3. prod.row \in Nat
        BY <1>1
      <3>4. Since(queue, i) \in Nat /\ MaxSendBuffs \in Nat
        BY <1>3
      <3>5. CASE Others(queue, i) = 0
        BY <3>1, <3>5
      <3>6. CASE Others(queue, i) <= 3 /\ Since(queue, i) >= prod.row
        BY <2>1, <3>1, <3>3, <3>4, <3>6
      <3>7. CASE Others(queue, i) <= 6 /\ 2 * (Since(queue, i) - prod.row) > MaxSendBuffs
        <4>1. Since(queue', i) - prod'.row = Since(queue, i) - prod.row
          BY <2>1, <3>1, <3>3, <3>4
        <4> QED  BY <3>1, <3>7, <4>1
      <3> QED  BY <3>2, <3>5, <3>6, <3>7
    <2> QED  BY <1>1, <2>1, <2>2, <2>3, SpacedPut
  <1>i. CASE LoopEnds
    BY <1>i, <1>1, SpacedSame DEF LoopEnds, InPage
  <1>j. CASE EndPage
    <2>1. HasRoom /\ prod.pc = "endPage" /\ prod'.pc = "idle" /\ prod'.back = TRUE
      BY <1>j, <1>1, <1>2 DEF EndPage
    <2>2. PICK x \in Messages : Put(x) /\ x.id = "endPage"
      BY <1>j, <1>1, MessagesMade DEF EndPage, Placed
    <2>3. Gap' = 1 /\ 2 * prod.row > MaxSendBuffs /\ prod.row \in Nat
      BY <1>1, <2>1 DEF Gap, PagesAreLong
    <2>4. ASSUME NEW i \in 1 .. Len(queue) + 1
          PROVE  \/ Others(queue', i) <= Gap'
                 \/ 2 * Since(queue', i) > MaxSendBuffs /\ Others(queue', i) <= Gap' + 3
      <3>1. Since(queue', i) = Since(queue, i) /\ Others(queue', i) = Others(queue, i) + 1
        BY <1>1, <2>1, <2>2, SpacePut
      <3>2. \/ Others(queue, i) = 0
            \/ Others(queue, i) <= 3 /\ Since(queue, i) >= prod.row
            \/ Others(queue, i) <= 6 /\ 2 * (Since(queue, i) - prod.row) > MaxSendBuffs
        BY <2>1 DEF Spaced, InPage
      <3>3. /\ Since(queue, i) \in Nat /\ Others(queue, i) \in Int /\ MaxSendBuffs \in Nat
            /\ 2 * prod.row > MaxSendBuffs /\ prod.row \in Nat /\ Gap' = 1
        BY <1>3, <2>3
      <3>4. CASE Others(queue, i) = 0
        BY <3>1, <3>3, <3>4
      <3>5. CASE Others(queue, i) <= 3 /\ Since(queue, i) >= prod.row
        <4>1. 2 * Since(queue, i) > MaxSendBuffs
          BY <3>3, <3>5
        <4> QED  BY <3>1, <3>3, <3>5, <4>1
      <3>6. CASE Others(queue, i) <= 6 /\ 2 * (Since(queue, i) - prod.row) > MaxSendBuffs
        <4>1. FALSE
          BY <1>3, <2>3, <3>3, <3>6
        <4> QED  BY <4>1
      <3> QED  BY <3>2, <3>4, <3>5, <3>6
    <2> QED  BY <1>1, <2>1, <2>2, <2>4, SpacedPut DEF InPage
  <1>k. CASE BlankPage
    <2>1. /\ HasRoom /\ prod.page + 1 \in Pages /\ prod'.page = prod.page + 1
          /\ prod.pc = "idle" /\ prod'.pc \in {"end", "idle"} /\ prod'.back = FALSE
          /\ prod.page > 0 => prod.back
      BY <1>k, <1>1, <1>2, Produced DEF BlankPage, NewPage
    <2>2. PICK x \in Messages : Put(x) /\ x.id = "endPage"
      BY <1>k, <2>1, MessagesMade DEF BlankPage
    <2>3. Gap = 1 /\ Gap' = 2
      <3>1. prod.page \in Nat /\ prod.page + 1 # 0
        BY <1>1
      <3>2. prod.page = 0 \/ prod.back
        BY <2>1, <3>1
      <3> QED  BY <2>1, <3>1, <3>2 DEF Gap
    <2>4. ASSUME NEW i \in 1 .. Len(queue) + 1
          PROVE  \/ Others(queue', i) <= Gap'
                 \/ 2 * Since(queue', i) > MaxSendBuffs /\ Others(queue', i) <= Gap' + 3
      <3>1. Since(queue', i) = Since(queue, i) /\ Others(queue', i) = Others(queue, i) + 1
        BY <1>1, <2>1, <2>2, SpacePut
      <3>2. \/ Others(queue, i) <= Gap
            \/ 2 * Since(queue, i) > MaxSendBuffs /\ Others(queue, i) <= Gap + 3
        BY <2>1 DEF Spaced
      <3> QED  BY <1>3, <2>3, <3>1, <3>2
    <2>5. ~InPage'
      BY <2>1 DEF InPage
    <2> QED  BY <1>1, <2>1, <2>2, <2>4, <2>5, SpacedPut
  <1>l. CASE EndJob
    BY <1>l, <1>1 DEF EndJob, Spaced, InPage
  <1>m. CASE Join
    BY <1>m, <1>1 DEF Join, Spaced, InPage
  <1>n. CASE StartsJob
    BY <1>n, <1>1, SpacedTake DEF StartsJob
  <1>o. CASE StartsPage
    BY <1>o, <1>1, SpacedTake DEF StartsPage
  <1>p. CASE BeginsSwath
    BY <1>p, <1>1, SpacedTake DEF BeginsSwath
  <1>q. CASE EndsPage
    BY <1>q, <1>1, SpacedTake DEF EndsPage
  <1>r. CASE EndsJob
    BY <1>r, <1>1, SpacedTake DEF EndsJob
  <1>s. CASE EndsSwath
    BY <1>s, SpacedSame DEF EndsSwath, InPage, Gap
  <1> QED  BY <1>a, <1>b, <1>c, <1>d, <1>e, <1>f, <1>g, <1>h, <1>i, <1>j, <1>k, <1>l, <1>m,
              <1>n, <1>o, <1>p, <1>q, <1>r, <1>s DEF Next, JobThread, SendThread

(* There is one message when the job starts. *)
LEMMA InitRoom == Init => RoomInv
  <1> SUFFICES ASSUME Init PROVE RoomInv
    OBVIOUS
  <1>1. Inv
    BY InitInv
  <1>2. /\ queue \in Seq(Messages) /\ Len(queue) = 1 /\ prod.pc = "idle" /\ Gap = 1
        /\ TypeOK /\ PermitsKept
    BY <1>1, MessagesMade DEF Init, Gap, Inv
  <1>3. ASSUME NEW i \in 1 .. Len(queue) + 1 PROVE Others(queue, i) <= 1
    <2>1. Since(queue, i) \in Nat
      BY <1>2, SpaceBounds
    <2> QED  BY <1>2, <2>1 DEF Others
  <1> QED  BY <1>1, <1>2, <1>3 DEF RoomInv, PagesAreLong, Spaced, InLoop, InPage

(* The invariant of the room in the queue is inductive. *)
LEMMA NextRoom ==
  ASSUME ~Broken, LongPages, RoomyQueue
  PROVE  RoomInv /\ [Next]_vars => RoomInv'
  <1> SUFFICES ASSUME RoomInv, [Next]_vars PROVE RoomInv'
    OBVIOUS
  <1>1. Inv /\ Inv' /\ NothingRefused
    BY NextInv, RoomFollows DEF RoomInv
  <1>2. CASE Next
    <2>1. PagesAreLong'
      BY <1>1, <1>2, LongStep DEF RoomInv, Inv
    <2>2. Spaced'
      BY <1>1, <1>2, SpacedStep DEF RoomInv
    <2> QED  BY <1>1, <2>1, <2>2 DEF RoomInv
  <1>3. CASE UNCHANGED vars
    <2>1. PagesAreLong'
      BY <1>3 DEF vars, RoomInv, PagesAreLong, InLoop
    <2>2. Spaced'
      BY <1>3, SpacedSame DEF vars, RoomInv, InPage, Gap
    <2> QED  BY <1>1, <2>1, <2>2 DEF RoomInv
  <1> QED  BY <1>2, <1>3

(* A full queue is never met in a job of whole files, however many, when
   two pages have more stripes than there are buffers and the queue holds
   six messages more than that. *)
THEOREM QueueNeverFull ==
  ASSUME ~Broken, LongPages, RoomyQueue
  PROVE  Spec => []NothingRefused
  BY InitRoom, NextRoom, RoomFollows, PTL DEF Spec

(* And the generator of such a job gets all its calls in order. *)
THEOREM LongPagesInOrder ==
  ASSUME ~Broken, LongPages, RoomyQueue
  PROVE  Spec => []CallsInOrder
  BY QueueNeverFull, CallsKeepOrder, PTL

-----------------------------------------------------------------------------
(***************************************************************************)
(* With a generator.                                                       *)
(***************************************************************************)
LEMMA InitPlugin == DocInit => Init
  BY DEF DocInit

(* Each step with a generator is a step of the plugin. *)
LEMMA NextPlugin == [DocNext]_<<vars, dvars>> => [Next]_vars
  <1> SUFFICES ASSUME [DocNext]_<<vars, dvars>> PROVE [Next]_vars
    OBVIOUS
  <1>1. CASE Cancel
    BY <1>1 DEF Next
  <1>2. CASE JobSide
    <2>1. CASE \E n \in Stripes : Begins(n)
      <3>1. \E n \in Stripes : BeginPage(n)
        BY <2>1, Zenon DEF Begins
      <3> QED  BY <3>1, Zenon DEF JobThread, Next
    <2>2. CASE GivesUp \/ SendsBlank \/ Ends \/ SendsStrip \/ Fails
      <3>1. AbandonPage \/ BlankPage \/ EndPage \/ SendStripe \/ FillFails
        BY <2>2, Zenon DEF GivesUp, SendsBlank, Ends, SendsStrip, Fails
      <3> QED  BY <3>1, Zenon DEF JobThread, Next
    <2>3. CASE \/ \E n \in 0 .. (MaxSendBuffs - 1) : BreakPage(n)
               \/ WaitBuffer \/ Fill \/ LoopEnds \/ EndJob \/ Join
      BY <2>3, Zenon DEF JobThread, Next
    <2> QED  BY <1>2, <2>1, <2>2, <2>3, Zenon DEF JobSide
  <1>3. CASE SendSide
    <2>1. StartsPage \/ EndsSwath \/ EndsPage \/ EndsJob \/ StartsJob \/ BeginsSwath
      BY <1>3, Zenon DEF SendSide, WritesPage, WritesSwath, WritesEnd, WritesTrailer
    <2> QED  BY <2>1, Zenon DEF SendThread, Next
  <1>4. CASE UNCHANGED <<vars, dvars>>
    BY <1>4
  <1> QED  BY <1>1, <1>2, <1>3, <1>4, Zenon DEF DocNext

(* The plugin with PCLm or PWG behind it implements the plugin of PclSend. *)
THEOREM GeneratorIsPassive == DocSpec => Spec
  BY InitPlugin, NextPlugin, PTL DEF DocSpec, Spec

(* So the job thread never fills a buffer that waits to be written, also
   while a generator writes it, whatever the language and the pages. *)
THEOREM DocumentBuffers == DocSpec => []OneOwner
  BY GeneratorIsPassive, BufferHasOneOwner, PTL

(* And no permit is lost or given back twice. *)
THEOREM DocumentPermits == DocSpec => []PermitsKept
  BY GeneratorIsPassive, NoPermitLost, PTL

(* No buffer is written that is gone or was never filled, and after the
   cancel only white ones. *)
THEOREM DocumentWritesSafe == DocSpec => []BuffersAreSafe
  BY GeneratorIsPassive, BuffersStaySafe, PTL

(* A document of whole pages that are long enough loses no message, and is
   written in order from the start of each page to its end. *)
THEOREM DocumentInOrder ==
  ASSUME ~Broken, LongPages, RoomyQueue
  PROVE  DocSpec => [](NothingRefused /\ CallsInOrder)
  BY GeneratorIsPassive, QueueNeverFull, LongPagesInOrder, PTL

-----------------------------------------------------------------------------
(***************************************************************************)
(* The document.  What is on its way to the generator is a line: the stripe*)
(* in the send thread's hand, the queue, and the stripe the job thread     *)
(* makes next.  Of a message only its page and its row count here.         *)
(***************************************************************************)
Kinds   == {"startJob", "startPage", "send", "endPage", "endJob"}
Paged   == {"startPage", "send", "endPage"}
Entries == [id : Kinds, page : 0 .. MaxPages, row : Nat]
Tolds   == [strips : [Pages -> {0} \cup Stripes], lost : SUBSET Pages, cut : SUBSET Pages]
Prods   == [pc : {"idle", "loop", "fill", "put", "endPage", "end", "join", "gone"},
            page : 0 .. MaxPages, left : Nat, row : Nat, index : Indexes,
            blank : 0 .. MaxSendBuffs, late : BOOLEAN, failed : BOOLEAN,
            frees : BOOLEAN, back : BOOLEAN]

Brief(m)      == [id |-> m.id, page |-> m.page, row |-> IF m.id = "send" THEN m.row ELSE 0]
Briefs        == [i \in 1 .. Len(queue) |-> Brief(queue[i])]
Sent          == IF send.pc = "swath" THEN <<Brief(send.msg)>> \o Briefs ELSE Briefs
ComingOf(q)   == q.pc \in {"loop", "fill", "put"} /\ q.left > 0 /\ ~q.failed
NextOf(q)     == [id |-> "send", page |-> q.page, row |-> q.row]
LineOf(s, q)  == IF ComingOf(q) THEN Append(s, NextOf(q)) ELSE s
Line          == LineOf(Sent, prod)

(* The parts of a message, in short. *)
LEMMA BriefParts ==
  ASSUME NEW m \in Messages
  PROVE  /\ Brief(m) \in Entries /\ Brief(m).id = m.id /\ Brief(m).page = m.page
         /\ m.id = "send" => Brief(m).row = m.row /\ m.row \in Nat
  <1>0. MaxPages \in Nat /\ 0 \in 0 .. MaxPages /\ \A p \in Pages : p \in 0 .. MaxPages
    BY PclAssumption DEF Pages
  <1>1. CASE m \in {Msg("startJob", 0), Msg("endJob", 0)}
    BY <1>0, <1>1 DEF Msg, Brief, Entries, Kinds
  <1>2. CASE m \in {Msg("startPage", p) : p \in Pages}
    BY <1>0, <1>2 DEF Msg, Brief, Entries, Kinds
  <1>3. CASE m \in [id : {"send"}, page : Pages, index : Indexes, row : Nat, late : BOOLEAN]
    BY <1>0, <1>3 DEF Brief, Entries, Kinds
  <1>4. CASE m \in [id : {"endPage"}, page : Pages, frees : BOOLEAN]
    BY <1>0, <1>4 DEF Brief, Entries, Kinds
  <1> QED  BY <1>1, <1>2, <1>3, <1>4 DEF Messages

(* The messages the job thread makes, in short. *)
LEMMA BriefMade ==
  /\ \A p, i, r, b : Brief(SendMsg(p, i, r, b)) = [id |-> "send", page |-> p, row |-> r]
  /\ \A p : Brief(Msg("startPage", p)) = [id |-> "startPage", page |-> p, row |-> 0]
  /\ \A p, b : Brief(EndPageMsg(p, b)) = [id |-> "endPage", page |-> p, row |-> 0]
  /\ \A id \in {"startJob", "endJob"} : Brief(Msg(id, 0)) = [id |-> id, page |-> 0, row |-> 0]
  BY DEF Brief, SendMsg, Msg, EndPageMsg

(* Something before a sequence, and behind it. *)
LEMMA Around ==
  ASSUME NEW S, NEW s \in Seq(S), NEW x \in S, NEW y \in S
  PROVE  /\ <<x>> \o s \in Seq(S) /\ Len(<<x>> \o s) = Len(s) + 1
         /\ (<<x>> \o s)[1] = x /\ <<x>> \o s # << >>
         /\ Tail(<<x>> \o s) = s
         /\ <<x>> \o Append(s, y) = Append(<<x>> \o s, y)
         /\ s # << >> => /\ <<Head(s)>> \o Tail(s) = s
                         /\ Tail(Append(s, y)) = Append(Tail(s), y)
  <1>1. /\ <<x>> \in Seq(S) /\ Len(<<x>>) = 1 /\ <<x>>[1] = x
        /\ Len(s) \in Nat /\ Append(s, y) \in Seq(S) /\ Len(Append(s, y)) = Len(s) + 1
    OBVIOUS
  <1> DEFINE a == <<x>> \o s
             b == <<x>> \o Append(s, y)
  <1>2. /\ a \in Seq(S) /\ Len(a) = Len(s) + 1
        /\ \A i \in 1 .. Len(s) + 1 : a[i] = IF i <= 1 THEN x ELSE s[i - 1]
    BY <1>1, ConcatProperties
  <1>3. /\ b \in Seq(S) /\ Len(b) = Len(s) + 2
        /\ \A i \in 1 .. Len(s) + 2 : b[i] = IF i <= 1 THEN x ELSE Append(s, y)[i - 1]
    BY <1>1, ConcatProperties
  <1> HIDE DEF a, b
  <1>4. a # << >> /\ a[1] = x
    BY <1>1, <1>2
  <1>5. Tail(a) = s
    <2>1. Tail(a) \in Seq(S) /\ Len(Tail(a)) = Len(s)
          /\ \A i \in 1 .. Len(s) : Tail(a)[i] = a[i + 1]
      BY <1>1, <1>2, <1>4
    <2>2. \A i \in 1 .. Len(s) : a[i + 1] = s[i]
      BY <1>1, <1>2
    <2> QED  BY <2>1, <2>2, SeqEqual
  <1>6. b = Append(a, y)
    <2>1. /\ Append(a, y) \in Seq(S) /\ Len(Append(a, y)) = Len(s) + 2
          /\ \A i \in 1 .. Len(s) + 1 : Append(a, y)[i] = a[i]
          /\ Append(a, y)[Len(s) + 2] = y
      BY <1>1, <1>2
    <2>2. \A i \in 1 .. Len(s) + 2 : b[i] = Append(a, y)[i]
      <3> TAKE i \in 1 .. Len(s) + 2
      <3>1. /\ \A j \in 1 .. Len(s) : Append(s, y)[j] = s[j]
            /\ Append(s, y)[Len(s) + 1] = y
        OBVIOUS
      <3>2. CASE i = 1
        <4>1. b[i] = x /\ a[i] = x
          BY <1>1, <1>2, <1>3, <3>2
        <4> QED  BY <1>1, <2>1, <3>2, <4>1
      <3>3. CASE i \in 2 .. Len(s) + 1
        <4>1. i - 1 \in 1 .. Len(s) /\ i \in 1 .. Len(s) + 1 /\ ~ (i <= 1)
          BY <1>1, <3>3
        <4>2. b[i] = Append(s, y)[i - 1] /\ a[i] = s[i - 1]
          BY <1>2, <1>3, <4>1
        <4>3. Append(s, y)[i - 1] = s[i - 1] /\ Append(a, y)[i] = a[i]
          BY <2>1, <3>1, <4>1
        <4> QED  BY <4>2, <4>3
      <3>4. CASE i = Len(s) + 2
        <4>1. ~ (i <= 1) /\ i - 1 = Len(s) + 1
          BY <1>1, <3>4
        <4>2. b[i] = Append(s, y)[Len(s) + 1]
          BY <1>3, <4>1
        <4> QED  BY <2>1, <3>1, <3>4, <4>2
      <3>5. i = 1 \/ i \in 2 .. Len(s) + 1 \/ i = Len(s) + 2
        BY <1>1
      <3> QED  BY <3>2, <3>3, <3>4, <3>5
    <2> QED  BY <1>3, <2>1, <2>2, SeqEqual
  <1>7. s # << >> => <<Head(s)>> \o Tail(s) = s
    <2> SUFFICES ASSUME s # << >> PROVE <<Head(s)>> \o Tail(s) = s
      OBVIOUS
    <2>1. /\ Tail(s) \in Seq(S) /\ Len(Tail(s)) = Len(s) - 1 /\ Head(s) = s[1] /\ s[1] \in S
          /\ \A i \in 1 .. Len(Tail(s)) : Tail(s)[i] = s[i + 1]
      OBVIOUS
    <2>2. /\ <<Head(s)>> \in Seq(S) /\ Len(<<Head(s)>>) = 1 /\ <<Head(s)>>[1] = s[1]
      BY <2>1
    <2> DEFINE c == <<Head(s)>> \o Tail(s)
    <2>3. /\ c \in Seq(S) /\ Len(c) = Len(s)
          /\ \A i \in 1 .. Len(s) : c[i] = IF i <= 1 THEN s[1] ELSE Tail(s)[i - 1]
      BY <1>1, <2>1, <2>2, ConcatProperties
    <2> HIDE DEF c
    <2>4. \A i \in 1 .. Len(s) : c[i] = s[i]
      BY <1>1, <2>1, <2>3
    <2>5. c = s
      BY <2>3, <2>4, SeqEqual
    <2> QED  BY <2>5 DEF c
  <1>8. s # << >> => Tail(Append(s, y)) = Append(Tail(s), y)
    <2> SUFFICES ASSUME s # << >> PROVE Tail(Append(s, y)) = Append(Tail(s), y)
      OBVIOUS
    <2>1. /\ Tail(s) \in Seq(S) /\ Len(Tail(s)) = Len(s) - 1 /\ Len(s) \in Nat \ {0}
          /\ \A i \in 1 .. Len(s) - 1 : Tail(s)[i] = s[i + 1]
      OBVIOUS
    <2>2. /\ Append(Tail(s), y) \in Seq(S) /\ Len(Append(Tail(s), y)) = Len(s)
          /\ \A i \in 1 .. Len(s) - 1 : Append(Tail(s), y)[i] = Tail(s)[i]
          /\ Append(Tail(s), y)[Len(s)] = y
      BY <2>1
    <2>3. /\ Append(s, y) # << >> /\ Tail(Append(s, y)) \in Seq(S)
          /\ Len(Tail(Append(s, y))) = Len(s)
          /\ \A i \in 1 .. Len(s) : Tail(Append(s, y))[i] = Append(s, y)[i + 1]
      BY <1>1
    <2>4. \A i \in 1 .. Len(s) : Append(s, y)[i + 1] = IF i < Len(s) THEN s[i + 1] ELSE y
      <3>1. /\ \A k \in 1 .. Len(s) : Append(s, y)[k] = s[k]
            /\ Append(s, y)[Len(s) + 1] = y
        BY <1>1
      <3> TAKE i \in 1 .. Len(s)
      <3>2. CASE i < Len(s)
        <4>1. i + 1 \in 1 .. Len(s)
          BY <1>1, <3>2
        <4> QED  BY <3>1, <3>2, <4>1
      <3>3. CASE ~(i < Len(s))
        <4>1. i = Len(s)
          BY <1>1, <3>3
        <4> QED  BY <3>1, <3>3, <4>1
      <3> QED  BY <3>2, <3>3, Zenon
    <2>5. \A i \in 1 .. Len(s) : Tail(Append(s, y))[i] = Append(Tail(s), y)[i]
      <3> TAKE i \in 1 .. Len(s)
      <3>1. Tail(Append(s, y))[i] = IF i < Len(s) THEN s[i + 1] ELSE y
        BY <2>3, <2>4, Zenon
      <3>2. CASE i < Len(s)
        <4>1. i \in 1 .. Len(s) - 1
          BY <1>1, <3>2
        <4>2. Append(Tail(s), y)[i] = s[i + 1]
          BY <2>1, <2>2, <4>1, Zenon
        <4> QED  BY <3>1, <3>2, <4>2, Zenon
      <3>3. CASE ~(i < Len(s))
        <4>1. i = Len(s)
          BY <1>1, <3>3
        <4> QED  BY <2>2, <3>1, <3>3, <4>1, Zenon
      <3> QED  BY <3>2, <3>3, Zenon
    <2> QED  BY <2>2, <2>3, <2>5, SeqEqual
  <1> QED  BY <1>2, <1>4, <1>5, <1>6, <1>7, <1>8 DEF a, b

(* The line is made of entries. *)
LEMMA SentType ==
  ASSUME TypeOK
  PROVE  /\ Briefs \in Seq(Entries) /\ Len(Briefs) = Len(queue) /\ Len(queue) \in Nat
         /\ Brief(send.msg) \in Entries /\ Sent \in Seq(Entries)
  <1>1. queue \in Seq(Messages) /\ send.msg \in Messages
    BY DEF TypeOK
  <1>2. Len(queue) \in Nat /\ \A i \in 1 .. Len(queue) : queue[i] \in Messages
    BY <1>1
  <1>3. Briefs \in Seq(Entries) /\ Len(Briefs) = Len(queue)
    BY <1>2, BriefParts DEF Briefs
  <1>4. Brief(send.msg) \in Entries
    BY <1>1, BriefParts
  <1> QED  BY <1>2, <1>3, <1>4, Around DEF Sent

(* What is queued is sent last. *)
LEMMA SentPut ==
  ASSUME TypeOK, NEW m \in Messages, Put(m), UNCHANGED send
  PROVE  Sent' = IF HasRoom THEN Append(Sent, Brief(m)) ELSE Sent
  <1>1. /\ Briefs \in Seq(Entries) /\ Len(Briefs) = Len(queue) /\ Len(queue) \in Nat
        /\ Brief(send.msg) \in Entries /\ Brief(m) \in Entries
        /\ queue \in Seq(Messages)
    BY SentType, BriefParts DEF TypeOK
  <1>2. CASE HasRoom
    <2>1. queue' = Append(queue, m)
      BY <1>2 DEF Put
    <2>2. /\ Len(queue') = Len(queue) + 1 /\ queue'[Len(queue) + 1] = m
          /\ \A i \in 1 .. Len(queue) : queue'[i] = queue[i]
      BY <1>1, <2>1
    <2>3. \A i \in 1 .. Len(queue) + 1 : Brief(queue'[i]) = Append(Briefs, Brief(m))[i]
      BY <1>1, <2>2 DEF Briefs
    <2>4. Briefs' = [i \in 1 .. Len(queue) + 1 |-> Brief(queue'[i])]
      BY <2>2 DEF Briefs, Brief
    <2>5. Append(Briefs, Brief(m)) \in Seq(Entries)
          /\ Len(Append(Briefs, Brief(m))) = Len(queue) + 1
      BY <1>1
    <2>6. Briefs' \in Seq(Entries) /\ Len(Briefs') = Len(queue) + 1
      BY <1>1, <2>2, <2>3, <2>4, <2>5
    <2>7. Briefs' = Append(Briefs, Brief(m))
      BY <2>3, <2>4, <2>5, <2>6, SeqEqual
    <2>8. Sent' = IF send.pc = "swath" THEN <<Brief(send.msg)>> \o Briefs' ELSE Briefs'
      BY DEF Sent, Brief
    <2> QED  BY <1>1, <1>2, <2>7, <2>8, Around DEF Sent
  <1>3. CASE ~HasRoom
    <2>1. queue' = queue
      BY <1>3 DEF Put
    <2> QED  BY <1>3, <2>1 DEF Sent, Briefs, Brief
  <1> QED  BY <1>2, <1>3

(* What does not change what is on its way. *)
LEMMA SentSame == UNCHANGED <<queue, send>> => Sent' = Sent
  BY DEF Sent, Briefs, Brief

(* The send thread takes the first of the queue. *)
LEMMA SentTake ==
  ASSUME TypeOK, NEW id, Take(id)
  PROVE  /\ Sent # << >> /\ Sent[1] = Brief(Head(queue)) /\ Head(queue) \in Messages
         /\ Head(queue).id = id
         /\ send'.pc # "swath" => Sent' = Tail(Sent)
         /\ send' = [pc |-> "swath", msg |-> Head(queue)] => Sent' = Sent
  <1>1. /\ Briefs \in Seq(Entries) /\ Len(Briefs) = Len(queue) /\ Len(queue) \in Nat
        /\ queue \in Seq(Messages)
    BY SentType DEF TypeOK
  <1>2. /\ queue # << >> /\ Head(queue).id = id /\ queue' = Tail(queue)
        /\ send.pc = "receive" /\ Sent = Briefs
    BY DEF Take, Sent
  <1>3. /\ Head(queue) = queue[1] /\ queue[1] \in Messages /\ Len(queue) # 0
        /\ Len(queue') = Len(queue) - 1
        /\ \A i \in 1 .. Len(queue) - 1 : queue'[i] = queue[i + 1]
    BY <1>1, <1>2
  <1>4. Briefs # << >> /\ Head(Briefs) = Brief(queue[1]) /\ Briefs[1] = Brief(queue[1])
    BY <1>1, <1>3 DEF Briefs
  <1>5. /\ Tail(Briefs) \in Seq(Entries) /\ Len(Tail(Briefs)) = Len(queue) - 1
        /\ \A i \in 1 .. Len(queue) - 1 : Tail(Briefs)[i] = Briefs[i + 1]
    BY <1>1, <1>3, <1>4
  <1>6. Briefs' = [i \in 1 .. Len(queue) - 1 |-> Brief(queue'[i])]
    BY <1>3 DEF Briefs, Brief
  <1>7. \A i \in 1 .. Len(queue) - 1 : Brief(queue'[i]) = Tail(Briefs)[i]
    BY <1>1, <1>3, <1>5 DEF Briefs
  <1>8. Briefs' = Tail(Briefs)
    <2>1. Briefs' \in Seq(Entries) /\ Len(Briefs') = Len(queue) - 1
      BY <1>1, <1>3, <1>5, <1>6, <1>7
    <2> QED  BY <1>5, <1>6, <1>7, <2>1, SeqEqual
  <1>9. send'.pc # "swath" => Sent' = Tail(Sent)
    BY <1>2, <1>8 DEF Sent
  <1>10. ASSUME send' = [pc |-> "swath", msg |-> Head(queue)]
         PROVE  Sent' = Sent
    <2>1. Sent' = <<Brief(queue[1])>> \o Briefs'
      BY <1>3, <1>10 DEF Sent, Brief
    <2>2. <<Head(Briefs)>> \o Tail(Briefs) = Briefs
      <3>1. Brief(send.msg) \in Entries
        BY SentType
      <3> QED  BY <1>1, <1>4, <3>1, Around
    <2> QED  BY <1>2, <1>4, <1>8, <2>1, <2>2
  <1> QED  BY <1>2, <1>3, <1>4, <1>9, <1>10

(* And gives it to the generator. *)
LEMMA SentGiven ==
  ASSUME TypeOK, send.pc = "swath", send'.pc # "swath", UNCHANGED queue
  PROVE  Sent # << >> /\ Sent[1] = Brief(send.msg) /\ Sent' = Tail(Sent)
  <1>1. Briefs \in Seq(Entries) /\ Brief(send.msg) \in Entries
    BY SentType
  <1>2. Sent = <<Brief(send.msg)>> \o Briefs /\ Sent' = Briefs
    BY DEF Sent, Briefs, Brief
  <1> QED  BY <1>1, <1>2, Around

-----------------------------------------------------------------------------
(***************************************************************************)
(* The order of the line.                                                  *)
(***************************************************************************)
(* A message of which PCLm makes a page, PWG only of the first kind. *)
Makes(m, t) == m.id = "startPage" \/ (m.id = "endPage" /\ t.strips[m.page] = 0)

(* A stripe comes behind the one above it, the first behind the start of
   its page, unless that was lost. *)
Continues(a, b) ==
  /\ b.id = "send" /\ a.page = b.page
  /\ \/ a.id = "send" /\ b.row = a.row + 1
     \/ a.id = "startPage" /\ b.row = 0
Behind(a, b, t) == b.id = "send" => b.page \in t.lost \/ Continues(a, b)

(* There is more to come of the page of a message. *)
Short(m, t) ==
  /\ m.page \notin t.cut
  /\ m.id = "startPage" \/ (m.id = "send" /\ m.row + 1 < t.strips[m.page])

(* The page in the job thread of which the generator has yet to be told. *)
Untold(p, t, q) == q.pc = "endPage" /\ q.page = p /\ t.strips[p] = 0

InLine(m, t, q) ==
  /\ m.id \in Paged => m.page \in 1 .. q.page
  /\ m.id = "startPage" => t.strips[m.page] > 0
  /\ m.id = "send" => m.row < t.strips[m.page]
  /\ Makes(m, t) => m.page \notin t.lost /\ ~Untold(m.page, t, q)
  /\ m.id = "endJob" => q.pc \in {"join", "gone"}

LineCore(L, t, q) ==
  /\ \A i \in 1 .. Len(L) : InLine(L[i], t, q)
  /\ \A i \in 1 .. Len(L) : i < Len(L) =>
       /\ Behind(L[i], L[i + 1], t)
       /\ Short(L[i], t) => Continues(L[i], L[i + 1])
       /\ L[i].id # "endJob"
  /\ \A i, j \in 1 .. Len(L) :
       i < j /\ Makes(L[i], t) /\ Makes(L[j], t) => L[i].page < L[j].page

LastShort(L, t, q) == L # << >> /\ Short(L[Len(L)], t) => ComingOf(q)

ToldInv(t, q) ==
  /\ t \in Tolds
  /\ t.lost \subseteq 1 .. q.page /\ t.cut \subseteq 1 .. q.page
  /\ \A p \in Pages : p > q.page => t.strips[p] = 0
  /\ q.pc \in {"loop", "fill", "put", "endPage"} => q.page \in Pages
  /\ q.pc \in {"loop", "fill", "put"} =>
       t.strips[q.page] = q.row + q.left /\ t.strips[q.page] > 0
  /\ q.pc \in {"fill", "put"} => ComingOf(q)
  /\ Untold(q.page, t, q) => q.page \notin t.lost

(* What the job thread says in the course of time. *)
Grows(t, q, t2, q2) ==
  /\ q.page <= q2.page
  /\ \A p \in 1 .. q.page : t2.strips[p] = t.strips[p]
  /\ t.lost \subseteq t2.lost /\ t.cut \subseteq t2.cut
  /\ \A p \in 1 .. q.page : /\ p \in t2.lost => p \in t.lost \/ Untold(p, t, q)
                            /\ Untold(p, t2, q2) => Untold(p, t, q)
  /\ q.pc \in {"join", "gone"} => q2.pc \in {"join", "gone"}

(* The pages that are new, or that the generator has yet to be told of. *)
Fresh(p, t, q) == p > q.page \/ Untold(p, t, q)

(* What a step of the job thread does to the line, as far as the document
   is concerned: it makes fresh pages only, and lets none go unnoticed. *)
Moves(L, t, q, L2, t2, q2) ==
  /\ Grows(t, q, t2, q2)
  /\ \A i \in 1 .. Len(L2) : Makes(L2[i], t2) =>
       (\E j \in 1 .. Len(L) : L2[i] = L[j]) \/ Fresh(L2[i].page, t, q)
  /\ \A i \in 1 .. Len(L) : Makes(L[i], t2) => \E j \in 1 .. Len(L2) : L2[j] = L[i]
  /\ \A p \in 1 .. q2.page : Fresh(p, t, q) =>
       \/ p \in t2.lost \/ Untold(p, t2, q2)
       \/ \E j \in 1 .. Len(L2) : Makes(L2[j], t2) /\ L2[j].page = p
  /\ L2 # << >> => \/ L # << >> /\ L2[1] = L[1]
                   \/ L2[1].id # "send" \/ L2[1].page \in t2.lost
  /\ L # << >> => \/ L2 # << >> /\ L2[1] = L[1]
                  \/ L[1].id = "send" /\ L[1].page \in t2.cut

(* The entries of a line. *)
LEMMA EntryParts ==
  ASSUME NEW L \in Seq(Entries)
  PROVE  /\ Len(L) \in Nat
         /\ L # << >> => Len(L) > 0
         /\ \A i \in 1 .. Len(L) : /\ L[i] \in Entries /\ L[i].id \in Kinds
                                   /\ L[i].page \in 0 .. MaxPages /\ L[i].row \in Nat
  <1>1. Len(L) \in Nat /\ \A i \in 1 .. Len(L) : L[i] \in Entries
    OBVIOUS
  <1>2. L # << >> => Len(L) > 0
    OBVIOUS
  <1> QED  BY <1>1, <1>2 DEF Entries

(* The line while the job thread goes on. *)
LEMMA EntryGrows ==
  ASSUME NEW m \in Entries, NEW t, NEW q, NEW t2, NEW q2,
         q.page \in 0 .. MaxPages, q2.page \in 0 .. MaxPages,
         Grows(t, q, t2, q2), InLine(m, t, q)
  PROVE  /\ InLine(m, t2, q2)
         /\ Makes(m, t2) <=> Makes(m, t)
         /\ Short(m, t2) => Short(m, t)
  <1>1. m.id \in Paged => m.page \in 1 .. q.page /\ t2.strips[m.page] = t.strips[m.page]
    BY DEF InLine, Grows
  <1>2. q.page \in Nat /\ q2.page \in Nat /\ q.page <= q2.page
    BY PclAssumption DEF Grows
  <1>3. Makes(m, t2) <=> Makes(m, t)
    BY <1>1 DEF Makes, Paged
  <1>4. Short(m, t2) => Short(m, t)
    BY <1>1 DEF Short, Paged, Grows
  <1>5. Makes(m, t) => m.page \notin t2.lost /\ ~Untold(m.page, t2, q2)
    BY <1>1 DEF InLine, Grows, Makes, Paged
  <1>6. m.id \in Paged => m.page \in 1 .. q2.page
    BY <1>1, <1>2
  <1> QED  BY <1>1, <1>3, <1>4, <1>5, <1>6 DEF InLine, Grows, Paged

(* The line stays as it is while the job thread goes on. *)
LEMMA CoreGrows ==
  ASSUME NEW L \in Seq(Entries), NEW t, NEW q, NEW t2, NEW q2,
         q.page \in 0 .. MaxPages, q2.page \in 0 .. MaxPages,
         Grows(t, q, t2, q2), LineCore(L, t, q)
  PROVE  LineCore(L, t2, q2)
  <1>1. \A i \in 1 .. Len(L) : /\ InLine(L[i], t2, q2)
                               /\ Makes(L[i], t2) <=> Makes(L[i], t)
                               /\ Short(L[i], t2) => Short(L[i], t)
    BY EntryParts, EntryGrows DEF LineCore
  <1>2. \A a, b : Behind(a, b, t) => Behind(a, b, t2)
    BY DEF Behind, Grows
  <1>3. \A i \in 1 .. Len(L) : i < Len(L) =>
          /\ Behind(L[i], L[i + 1], t2)
          /\ Short(L[i], t2) => Continues(L[i], L[i + 1])
          /\ L[i].id # "endJob"
    BY <1>1, <1>2 DEF LineCore
  <1>4. \A i, j \in 1 .. Len(L) :
          i < j /\ Makes(L[i], t2) /\ Makes(L[j], t2) => L[i].page < L[j].page
    BY <1>1 DEF LineCore
  <1> QED  BY <1>1, <1>3, <1>4 DEF LineCore

(* The line when its first message has gone. *)
LEMMA CoreTail ==
  ASSUME NEW L \in Seq(Entries), NEW t, NEW q, L # << >>, LineCore(L, t, q)
  PROVE  /\ LineCore(Tail(L), t, q)
         /\ LastShort(L, t, q) => LastShort(Tail(L), t, q)
         /\ Tail(L) \in Seq(Entries) /\ Len(Tail(L)) = Len(L) - 1
         /\ \A i \in 1 .. Len(L) - 1 : i + 1 \in 1 .. Len(L) /\ Tail(L)[i] = L[i + 1]
  <1>1. /\ Tail(L) \in Seq(Entries) /\ Len(Tail(L)) = Len(L) - 1 /\ Len(L) \in Nat \ {0}
        /\ \A i \in 1 .. Len(L) - 1 : Tail(L)[i] = L[i + 1]
    OBVIOUS
  <1>2. \A i \in 1 .. Len(L) - 1 : i + 1 \in 1 .. Len(L)
    BY <1>1
  <1>3. \A i \in 1 .. Len(Tail(L)) : InLine(Tail(L)[i], t, q)
    BY <1>1, <1>2 DEF LineCore
  <1>4. ASSUME NEW i \in 1 .. Len(Tail(L)), i < Len(Tail(L))
        PROVE  /\ Behind(Tail(L)[i], Tail(L)[i + 1], t)
               /\ Short(Tail(L)[i], t) => Continues(Tail(L)[i], Tail(L)[i + 1])
               /\ Tail(L)[i].id # "endJob"
    <2>1. i \in 1 .. Len(L) - 1 /\ i + 1 \in 1 .. Len(L) - 1
      BY <1>1, <1>4
    <2>2. Tail(L)[i] = L[i + 1] /\ Tail(L)[i + 1] = L[(i + 1) + 1]
      BY <1>1, <2>1
    <2>3. i + 1 \in 1 .. Len(L) /\ i + 1 < Len(L)
      BY <1>1, <2>1
    <2> DEFINE k == i + 1
    <2>4. k \in 1 .. Len(L) /\ k < Len(L) /\ Tail(L)[i] = L[k] /\ Tail(L)[i + 1] = L[k + 1]
      BY <2>2, <2>3
    <2> HIDE DEF k
    <2> QED  BY <2>4 DEF LineCore
  <1>5. ASSUME NEW i \in 1 .. Len(Tail(L)), NEW j \in 1 .. Len(Tail(L)),
               i < j, Makes(Tail(L)[i], t), Makes(Tail(L)[j], t)
        PROVE  Tail(L)[i].page < Tail(L)[j].page
    <2> DEFINE k == i + 1
               l == j + 1
    <2>1. k \in 1 .. Len(L) /\ l \in 1 .. Len(L) /\ k < l
      BY <1>1, <1>5
    <2>2. Tail(L)[i] = L[k] /\ Tail(L)[j] = L[l]
      BY <1>1
    <2> HIDE DEF k, l
    <2> QED  BY <1>5, <2>1, <2>2 DEF LineCore
  <1>6. ASSUME LastShort(L, t, q) PROVE LastShort(Tail(L), t, q)
    <2> SUFFICES ASSUME Tail(L) # << >>, Short(Tail(L)[Len(Tail(L))], t) PROVE ComingOf(q)
      BY DEF LastShort
    <2>1. Len(Tail(L)) > 0
      BY <1>1
    <2>2. Len(Tail(L)) \in 1 .. Len(L) - 1 /\ Len(Tail(L)) + 1 = Len(L)
      BY <1>1, <2>1
    <2>3. Tail(L)[Len(Tail(L))] = L[Len(L)]
      BY <1>1, <2>2
    <2> QED  BY <1>6, <2>3 DEF LastShort
  <1> QED  BY <1>1, <1>2, <1>3, <1>4, <1>5, <1>6 DEF LineCore

(* A longer line, in terms of the shorter one. *)
LEMMA AppendParts ==
  ASSUME NEW S, NEW L \in Seq(S), NEW m \in S
  PROVE  /\ Append(L, m) \in Seq(S) /\ Len(Append(L, m)) = Len(L) + 1 /\ Len(L) \in Nat
         /\ Append(L, m) # << >>
         /\ \A i \in 1 .. Len(L) : Append(L, m)[i] = L[i]
         /\ Append(L, m)[Len(L) + 1] = m
         /\ \A i \in 1 .. Len(L) + 1 : i \in 1 .. Len(L) \/ i = Len(L) + 1
         /\ \A i \in 1 .. Len(L) : i \in 1 .. Len(L) + 1
         /\ Len(L) + 1 \in 1 .. Len(L) + 1
         /\ L # << >> => Append(L, m)[1] = L[1] /\ 1 \in 1 .. Len(L)
         /\ L = << >> => Append(L, m)[1] = m
  <1>1. /\ Append(L, m) \in Seq(S) /\ Len(Append(L, m)) = Len(L) + 1 /\ Len(L) \in Nat
        /\ \A i \in 1 .. Len(L) : Append(L, m)[i] = L[i]
        /\ Append(L, m)[Len(L) + 1] = m
    OBVIOUS
  <1>2. /\ Len(L) = 0 <=> L = << >>
        /\ Append(L, m) # << >>
    BY <1>1, EmptySeq
  <1>3. /\ \A i \in 1 .. Len(L) + 1 : i \in 1 .. Len(L) \/ i = Len(L) + 1
        /\ \A i \in 1 .. Len(L) : i \in 1 .. Len(L) + 1
        /\ Len(L) + 1 \in 1 .. Len(L) + 1
        /\ L # << >> => 1 \in 1 .. Len(L)
    BY <1>1, <1>2
  <1>4. L = << >> => Append(L, m)[1] = m
    BY <1>1, <1>2
  <1> QED  BY <1>1, <1>2, <1>3, <1>4

(* The line when a message comes behind it. *)
LEMMA CoreAppend ==
  ASSUME NEW L \in Seq(Entries), NEW t, NEW q, NEW m \in Entries,
         LineCore(L, t, q), InLine(m, t, q),
         L # << >> => /\ Behind(L[Len(L)], m, t)
                      /\ Short(L[Len(L)], t) => Continues(L[Len(L)], m)
                      /\ L[Len(L)].id # "endJob",
         Makes(m, t) => \A i \in 1 .. Len(L) : Makes(L[i], t) => L[i].page < m.page
  PROVE  LineCore(Append(L, m), t, q)
  <1> DEFINE M == Append(L, m)
  <1>1. /\ M \in Seq(Entries) /\ Len(M) = Len(L) + 1 /\ Len(L) \in Nat
        /\ \A i \in 1 .. Len(L) : M[i] = L[i]
        /\ M[Len(L) + 1] = m
        /\ \A i \in 1 .. Len(L) + 1 : i \in 1 .. Len(L) \/ i = Len(L) + 1
        /\ L # << >> => 1 \in 1 .. Len(L)
    BY AppendParts
  <1> HIDE DEF M
  <1>2. \A i \in 1 .. Len(M) : InLine(M[i], t, q)
    BY <1>1 DEF LineCore
  <1>3. ASSUME NEW i \in 1 .. Len(M), i < Len(M)
        PROVE  /\ Behind(M[i], M[i + 1], t)
               /\ Short(M[i], t) => Continues(M[i], M[i + 1])
               /\ M[i].id # "endJob"
    <2>1. i \in 1 .. Len(L) /\ M[i] = L[i]
      BY <1>1, <1>3
    <2>2. CASE i < Len(L)
      <3>1. i + 1 \in 1 .. Len(L)
        BY <1>1, <2>1, <2>2
      <3>2. M[i + 1] = L[i + 1]
        BY <1>1, <3>1
      <3> QED  BY <2>1, <2>2, <3>2 DEF LineCore
    <2>3. CASE ~(i < Len(L))
      <3>1. i = Len(L) /\ L # << >>
        BY <1>1, <2>1, <2>3
      <3>2. M[i + 1] = m
        BY <1>1, <3>1
      <3> QED  BY <2>1, <3>1, <3>2
    <2> QED  BY <2>2, <2>3
  <1>4. ASSUME NEW i \in 1 .. Len(M), NEW j \in 1 .. Len(M),
               i < j, Makes(M[i], t), Makes(M[j], t)
        PROVE  M[i].page < M[j].page
    <2>1. i \in 1 .. Len(L) /\ M[i] = L[i]
      BY <1>1, <1>4
    <2>2. CASE j \in 1 .. Len(L)
      BY <1>1, <1>4, <2>1, <2>2 DEF LineCore
    <2>3. CASE j = Len(L) + 1
      BY <1>1, <1>4, <2>1, <2>3
    <2> QED  BY <1>1, <2>2, <2>3
  <1> QED  BY <1>2, <1>3, <1>4 DEF LineCore, M

(* The line without its last message. *)
LEMMA CoreFront ==
  ASSUME NEW L \in Seq(Entries), NEW t, NEW q, NEW m \in Entries,
         LineCore(Append(L, m), t, q)
  PROVE  /\ LineCore(L, t, q) /\ InLine(m, t, q)
         /\ L # << >> => /\ Behind(L[Len(L)], m, t)
                         /\ Short(L[Len(L)], t) => Continues(L[Len(L)], m)
                         /\ L[Len(L)].id # "endJob"
  <1> DEFINE M == Append(L, m)
  <1>1. /\ M \in Seq(Entries) /\ Len(M) = Len(L) + 1 /\ Len(L) \in Nat
        /\ \A i \in 1 .. Len(L) : M[i] = L[i]
        /\ M[Len(L) + 1] = m
        /\ \A i \in 1 .. Len(L) : i \in 1 .. Len(M)
        /\ Len(M) \in 1 .. Len(M)
        /\ L # << >> => Len(L) \in 1 .. Len(L)
    BY AppendParts
  <1> HIDE DEF M
  <1>2. LineCore(M, t, q)
    BY DEF M
  <1>3. \A i \in 1 .. Len(L) : InLine(L[i], t, q)
    BY <1>1, <1>2 DEF LineCore
  <1>4. ASSUME NEW i \in 1 .. Len(L), i < Len(L)
        PROVE  /\ Behind(L[i], L[i + 1], t)
               /\ Short(L[i], t) => Continues(L[i], L[i + 1])
               /\ L[i].id # "endJob"
    <2>1. i + 1 \in 1 .. Len(L) /\ i \in 1 .. Len(M) /\ i < Len(M)
      BY <1>1, <1>4
    <2>2. M[i] = L[i] /\ M[i + 1] = L[i + 1]
      BY <1>1, <2>1
    <2> QED  BY <1>2, <2>1, <2>2 DEF LineCore
  <1>5. \A i, j \in 1 .. Len(L) :
          i < j /\ Makes(L[i], t) /\ Makes(L[j], t) => L[i].page < L[j].page
    BY <1>1, <1>2 DEF LineCore
  <1>6. InLine(m, t, q)
    BY <1>1, <1>2 DEF LineCore
  <1>7. ASSUME L # << >>
        PROVE  /\ Behind(L[Len(L)], m, t)
               /\ Short(L[Len(L)], t) => Continues(L[Len(L)], m)
               /\ L[Len(L)].id # "endJob"
    <2>1. Len(L) \in 1 .. Len(L) /\ Len(L) \in 1 .. Len(M) /\ Len(L) < Len(M)
      BY <1>1, <1>7
    <2>2. M[Len(L)] = L[Len(L)] /\ M[Len(L) + 1] = m
      BY <1>1, <2>1
    <2> QED  BY <1>2, <2>1, <2>2 DEF LineCore
  <1> QED  BY <1>3, <1>4, <1>5, <1>6, <1>7 DEF LineCore

(* A step that leaves the line as it is. *)
LEMMA MoveNone ==
  ASSUME NEW L \in Seq(Entries), NEW t, NEW q, NEW t2, NEW q2,
         Grows(t, q, t2, q2),
         \A p \in 1 .. q2.page : Fresh(p, t, q) => p \in t2.lost \/ Untold(p, t2, q2)
  PROVE  Moves(L, t, q, L, t2, q2)
  BY DEF Moves

(* A step that puts a message behind it. *)
LEMMA MovePut ==
  ASSUME NEW L \in Seq(Entries), NEW t, NEW q, NEW t2, NEW q2, NEW m \in Entries,
         Grows(t, q, t2, q2),
         Makes(m, t2) => Fresh(m.page, t, q),
         m.id = "send" => L # << >> \/ m.page \in t2.lost,
         \A p \in 1 .. q2.page : Fresh(p, t, q) =>
           p \in t2.lost \/ Untold(p, t2, q2) \/ (Makes(m, t2) /\ m.page = p)
  PROVE  Moves(L, t, q, Append(L, m), t2, q2)
  <1> DEFINE M == Append(L, m)
  <1>1. /\ M \in Seq(Entries) /\ Len(M) = Len(L) + 1 /\ Len(L) \in Nat
        /\ \A i \in 1 .. Len(L) : M[i] = L[i] /\ i \in 1 .. Len(M)
        /\ M[Len(M)] = m /\ Len(M) \in 1 .. Len(M)
        /\ \A i \in 1 .. Len(M) : i \in 1 .. Len(L) \/ i = Len(M)
        /\ L # << >> => M[1] = L[1]
        /\ L = << >> => M[1] = m
        /\ M # << >>
    BY AppendParts
  <1> HIDE DEF M
  <1>2. \A i \in 1 .. Len(M) : Makes(M[i], t2) =>
          (\E j \in 1 .. Len(L) : M[i] = L[j]) \/ Fresh(M[i].page, t, q)
    BY <1>1
  <1>3. \A i \in 1 .. Len(L) : \E j \in 1 .. Len(M) : M[j] = L[i]
    BY <1>1
  <1>4. \A p \in 1 .. q2.page : Fresh(p, t, q) =>
          \/ p \in t2.lost \/ Untold(p, t2, q2)
          \/ \E j \in 1 .. Len(M) : Makes(M[j], t2) /\ M[j].page = p
    BY <1>1
  <1> QED  BY <1>1, <1>2, <1>3, <1>4 DEF Moves, M

(* A step that drops the stripe behind it. *)
LEMMA MoveDrop ==
  ASSUME NEW L \in Seq(Entries), NEW t, NEW q, NEW t2, NEW q2, NEW m \in Entries,
         Grows(t, q, t2, q2), m.id = "send", m.page \in t2.cut,
         \A p \in 1 .. q2.page : Fresh(p, t, q) => p \in t2.lost \/ Untold(p, t2, q2)
  PROVE  Moves(Append(L, m), t, q, L, t2, q2)
  <1> DEFINE M == Append(L, m)
  <1>1. /\ M \in Seq(Entries) /\ Len(M) = Len(L) + 1 /\ Len(L) \in Nat
        /\ \A i \in 1 .. Len(L) : M[i] = L[i] /\ i \in 1 .. Len(M)
        /\ M[Len(M)] = m
        /\ \A i \in 1 .. Len(M) : i \in 1 .. Len(L) \/ i = Len(M)
        /\ L # << >> => M[1] = L[1]
        /\ L = << >> => M[1] = m
        /\ M # << >>
    BY AppendParts
  <1> HIDE DEF M
  <1>2. ~Makes(m, t2)
    BY DEF Makes
  <1>3. \A i \in 1 .. Len(L) : \E j \in 1 .. Len(M) : L[i] = M[j]
    BY <1>1
  <1>4. \A i \in 1 .. Len(M) : Makes(M[i], t2) => \E j \in 1 .. Len(L) : L[j] = M[i]
    BY <1>1, <1>2
  <1> QED  BY <1>1, <1>3, <1>4 DEF Moves, M

(* A step that begins a page: its start and its first stripe. *)
LEMMA MoveTwo ==
  ASSUME NEW L \in Seq(Entries), NEW t, NEW q, NEW t2, NEW q2,
         NEW a \in Entries, NEW b \in Entries,
         Grows(t, q, t2, q2), Makes(a, t2), Fresh(a.page, t, q), b.id = "send",
         a.id = "startPage",
         \A p \in 1 .. q2.page : Fresh(p, t, q) =>
           p \in t2.lost \/ Untold(p, t2, q2) \/ a.page = p
  PROVE  Moves(L, t, q, Append(Append(L, a), b), t2, q2)
  <1> DEFINE M == Append(L, a)
             N == Append(M, b)
  <1>1. /\ M \in Seq(Entries) /\ Len(M) = Len(L) + 1 /\ Len(L) \in Nat
        /\ \A i \in 1 .. Len(L) : M[i] = L[i] /\ i \in 1 .. Len(M)
        /\ M[Len(M)] = a /\ Len(M) \in 1 .. Len(M)
        /\ \A i \in 1 .. Len(M) : i \in 1 .. Len(L) \/ i = Len(M)
        /\ L # << >> => M[1] = L[1]
        /\ L = << >> => M[1] = a
        /\ M # << >>
    BY AppendParts
  <1> HIDE DEF M
  <1>2. /\ N \in Seq(Entries) /\ Len(N) = Len(M) + 1
        /\ \A i \in 1 .. Len(M) : N[i] = M[i] /\ i \in 1 .. Len(N)
        /\ N[Len(N)] = b
        /\ \A i \in 1 .. Len(N) : i \in 1 .. Len(M) \/ i = Len(N)
        /\ N[1] = M[1] /\ N # << >>
    BY <1>1, AppendParts
  <1> HIDE DEF N
  <1>3. ~Makes(b, t2)
    BY DEF Makes
  <1>4. \A i \in 1 .. Len(N) : Makes(N[i], t2) =>
          (\E j \in 1 .. Len(L) : N[i] = L[j]) \/ Fresh(N[i].page, t, q)
    <2> TAKE i \in 1 .. Len(N)
    <2>1. CASE i \in 1 .. Len(M)
      <3>1. N[i] = M[i]
        BY <1>2, <2>1
      <3>2. CASE i \in 1 .. Len(L)
        BY <1>1, <3>1, <3>2
      <3>3. CASE i = Len(M)
        BY <1>1, <3>1, <3>3
      <3> QED  BY <1>1, <2>1, <3>2, <3>3
    <2>2. CASE i = Len(N)
      BY <1>2, <1>3, <2>2
    <2> QED  BY <1>2, <2>1, <2>2
  <1>5. \A i \in 1 .. Len(L) : \E j \in 1 .. Len(N) : N[j] = L[i]
    BY <1>1, <1>2
  <1>6. N[Len(M)] = a /\ Len(M) \in 1 .. Len(N)
    BY <1>1, <1>2
  <1>7. \A p \in 1 .. q2.page : Fresh(p, t, q) =>
          \/ p \in t2.lost \/ Untold(p, t2, q2)
          \/ \E j \in 1 .. Len(N) : Makes(N[j], t2) /\ N[j].page = p
    BY <1>6
  <1>8. L # << >> => N[1] = L[1]
    BY <1>1, <1>2
  <1>9. L = << >> => N[1].id # "send"
    BY <1>1, <1>2
  <1> QED  BY <1>2, <1>4, <1>5, <1>7, <1>8, <1>9 DEF Moves, N, M

OrderInv ==
  /\ ToldInv(told, prod)
  /\ LineCore(Line, told, prod)
  /\ LastShort(Line, told, prod)
  /\ send.pc = "ended" => Line = << >> /\ prod.pc \in {"join", "gone"}

(* Everything is in its place at the start of a job. *)
LEMMA OrderFacts ==
  ASSUME TypeOK, OrderInv
  PROVE  /\ prod \in Prods /\ told \in Tolds
         /\ prod.page \in Nat /\ prod.row \in Nat /\ prod.left \in Nat /\ MaxPages \in Nat
         /\ prod.page \in 0 .. MaxPages
         /\ Sent \in Seq(Entries) /\ Line \in Seq(Entries)
         /\ ComingOf(prod) => NextOf(prod) \in Entries
         /\ 0 \notin Stripes
  <1>1. prod \in Prods
    BY DEF TypeOK, Prods
  <1>2. /\ prod.page \in Nat /\ prod.row \in Nat /\ prod.left \in Nat /\ MaxPages \in Nat
        /\ prod.page \in 0 .. MaxPages
    BY <1>1, PclAssumption DEF Prods
  <1>3. NextOf(prod) \in Entries
    BY <1>2 DEF NextOf, Entries, Kinds
  <1>4. Sent \in Seq(Entries) /\ Line \in Seq(Entries)
    BY <1>3, SentType DEF Line, LineOf
  <1> QED  BY <1>1, <1>2, <1>3, <1>4, PclAssumption DEF OrderInv, ToldInv

(* When no stripe is being made, there is no more to come of the last page. *)
LEMMA NoneComing ==
  ASSUME NEW L \in Seq(Entries), NEW t, NEW q, NEW t2, NEW q2,
         q.page \in 0 .. MaxPages, q2.page \in 0 .. MaxPages,
         Grows(t, q, t2, q2), LineCore(L, t, q), LastShort(L, t, q), ~ComingOf(q)
  PROVE  /\ \A i \in 1 .. Len(L) : Makes(L[i], t2) =>
              L[i].page <= q.page /\ L[i].page \in Nat /\ ~Untold(L[i].page, t, q)
         /\ L # << >> => /\ ~Short(L[Len(L)], t2)
                         /\ q.pc \notin {"join", "gone"} => L[Len(L)].id # "endJob"
  <1>1. /\ Len(L) \in Nat /\ L # << >> => Len(L) > 0
        /\ \A i \in 1 .. Len(L) : L[i] \in Entries
    BY EntryParts
  <1>2. \A i \in 1 .. Len(L) : /\ InLine(L[i], t, q)
                               /\ Makes(L[i], t2) <=> Makes(L[i], t)
                               /\ Short(L[i], t2) => Short(L[i], t)
    BY <1>1, EntryGrows DEF LineCore
  <1>3. L # << >> => Len(L) \in 1 .. Len(L)
    BY <1>1
  <1>4. \A i \in 1 .. Len(L) : Makes(L[i], t2) =>
          L[i].page <= q.page /\ L[i].page \in Nat /\ ~Untold(L[i].page, t, q)
    <2> TAKE i \in 1 .. Len(L)
    <2>1. Makes(L[i], t) => L[i].page \in 1 .. q.page /\ ~Untold(L[i].page, t, q)
      BY <1>2 DEF InLine, Makes, Paged
    <2>2. q.page \in Nat
      BY PclAssumption
    <2> QED  BY <1>2, <2>1, <2>2
  <1>5. L # << >> => ~Short(L[Len(L)], t2)
    BY <1>2, <1>3 DEF LastShort
  <1>6. L # << >> /\ q.pc \notin {"join", "gone"} => L[Len(L)].id # "endJob"
    BY <1>2, <1>3 DEF InLine
  <1> QED  BY <1>4, <1>5, <1>6

(* A page is begun: its start and its first stripe join the line. *)
LEMMA LineBegins ==
  ASSUME TypeOK, OrderInv, NEW n \in Stripes, Begins(n)
  PROVE  OrderInv' /\ Moves(Line, told, prod, Line', told', prod')
  <1> DEFINE p == prod.page + 1
             a == [id |-> "startPage", page |-> p, row |-> 0]
             b == [id |-> "send", page |-> p, row |-> 0]
  <1>0. /\ prod \in Prods /\ told \in Tolds
        /\ prod.page \in Nat /\ prod.page \in 0 .. MaxPages /\ MaxPages \in Nat
        /\ Sent \in Seq(Entries) /\ n \in Nat /\ n > 0 /\ n \in Stripes
    BY OrderFacts, PclAssumption
  <1>1. /\ prod.pc = "idle" /\ prod.page < MaxPages /\ UNCHANGED send
        /\ Put(Msg("startPage", p))
    BY DEF Begins, BeginPage, NewPage
  <1>2. p \in Nat /\ p \in Pages /\ p \in 1 .. p /\ p \in 0 .. MaxPages /\ prod.page < p
        /\ prod.page <= p
        /\ (\A x \in Pages : x > prod.page => x >= p)
        /\ (\A y \in 1 .. prod.page : y # p /\ y \in 1 .. p)
        /\ (\A z \in 1 .. p : z > prod.page => z = p)
    BY <1>0, <1>1 DEF Pages
  <1>22. \A x : ~Untold(x, told, prod)
    BY <1>1 DEF Untold
  <1>3. a \in Entries /\ b \in Entries
    BY <1>2 DEF Entries, Kinds
  <1>4. /\ prod' = [prod EXCEPT !.pc = "loop", !.page = p, !.left = n, !.row = 0,
                                !.index = 0, !.blank = 0, !.failed = FALSE, !.frees = TRUE]
    BY DEF Begins, BeginPage
  <1>5. /\ prod'.pc = "loop" /\ prod'.page = p /\ prod'.left = n /\ prod'.row = 0
        /\ prod'.failed = FALSE
    BY <1>0, <1>4 DEF Prods
  <1>6. told' = [told EXCEPT !.strips[p] = n, !.lost = @ \cup Unheard(p)]
    BY DEF Begins
  <1>7. /\ told'.strips = [told.strips EXCEPT ![p] = n]
        /\ told'.lost = told.lost \cup (IF HasRoom THEN {} ELSE {p})
        /\ told'.cut = told.cut
    BY <1>0, <1>6 DEF Tolds, Unheard
  <1>8. told' \in Tolds
    <2>1. told'.strips \in [Pages -> {0} \cup Stripes]
      BY <1>0, <1>2, <1>7 DEF Tolds
    <2>2. told'.lost \in SUBSET Pages /\ told'.cut \in SUBSET Pages
      BY <1>0, <1>2, <1>7 DEF Tolds
    <2>3. told' = [strips |-> told'.strips, lost |-> told'.lost, cut |-> told'.cut]
      BY <1>0, <1>6 DEF Tolds
    <2> QED  BY <2>1, <2>2, <2>3 DEF Tolds
  <1>9. told'.strips[p] = n /\ \A x \in Pages : x # p => told'.strips[x] = told.strips[x]
    BY <1>0, <1>2, <1>7 DEF Tolds
  <1>10. /\ ToldInv(told, prod) /\ LineCore(Line, told, prod) /\ LastShort(Line, told, prod)
         /\ ~ComingOf(prod) /\ Line = Sent
    BY <1>1 DEF OrderInv, ComingOf, Line, LineOf
  <1> HIDE DEF p
  <1>11. \A x \in 1 .. prod.page : x \in Pages
    BY <1>0 DEF Pages
  <1>12. Grows(told, prod, told', prod')
    BY <1>2, <1>5, <1>7, <1>9, <1>1, <1>11 DEF Grows, Untold
  <1>13. ToldInv(told', prod')
    <2>1. told'.lost \subseteq 1 .. p /\ told'.cut \subseteq 1 .. p
      BY <1>2, <1>7, <1>10 DEF ToldInv
    <2>2. \A x \in Pages : x > p => told'.strips[x] = 0
      <3> TAKE x \in Pages
      <3>1. x \in Nat
        BY <1>0 DEF Pages
      <3>2. x > p => x # p /\ x > prod.page
        BY <1>0, <1>2, <3>1
      <3> QED  BY <1>9, <1>10, <3>2 DEF ToldInv
    <2>3. told'.strips[p] = 0 + n
      BY <1>0, <1>9
    <2> QED  BY <1>0, <1>2, <1>5, <1>8, <1>9, <2>1, <2>2, <2>3 DEF ToldInv, Untold
  <1>14. LineCore(Sent, told', prod')
    BY <1>0, <1>2, <1>5, <1>10, <1>12, CoreGrows
  <1>15. /\ \A i \in 1 .. Len(Sent) : Makes(Sent[i], told') => Sent[i].page < p
         /\ Sent # << >> => ~Short(Sent[Len(Sent)], told') /\ Sent[Len(Sent)].id # "endJob"
    <2>1. /\ \A i \in 1 .. Len(Sent) : Makes(Sent[i], told') =>
               Sent[i].page <= prod.page /\ Sent[i].page \in Nat
          /\ Sent # << >> => ~Short(Sent[Len(Sent)], told') /\ Sent[Len(Sent)].id # "endJob"
      BY <1>0, <1>1, <1>2, <1>5, <1>10, <1>12, NoneComing
    <2> QED  BY <1>0, <1>2, <2>1
  <1>16. ComingOf(prod') /\ NextOf(prod') = b
    BY <1>0, <1>5 DEF ComingOf, NextOf
  <1>17. Sent' = IF HasRoom THEN Append(Sent, a) ELSE Sent
    <2>1. Msg("startPage", p) \in Messages /\ Brief(Msg("startPage", p)) = a
      BY <1>2, MessagesMade, BriefMade
    <2> QED  BY <1>1, <2>1, SentPut DEF p
  <1>18. Line' = Append(Sent', b)
    BY <1>16 DEF Line, LineOf
  <1>19. InLine(b, told', prod')
    <2>1. b.id = "send" /\ b.page = p /\ b.row = 0 /\ ~Makes(b, told')
      BY DEF Makes
    <2> QED  BY <1>0, <1>2, <1>5, <1>9, <2>1 DEF InLine, Paged
  <1>20. CASE HasRoom
    <2>1. InLine(a, told', prod')
      <3>1. a.id = "startPage" /\ a.page = p
        OBVIOUS
      <3>2. p \notin told'.lost
        BY <1>0, <1>2, <1>7, <1>10, <1>20 DEF ToldInv
      <3> QED  BY <1>0, <1>2, <1>5, <1>9, <3>1, <3>2 DEF InLine, Paged, Untold
    <2>2. LineCore(Append(Sent, a), told', prod')
      <3>1. a.id = "startPage" /\ a.page = p /\ \A x : Behind(x, a, told')
        BY DEF Behind
      <3> HIDE DEF a
      <3> QED  BY <1>0, <1>3, <1>14, <1>15, <2>1, <3>1, CoreAppend
    <2> DEFINE M == Append(Sent, a)
    <2>3. M \in Seq(Entries) /\ M # << >> /\ M[Len(M)] = a
      BY <1>0, <1>3, AppendParts
    <2>4. Behind(a, b, told') /\ Continues(a, b) /\ a.id # "endJob" /\ ~Makes(b, told')
      BY DEF Behind, Continues, Makes
    <2> HIDE DEF M, a, b
    <2>5. LineCore(Append(M, b), told', prod')
      BY <1>3, <1>19, <2>2, <2>3, <2>4, CoreAppend DEF M
    <2>6. Line' = Append(M, b)
      BY <1>17, <1>18, <1>20 DEF M
    <2>7. Moves(Sent, told, prod, Append(M, b), told', prod')
      <3>1. a.id = "startPage" /\ a.page = p /\ b.id = "send"
        BY DEF a, b
      <3>2. Fresh(p, told, prod) /\ Makes(a, told')
        BY <1>0, <1>2, <3>1 DEF Fresh, Makes
      <3>3. \A x \in 1 .. prod'.page : Fresh(x, told, prod) => a.page = x
        BY <1>2, <1>5, <1>22, <3>1 DEF Fresh
      <3> QED  BY <1>0, <1>3, <1>12, <3>1, <3>2, <3>3, MoveTwo DEF M
    <2> QED  BY <1>1, <1>10, <1>13, <1>16, <2>5, <2>6, <2>7 DEF OrderInv, LastShort
  <1>21. CASE ~HasRoom
    <2>1. Line' = Append(Sent, b) /\ p \in told'.lost
      BY <1>7, <1>17, <1>18, <1>21
    <2>2. b.id = "send" /\ b.page = p /\ ~Makes(b, told') /\ \A x : Behind(x, b, told')
      BY <2>1 DEF Behind, Makes
    <2> HIDE DEF b
    <2>3. LineCore(Append(Sent, b), told', prod')
      BY <1>0, <1>3, <1>14, <1>15, <1>19, <2>2, CoreAppend
    <2>4. Moves(Sent, told, prod, Append(Sent, b), told', prod')
      <3>1. \A x \in 1 .. prod'.page : Fresh(x, told, prod) => x \in told'.lost
        BY <1>2, <1>5, <1>22, <2>1 DEF Fresh
      <3> QED  BY <1>0, <1>3, <1>12, <2>1, <2>2, <3>1, MovePut
    <2> QED  BY <1>1, <1>10, <1>13, <1>16, <2>1, <2>3, <2>4 DEF OrderInv, LastShort
  <1> QED  BY <1>20, <1>21

(* A page that never comes to its stripes. *)
LEMMA PageAdded ==
  ASSUME TypeOK, OrderInv, NewPage, UNCHANGED send,
         prod'.page = prod.page + 1, prod'.pc \in {"idle", "end", "endPage"},
         NEW X \in {{}, {prod.page + 1}}, prod'.pc = "endPage" => X = {},
         told' = [told EXCEPT !.lost = @ \cup X]
  PROVE  /\ Grows(told, prod, told', prod') /\ ToldInv(told', prod')
         /\ LineCore(Sent, told', prod') /\ LastShort(Sent, told', prod')
         /\ prod.page + 1 \in Pages /\ prod.page + 1 \in 1 .. prod'.page
         /\ (\A i \in 1 .. Len(Sent) : Makes(Sent[i], told') => Sent[i].page < prod.page + 1)
         /\ (Sent # << >> => ~Short(Sent[Len(Sent)], told') /\ Sent[Len(Sent)].id # "endJob")
         /\ Fresh(prod.page + 1, told, prod) /\ told'.strips[prod.page + 1] = 0
         /\ (\A x \in 1 .. prod'.page : Fresh(x, told, prod) => x = prod.page + 1)
         /\ prod.page + 1 \notin told.lost /\ told'.lost = told.lost \cup X
         /\ Line = Sent /\ Line' = Sent' /\ send'.pc # "ended" /\ Sent \in Seq(Entries)
         /\ prod.page \in 0 .. MaxPages /\ prod'.page \in 0 .. MaxPages
  <1> DEFINE p == prod.page + 1
  <1>1. /\ prod \in Prods /\ told \in Tolds
        /\ prod.page \in Nat /\ prod.page \in 0 .. MaxPages /\ MaxPages \in Nat
        /\ Sent \in Seq(Entries) /\ prod.pc = "idle" /\ prod.page < MaxPages
    BY OrderFacts DEF NewPage
  <1>2. /\ p \in Nat /\ p \in Pages /\ p \in 1 .. p /\ p \in 0 .. MaxPages /\ prod.page < p
        /\ prod.page <= p /\ p > prod.page
        /\ (\A x \in Pages : x > p => x > prod.page)
        /\ (\A y \in 1 .. prod.page : y # p /\ y \in 1 .. p /\ y \in Pages)
        /\ (\A z \in 1 .. p : z > prod.page => z = p)
    BY <1>1 DEF Pages
  <1>3. \A x : ~Untold(x, told, prod)
    BY <1>1 DEF Untold
  <1>4. /\ told'.strips = told.strips /\ told'.cut = told.cut /\ told'.lost = told.lost \cup X
        /\ told' \in Tolds
    BY <1>1, <1>2 DEF Tolds
  <1>5. /\ ToldInv(told, prod) /\ LineCore(Line, told, prod) /\ LastShort(Line, told, prod)
        /\ ~ComingOf(prod) /\ Line = Sent /\ send.pc # "ended"
    BY <1>1 DEF OrderInv, ComingOf, Line, LineOf
  <1>6. prod'.page = p /\ X \subseteq {p}
    OBVIOUS
  <1>7. ~ComingOf(prod') /\ Line' = Sent'
    BY DEF ComingOf, Line, LineOf
  <1>8. told.strips[p] = 0 /\ p \notin told.lost
    BY <1>1, <1>2, <1>5 DEF ToldInv
  <1> HIDE DEF p
  <1>9. Grows(told, prod, told', prod')
    BY <1>1, <1>2, <1>4, <1>6 DEF Grows, Untold
  <1>10. ToldInv(told', prod')
    <2>1. told'.lost \subseteq 1 .. p /\ told'.cut \subseteq 1 .. p
      BY <1>2, <1>4, <1>5, <1>6 DEF ToldInv
    <2>2. \A x \in Pages : x > p => told'.strips[x] = 0
      BY <1>2, <1>4, <1>5 DEF ToldInv
    <2>3. Untold(p, told', prod') => p \notin told'.lost
      BY <1>4, <1>8 DEF Untold
    <2> QED  BY <1>2, <1>4, <1>6, <2>1, <2>2, <2>3 DEF ToldInv
  <1>11. LineCore(Sent, told', prod')
    BY <1>1, <1>2, <1>5, <1>6, <1>9, CoreGrows
  <1>12. /\ (\A i \in 1 .. Len(Sent) : Makes(Sent[i], told') => Sent[i].page < p)
         /\ (Sent # << >> => ~Short(Sent[Len(Sent)], told') /\ Sent[Len(Sent)].id # "endJob")
    <2>1. /\ (\A i \in 1 .. Len(Sent) : Makes(Sent[i], told') =>
               Sent[i].page <= prod.page /\ Sent[i].page \in Nat)
          /\ (Sent # << >> => ~Short(Sent[Len(Sent)], told') /\ Sent[Len(Sent)].id # "endJob")
      BY <1>1, <1>2, <1>5, <1>6, <1>9, NoneComing
    <2>2. \A k \in Nat : k <= prod.page => k < p
      BY <1>1, <1>2
    <2> QED  BY <2>1, <2>2
  <1>13. LastShort(Sent, told', prod')
    BY <1>12 DEF LastShort
  <1>14. /\ Fresh(p, told, prod)
         /\ \A x \in 1 .. prod'.page : Fresh(x, told, prod) => x = p
    BY <1>2, <1>3, <1>6 DEF Fresh
  <1> QED  BY <1>1, <1>2, <1>4, <1>5, <1>6, <1>7, <1>8, <1>9, <1>10, <1>11, <1>12, <1>13, <1>14
           DEF p

(* A page is given up for want of memory. *)
LEMMA LineGivesUp ==
  ASSUME TypeOK, OrderInv, GivesUp
  PROVE  OrderInv' /\ Moves(Line, told, prod, Line', told', prod')
  <1>1. /\ NewPage /\ UNCHANGED <<queue, send>>
        /\ prod' = [prod EXCEPT !.page = @ + 1, !.back = TRUE]
        /\ told' = [told EXCEPT !.lost = @ \cup {prod.page + 1}]
    BY DEF GivesUp, AbandonPage
  <1>2. prod'.page = prod.page + 1 /\ prod'.pc = "idle"
    BY <1>1, OrderFacts DEF Prods, NewPage
  <1>3. /\ Grows(told, prod, told', prod') /\ ToldInv(told', prod')
        /\ LineCore(Sent, told', prod') /\ LastShort(Sent, told', prod')
        /\ (\A x \in 1 .. prod'.page : Fresh(x, told, prod) => x = prod.page + 1)
        /\ told'.lost = told.lost \cup {prod.page + 1}
        /\ Line = Sent /\ Line' = Sent' /\ send'.pc # "ended" /\ Sent \in Seq(Entries)
    BY <1>1, <1>2, PageAdded
  <1>4. Sent' = Sent
    BY <1>1, SentSame
  <1>5. Moves(Line, told, prod, Line', told', prod')
    BY <1>3, <1>4, MoveNone
  <1> QED  BY <1>3, <1>4, <1>5 DEF OrderInv

(* A page breaks before it is started. *)
LEMMA LineBreak ==
  ASSUME TypeOK, OrderInv, NEW n \in 0 .. (MaxSendBuffs - 1), BreakPage(n), UNCHANGED told
  PROVE  OrderInv' /\ Moves(Line, told, prod, Line', told', prod')
  <1>1. /\ NewPage /\ UNCHANGED <<queue, send>>
        /\ prod' = [prod EXCEPT !.pc = "endPage", !.page = prod.page + 1, !.frees = n > 0]
    BY DEF BreakPage
  <1>2. prod'.page = prod.page + 1 /\ prod'.pc = "endPage"
    BY <1>1, OrderFacts DEF Prods, NewPage
  <1>3. told' = [told EXCEPT !.lost = @ \cup {}]
    BY OrderFacts DEF Tolds
  <1>4. /\ Grows(told, prod, told', prod') /\ ToldInv(told', prod')
        /\ LineCore(Sent, told', prod') /\ LastShort(Sent, told', prod')
        /\ (\A x \in 1 .. prod'.page : Fresh(x, told, prod) => x = prod.page + 1)
        /\ told'.strips[prod.page + 1] = 0
        /\ Line = Sent /\ Line' = Sent' /\ send'.pc # "ended" /\ Sent \in Seq(Entries)
    BY <1>1, <1>2, <1>3, PageAdded
  <1>5. Sent' = Sent
    BY <1>1, SentSame
  <1>6. Untold(prod.page + 1, told', prod')
    BY <1>2, <1>4 DEF Untold
  <1>7. Moves(Line, told, prod, Line', told', prod')
    BY <1>4, <1>5, <1>6, MoveNone
  <1> QED  BY <1>4, <1>5, <1>7 DEF OrderInv

(* A blank page: an end of page without a start. *)
LEMMA LineSendsBlank ==
  ASSUME TypeOK, OrderInv, SendsBlank
  PROVE  OrderInv' /\ Moves(Line, told, prod, Line', told', prod')
  <1> DEFINE p == prod.page + 1
             e == [id |-> "endPage", page |-> p, row |-> 0]
             X == IF HasRoom THEN {} ELSE {p}
  <1>1. /\ NewPage /\ UNCHANGED send /\ Put(EndPageMsg(p, FALSE))
        /\ prod' = [prod EXCEPT !.page = @ + 1, !.back = FALSE,
                                !.pc = IF prod.page = 0 THEN "end" ELSE "idle"]
        /\ told' = [told EXCEPT !.lost = @ \cup X]
    BY DEF SendsBlank, BlankPage, Unheard
  <1>2. prod'.page = p /\ prod'.pc \in {"idle", "end"}
    BY <1>1, OrderFacts DEF Prods, NewPage
  <1>3. X \in {{}, {p}}
    OBVIOUS
  <1>4. /\ Grows(told, prod, told', prod') /\ ToldInv(told', prod')
        /\ LineCore(Sent, told', prod') /\ LastShort(Sent, told', prod')
        /\ p \in Pages /\ p \in 1 .. prod'.page
        /\ (\A i \in 1 .. Len(Sent) : Makes(Sent[i], told') => Sent[i].page < p)
        /\ (Sent # << >> => ~Short(Sent[Len(Sent)], told') /\ Sent[Len(Sent)].id # "endJob")
        /\ Fresh(p, told, prod) /\ told'.strips[p] = 0
        /\ (\A x \in 1 .. prod'.page : Fresh(x, told, prod) => x = p)
        /\ p \notin told.lost /\ told'.lost = told.lost \cup X
        /\ Line = Sent /\ Line' = Sent' /\ send'.pc # "ended" /\ Sent \in Seq(Entries)
    <2> HIDE DEF X
    <2> QED  BY <1>1, <1>2, <1>3, PageAdded
  <1>5. e \in Entries
    BY <1>4, OrderFacts DEF Entries, Kinds, Pages
  <1>6. Sent' = IF HasRoom THEN Append(Sent, e) ELSE Sent
    <2>1. EndPageMsg(p, FALSE) \in Messages /\ Brief(EndPageMsg(p, FALSE)) = e
      BY <1>4, MessagesMade, BriefMade
    <2> QED  BY <1>1, <2>1, SentPut
  <1>7. e.id = "endPage" /\ e.page = p /\ \A x : Behind(x, e, told')
    BY DEF Behind
  <1> HIDE DEF e, p
  <1>8. CASE HasRoom
    <2>1. InLine(e, told', prod')
      BY <1>2, <1>4, <1>7, <1>8 DEF InLine, Paged, Untold
    <2>2. LineCore(Append(Sent, e), told', prod')
      BY <1>4, <1>5, <1>7, <2>1, CoreAppend
    <2>3. Makes(e, told') /\ ~Short(e, told')
      BY <1>4, <1>7 DEF Makes, Short
    <2>4. LastShort(Append(Sent, e), told', prod')
      <3>1. Append(Sent, e)[Len(Append(Sent, e))] = e
        BY <1>4, <1>5, AppendParts
      <3> QED  BY <2>3, <3>1 DEF LastShort
    <2>5. Moves(Sent, told, prod, Append(Sent, e), told', prod')
      BY <1>4, <1>5, <1>7, <2>3, MovePut
    <2> QED  BY <1>4, <1>6, <1>8, <2>2, <2>4, <2>5 DEF OrderInv
  <1>9. CASE ~HasRoom
    <2>1. Moves(Sent, told, prod, Sent, told', prod')
      BY <1>4, <1>9, MoveNone
    <2> QED  BY <1>4, <1>6, <1>9, <2>1 DEF OrderInv
  <1> QED  BY <1>8, <1>9

(* A page that ends. *)
LEMMA LineEnds ==
  ASSUME TypeOK, OrderInv, Ends
  PROVE  OrderInv' /\ Moves(Line, told, prod, Line', told', prod')
  <1> DEFINE p == prod.page
             e == [id |-> "endPage", page |-> p, row |-> 0]
             X == IF HasRoom \/ told.strips[p] > 0 THEN {} ELSE {p}
  <1>1. /\ prod.pc = "endPage" /\ UNCHANGED send /\ Put(EndPageMsg(p, prod.frees))
        /\ prod' = [prod EXCEPT !.pc = "idle", !.back = TRUE, !.left = 0, !.frees = FALSE]
    BY DEF Ends, EndPage
  <1>2. /\ prod \in Prods /\ told \in Tolds
        /\ p \in Nat /\ p \in 0 .. MaxPages /\ MaxPages \in Nat
        /\ Sent \in Seq(Entries) /\ prod.frees \in BOOLEAN
    BY OrderFacts DEF Prods
  <1>3. prod'.page = p /\ prod'.pc = "idle"
    BY <1>1, <1>2 DEF Prods
  <1>4. /\ ToldInv(told, prod) /\ LineCore(Line, told, prod) /\ LastShort(Line, told, prod)
        /\ ~ComingOf(prod) /\ Line = Sent /\ send.pc # "ended"
        /\ ~ComingOf(prod') /\ Line' = Sent'
    BY <1>1, <1>3 DEF OrderInv, ComingOf, Line, LineOf
  <1>5. p \in Pages /\ p \in 1 .. p /\ 1 .. p \subseteq Pages
    BY <1>1, <1>2, <1>4 DEF ToldInv, Pages
  <1>6. told.strips[p] \in Nat
    <2>1. told.strips[p] \in {0} \cup Stripes
      BY <1>2, <1>5 DEF Tolds
    <2>2. \A x \in {0} \cup Stripes : x \in Nat
      BY PclAssumption
    <2> QED  BY <2>1, <2>2
  <1>7. told' = [told EXCEPT !.lost = @ \cup X]
    <2>1. CASE told.strips[p] > 0
      <3>1. told' = told
        BY <2>1 DEF Ends
      <3> QED  BY <1>2, <2>1, <3>1 DEF Tolds
    <2>2. CASE ~(told.strips[p] > 0)
      BY <2>2 DEF Ends, Unheard
    <2> QED  BY <2>1, <2>2
  <1>8. X \subseteq {p} /\ (X # {} => Untold(p, told, prod) /\ ~HasRoom)
        /\ (Untold(p, told, prod) => X = IF HasRoom THEN {} ELSE {p})
    BY <1>1, <1>6 DEF Untold
  <1> HIDE DEF X
  <1>9. /\ told'.strips = told.strips /\ told'.cut = told.cut /\ told'.lost = told.lost \cup X
        /\ told' \in Tolds
    BY <1>2, <1>5, <1>7, <1>8 DEF Tolds
  <1>10. e \in Entries
    BY <1>2 DEF Entries, Kinds
  <1>11. Sent' = IF HasRoom THEN Append(Sent, e) ELSE Sent
    <2>1. EndPageMsg(p, prod.frees) \in Messages /\ Brief(EndPageMsg(p, prod.frees)) = e
      BY <1>2, <1>5, MessagesMade, BriefMade
    <2> QED  BY <1>1, <2>1, SentPut
  <1>12. e.id = "endPage" /\ e.page = p /\ (\A x : Behind(x, e, told')) /\ ~Short(e, told')
    BY DEF Behind, Short
  <1> HIDE DEF e, p
  <1>13. \A x : ~Untold(x, told', prod')
    BY <1>3 DEF Untold
  <1>14. Grows(told, prod, told', prod')
    <2>1. \A x \in 1 .. p : x \in told'.lost => x \in told.lost \/ Untold(x, told, prod)
      BY <1>8, <1>9
    <2>2. p <= p /\ prod.page = p
      BY <1>2 DEF p
    <2> QED  BY <1>1, <1>3, <1>9, <1>13, <2>1, <2>2 DEF Grows
  <1>15. ToldInv(told', prod')
    <2>1. told'.lost \subseteq 1 .. p /\ told'.cut \subseteq 1 .. p
      BY <1>4, <1>5, <1>8, <1>9 DEF ToldInv, p
    <2> QED  BY <1>3, <1>4, <1>9, <1>13, <2>1 DEF ToldInv, p
  <1>16. LineCore(Sent, told', prod')
    BY <1>2, <1>3, <1>4, <1>14, CoreGrows DEF p
  <1>17. /\ (\A i \in 1 .. Len(Sent) : Makes(Sent[i], told') =>
               Sent[i].page <= p /\ Sent[i].page \in Nat /\ ~Untold(Sent[i].page, told, prod))
         /\ (Sent # << >> => ~Short(Sent[Len(Sent)], told') /\ Sent[Len(Sent)].id # "endJob")
    BY <1>1, <1>2, <1>3, <1>4, <1>14, NoneComing DEF p
  <1>18. \A x \in 1 .. prod'.page : Fresh(x, told, prod) => x = p /\ Untold(p, told, prod)
    <2>1. \A x \in 1 .. p : ~(x > p)
      BY <1>2
    <2> QED  BY <1>3, <2>1 DEF Fresh, Untold, p
  <1>19. CASE HasRoom
    <2>1. Makes(e, told') => Untold(p, told, prod)
      BY <1>1, <1>9, <1>12 DEF Makes, Untold, p
    <2>2. InLine(e, told', prod')
      <3>1. Makes(e, told') => p \notin told'.lost
        <4>1. X = {}
          BY <1>8, <1>19
        <4> QED  BY <1>4, <1>9, <2>1, <4>1 DEF ToldInv, p
      <3> QED  BY <1>3, <1>5, <1>12, <1>13, <3>1 DEF InLine, Paged
    <2>3. Makes(e, told') =>
            \A i \in 1 .. Len(Sent) : Makes(Sent[i], told') => Sent[i].page < e.page
      <3> SUFFICES ASSUME Untold(p, told, prod), NEW i \in 1 .. Len(Sent), Makes(Sent[i], told')
                   PROVE  Sent[i].page < p
        BY <1>12, <2>1
      <3>1. Sent[i].page # p /\ Sent[i].page <= p /\ Sent[i].page \in Nat
        BY <1>17
      <3> QED  BY <1>2, <3>1
    <2>4. LineCore(Append(Sent, e), told', prod')
      BY <1>2, <1>10, <1>12, <1>16, <1>17, <2>2, <2>3, CoreAppend
    <2>5. LastShort(Append(Sent, e), told', prod')
      <3>1. Append(Sent, e)[Len(Append(Sent, e))] = e
        BY <1>2, <1>10, AppendParts
      <3> QED  BY <1>12, <3>1 DEF LastShort
    <2>6. Moves(Sent, told, prod, Append(Sent, e), told', prod')
      <3>1. Untold(p, told, prod) => Makes(e, told')
        BY <1>9, <1>12 DEF Makes, Untold
      <3>2. Makes(e, told') => Fresh(e.page, told, prod)
        BY <1>12, <2>1 DEF Fresh
      <3>3. \A x \in 1 .. prod'.page : Fresh(x, told, prod) => Makes(e, told') /\ e.page = x
        BY <1>12, <1>18, <3>1
      <3> QED  BY <1>2, <1>10, <1>12, <1>14, <3>2, <3>3, MovePut
    <2> QED  BY <1>1, <1>4, <1>11, <1>15, <1>19, <2>4, <2>5, <2>6 DEF OrderInv
  <1>20. CASE ~HasRoom
    <2>1. LastShort(Sent, told', prod')
      BY <1>17 DEF LastShort
    <2>2. Moves(Sent, told, prod, Sent, told', prod')
      <3>1. \A x \in 1 .. prod'.page : Fresh(x, told, prod) => x \in told'.lost
        BY <1>8, <1>9, <1>18, <1>20
      <3> QED  BY <1>2, <1>14, <3>1, MoveNone
    <2> QED  BY <1>1, <1>4, <1>11, <1>15, <1>16, <1>20, <2>1, <2>2 DEF OrderInv
  <1> QED  BY <1>19, <1>20

(* The stripe that was being made is queued. *)
LEMMA ComingFacts ==
  ASSUME TypeOK, OrderInv, prod.pc \in {"fill", "put"}
  PROVE  /\ prod \in Prods /\ told \in Tolds /\ MaxPages \in Nat
         /\ prod.page \in Pages /\ prod.page \in Nat /\ prod.row \in Nat /\ prod.left \in Nat
         /\ prod.left > 0 /\ ~prod.failed /\ prod.page \in 0 .. MaxPages
         /\ prod.page \in 1 .. prod.page /\ 1 .. prod.page \subseteq Pages
         /\ told.strips[prod.page] = prod.row + prod.left /\ told.strips[prod.page] > 0
         /\ Sent \in Seq(Entries) /\ NextOf(prod) \in Entries
         /\ Line = Append(Sent, NextOf(prod)) /\ Line \in Seq(Entries)
         /\ ToldInv(told, prod) /\ LineCore(Line, told, prod)
         /\ send.pc # "ended"
  <1>1. /\ prod \in Prods /\ told \in Tolds
        /\ prod.page \in Nat /\ prod.row \in Nat /\ prod.left \in Nat /\ MaxPages \in Nat
        /\ prod.page \in 0 .. MaxPages
        /\ Sent \in Seq(Entries) /\ Line \in Seq(Entries)
        /\ ComingOf(prod) => NextOf(prod) \in Entries
    BY OrderFacts
  <1>2. /\ prod.page \in Pages /\ ComingOf(prod) /\ told.strips[prod.page] > 0
        /\ told.strips[prod.page] = prod.row + prod.left
        /\ ToldInv(told, prod) /\ LineCore(Line, told, prod)
        /\ send.pc # "ended"
    BY DEF OrderInv, ToldInv
  <1>3. prod.page \in 1 .. prod.page /\ 1 .. prod.page \subseteq Pages
    BY <1>1, <1>2 DEF Pages
  <1>4. prod.left > 0 /\ ~prod.failed /\ Line = Append(Sent, NextOf(prod))
    BY <1>2 DEF ComingOf, Line, LineOf
  <1> QED  BY <1>1, <1>2, <1>3, <1>4

(* A stripe that does not come to the queue. *)
LEMMA StripeDropped ==
  ASSUME TypeOK, OrderInv, prod.pc \in {"fill", "put"}, UNCHANGED <<queue, send>>,
         told' = [told EXCEPT !.cut = @ \cup {prod.page}],
         prod'.page = prod.page, ~ComingOf(prod'), prod'.pc \in {"loop", "endPage"},
         prod'.pc = "loop" => prod'.row + prod'.left = prod.row + prod.left
  PROVE  OrderInv' /\ Moves(Line, told, prod, Line', told', prod')
  <1> DEFINE p == prod.page
             n == NextOf(prod)
  <1>1. /\ prod \in Prods /\ told \in Tolds /\ MaxPages \in Nat
        /\ p \in Pages /\ p \in Nat /\ p \in 0 .. MaxPages
        /\ p \in 1 .. p /\ 1 .. p \subseteq Pages
        /\ told.strips[p] = prod.row + prod.left /\ told.strips[p] > 0
        /\ Sent \in Seq(Entries) /\ n \in Entries /\ Line = Append(Sent, n)
        /\ ToldInv(told, prod) /\ LineCore(Line, told, prod)
        /\ send.pc # "ended"
    BY ComingFacts
  <1>2. /\ told'.strips = told.strips /\ told'.cut = told.cut \cup {p} /\ told'.lost = told.lost
        /\ told' \in Tolds
    BY <1>1 DEF Tolds
  <1>3. n.id = "send" /\ n.page = p
    BY DEF NextOf
  <1>4. Line' = Sent
    BY SentSame DEF Line, LineOf
  <1> HIDE DEF n
  <1>5. (\A x : ~Untold(x, told', prod')) /\ prod'.page = p /\ prod.page = p /\ p <= p
    BY <1>1, <1>2 DEF Untold
  <1>6. Grows(told, prod, told', prod')
    <2> HIDE DEF p
    <2> QED  BY <1>2, <1>5 DEF Grows
  <1>7. ToldInv(told', prod')
    <2>1. told'.lost \subseteq 1 .. p /\ told'.cut \subseteq 1 .. p
      BY <1>1, <1>2 DEF ToldInv
    <2> HIDE DEF p
    <2> QED  BY <1>1, <1>2, <1>5, <2>1 DEF ToldInv
  <1>8. /\ LineCore(Sent, told, prod)
        /\ Sent # << >> => (Short(Sent[Len(Sent)], told) => Continues(Sent[Len(Sent)], n))
    BY <1>1, CoreFront
  <1>9. LineCore(Sent, told', prod')
    BY <1>1, <1>5, <1>6, <1>8, CoreGrows
  <1>10. LastShort(Sent, told', prod')
    <2> SUFFICES ASSUME Sent # << >>, Short(Sent[Len(Sent)], told') PROVE FALSE
      BY DEF LastShort
    <2>1. Short(Sent[Len(Sent)], told)
      BY <1>2 DEF Short
    <2>2. Sent[Len(Sent)].page = p
      BY <1>3, <1>8, <2>1 DEF Continues
    <2> QED  BY <1>2, <2>2 DEF Short
  <1>11. Moves(Line, told, prod, Sent, told', prod')
    <2>1. \A x \in 1 .. prod'.page : ~Fresh(x, told, prod)
      <3>1. \A x \in 1 .. p : ~(x > p)
        BY <1>1
      <3> QED  BY <1>5, <3>1 DEF Fresh, Untold
    <2> QED  BY <1>1, <1>2, <1>3, <1>6, <2>1, MoveDrop
  <1> QED  BY <1>1, <1>4, <1>7, <1>9, <1>10, <1>11 DEF OrderInv

(* The decoder fails in the middle of a page. *)
LEMMA LineFails ==
  ASSUME TypeOK, OrderInv, Fails
  PROVE  OrderInv' /\ Moves(Line, told, prod, Line', told', prod')
  <1>1. /\ prod.pc = "fill" /\ UNCHANGED <<queue, send>>
        /\ prod' = [prod EXCEPT !.pc = "endPage"]
        /\ told' = [told EXCEPT !.cut = @ \cup {prod.page}]
    BY DEF Fails, FillFails
  <1>2. prod'.page = prod.page /\ prod'.pc = "endPage"
    BY <1>1, ComingFacts DEF Prods
  <1>3. ~ComingOf(prod')
    BY <1>2 DEF ComingOf
  <1> QED  BY <1>1, <1>2, <1>3, StripeDropped

(* A stripe is queued, or met a full queue. *)
LEMMA LineSendsStrip ==
  ASSUME TypeOK, OrderInv, SendsStrip
  PROVE  OrderInv' /\ Moves(Line, told, prod, Line', told', prod')
  <1> DEFINE p == prod.page
             n == NextOf(prod)
             m == NextOf(prod')
  <1>1. /\ prod.pc = "put" /\ UNCHANGED send
        /\ Put(SendMsg(p, prod.index, prod.row, prod.late))
        /\ prod' = [prod EXCEPT !.pc = "loop", !.row = @ + 1, !.left = @ - 1,
                                !.index = (@ + 1) % MaxSendBuffs, !.failed = ~HasRoom]
        /\ told' = [told EXCEPT !.cut = @ \cup Unheard(p)]
    BY DEF SendsStrip, SendStripe
  <1>2. /\ prod \in Prods /\ told \in Tolds /\ MaxPages \in Nat
        /\ p \in Pages /\ p \in Nat /\ p \in 0 .. MaxPages
        /\ prod.row \in Nat /\ prod.left \in Nat /\ prod.left > 0
        /\ p \in 1 .. p /\ 1 .. p \subseteq Pages
        /\ told.strips[p] = prod.row + prod.left /\ told.strips[p] > 0
        /\ Sent \in Seq(Entries) /\ n \in Entries /\ Line = Append(Sent, n)
        /\ Line \in Seq(Entries)
        /\ ToldInv(told, prod) /\ LineCore(Line, told, prod)
        /\ send.pc # "ended"
    BY <1>1, ComingFacts
  <1>3. /\ prod'.page = p /\ prod'.pc = "loop" /\ prod'.row = prod.row + 1
        /\ prod'.left = prod.left - 1 /\ prod'.failed = ~HasRoom
    BY <1>1, <1>2 DEF Prods
  <1>4. prod'.row + prod'.left = prod.row + prod.left
    <2>1. prod'.row = prod.row + 1 /\ prod'.left = prod.left - 1
      BY <1>3
    <2>2. prod.row \in Nat /\ prod.left \in Nat
      BY <1>2
    <2>3. \A a, b \in Nat : (a + 1) + (b - 1) = a + b
      OBVIOUS
    <2> QED  BY <2>1, <2>2, <2>3
  <1>5. CASE ~HasRoom
    <2>1. UNCHANGED queue /\ told' = [told EXCEPT !.cut = @ \cup {prod.page}] /\ ~ComingOf(prod')
      BY <1>1, <1>3, <1>5 DEF Put, Unheard, ComingOf
    <2> QED  BY <1>1, <1>3, <1>4, <2>1, StripeDropped
  <1>6. CASE HasRoom
    <2>1. told' = told
      BY <1>1, <1>2, <1>6 DEF Tolds, Unheard
    <2>2. Sent' = Line
      <3>1. SendMsg(p, prod.index, prod.row, prod.late) \in Messages
            /\ Brief(SendMsg(p, prod.index, prod.row, prod.late)) = n
        <4>1. prod.index \in Indexes /\ prod.late \in BOOLEAN
          BY <1>2 DEF Prods
        <4>2. SendMsg(p, prod.index, prod.row, prod.late) \in Messages
          BY <1>2, <4>1 DEF Messages, SendMsg
        <4> QED  BY <4>2, BriefMade DEF NextOf
      <3> QED  BY <1>1, <1>2, <1>6, <3>1, SentPut
    <2>3. n.id = "send" /\ n.page = p /\ n.row = prod.row
          /\ m = [id |-> "send", page |-> p, row |-> prod.row + 1]
      BY <1>3 DEF NextOf
    <2>4. m.id = "send" /\ m.page = p /\ m.row = prod.row + 1 /\ m \in Entries
      BY <1>2, <2>3 DEF Entries, Kinds
    <2>5. Line # << >> /\ Line[Len(Line)] = n
      BY <1>2, AppendParts
    <2> HIDE DEF n, m
    <2>6. (\A x : ~Untold(x, told', prod') /\ ~Untold(x, told, prod)) /\ prod.page = p /\ p <= p
      BY <1>1, <1>2, <1>3 DEF Untold
    <2>7. Grows(told, prod, told', prod')
      <3> HIDE DEF p
      <3> QED  BY <1>1, <1>3, <2>1, <2>6 DEF Grows
    <2>8. ToldInv(told', prod')
      <3> HIDE DEF p
      <3> QED  BY <1>2, <1>3, <1>4, <2>1, <2>6 DEF ToldInv
    <2>9. LineCore(Line, told', prod')
      BY <1>2, <1>3, <2>7, CoreGrows
    <2>10. \A x \in 1 .. prod'.page : ~Fresh(x, told, prod)
      <3>1. \A x \in 1 .. p : ~(x > p)
        BY <1>2
      <3> QED  BY <1>3, <2>6, <3>1 DEF Fresh
    <2>11. CASE prod.left - 1 > 0
      <3>1. ComingOf(prod') /\ Line' = Append(Line, m)
        <4>1. ComingOf(prod')
          BY <1>3, <1>6, <2>11 DEF ComingOf
        <4> QED  BY <2>2, <4>1 DEF Line, LineOf, m
      <3>2. ~Makes(m, told')
        BY <2>4 DEF Makes
      <3>3. InLine(m, told', prod')
        <4>1. prod.row + 1 < told'.strips[p]
          BY <1>2, <2>1, <2>11
        <4> QED  BY <1>2, <1>3, <2>4, <3>2, <4>1 DEF InLine, Paged
      <3>4. Continues(n, m)
        BY <2>3, <2>4 DEF Continues
      <3>5. LineCore(Append(Line, m), told', prod')
        BY <1>2, <2>3, <2>4, <2>5, <2>9, <3>2, <3>3, <3>4, CoreAppend DEF Behind
      <3>6. Moves(Line, told, prod, Append(Line, m), told', prod')
        BY <1>2, <2>4, <2>5, <2>7, <2>10, <3>2, MovePut
      <3> QED  BY <1>1, <1>2, <2>8, <3>1, <3>5, <3>6 DEF OrderInv, LastShort
    <2>12. CASE ~(prod.left - 1 > 0)
      <3>1. ~ComingOf(prod') /\ Line' = Line
        <4>1. ~ComingOf(prod')
          BY <1>3, <2>12 DEF ComingOf
        <4> QED  BY <2>2, <4>1 DEF Line, LineOf
      <3>2. ~Short(n, told')
        <4>1. ~(prod.row + 1 < told'.strips[p])
          BY <1>2, <2>1, <2>12
        <4> QED  BY <2>3, <4>1 DEF Short
      <3>3. LastShort(Line, told', prod')
        BY <2>5, <3>2 DEF LastShort
      <3>4. Moves(Line, told, prod, Line, told', prod')
        BY <1>2, <2>7, <2>10, MoveNone
      <3> QED  BY <1>1, <1>2, <2>8, <2>9, <3>1, <3>3, <3>4 DEF OrderInv
    <2> QED  BY <2>11, <2>12
  <1> QED  BY <1>5, <1>6

(* The end of the job is queued. *)
LEMMA LineEndJob ==
  ASSUME TypeOK, OrderInv, EndJob, UNCHANGED told
  PROVE  OrderInv' /\ Moves(Line, told, prod, Line', told', prod')
  <1> DEFINE e == [id |-> "endJob", page |-> 0, row |-> 0]
  <1>1. /\ prod.pc \in {"end", "idle"} /\ UNCHANGED send /\ Put(Msg("endJob", 0))
        /\ prod' = [prod EXCEPT !.pc = "join"]
    BY DEF EndJob
  <1>2. /\ prod \in Prods /\ told \in Tolds
        /\ prod.page \in Nat /\ prod.page \in 0 .. MaxPages /\ MaxPages \in Nat
        /\ Sent \in Seq(Entries)
    BY OrderFacts
  <1>3. prod'.page = prod.page /\ prod'.pc = "join"
    BY <1>1, <1>2 DEF Prods
  <1>4. /\ ToldInv(told, prod) /\ LineCore(Line, told, prod) /\ LastShort(Line, told, prod)
        /\ ~ComingOf(prod) /\ Line = Sent /\ send.pc # "ended"
        /\ ~ComingOf(prod') /\ Line' = Sent'
    BY <1>1, <1>3 DEF OrderInv, ComingOf, Line, LineOf
  <1>5. e \in Entries
    BY <1>2 DEF Entries, Kinds
  <1>6. Sent' = IF HasRoom THEN Append(Sent, e) ELSE Sent
    <2>1. Msg("endJob", 0) \in Messages /\ Brief(Msg("endJob", 0)) = e
      BY MessagesMade, BriefMade
    <2> QED  BY <1>1, <2>1, SentPut
  <1>7. /\ e.id = "endJob" /\ (\A x : Behind(x, e, told)) /\ ~Short(e, told) /\ ~Makes(e, told)
    BY DEF Behind, Short, Makes
  <1> HIDE DEF e
  <1>8. (\A x : ~Untold(x, told, prod') /\ ~Untold(x, told, prod)) /\ prod.page <= prod.page
    BY <1>1, <1>2, <1>3 DEF Untold
  <1>9. Grows(told, prod, told, prod')
    BY <1>1, <1>3, <1>8 DEF Grows
  <1>10. ToldInv(told, prod')
    BY <1>3, <1>4, <1>8 DEF ToldInv
  <1>11. LineCore(Sent, told, prod')
    BY <1>2, <1>3, <1>4, <1>9, CoreGrows
  <1>12. Sent # << >> => ~Short(Sent[Len(Sent)], told) /\ Sent[Len(Sent)].id # "endJob"
    BY <1>1, <1>2, <1>3, <1>4, <1>9, NoneComing
  <1>13. \A x \in 1 .. prod'.page : ~Fresh(x, told, prod)
    <2>1. \A x \in 1 .. prod.page : ~(x > prod.page)
      BY <1>2
    <2> QED  BY <1>3, <1>8, <2>1 DEF Fresh
  <1>14. CASE HasRoom
    <2>1. InLine(e, told, prod')
      BY <1>3, <1>7 DEF InLine, Paged
    <2>2. LineCore(Append(Sent, e), told, prod')
      BY <1>2, <1>5, <1>7, <1>11, <1>12, <2>1, CoreAppend
    <2>3. LastShort(Append(Sent, e), told, prod')
      <3>1. Append(Sent, e)[Len(Append(Sent, e))] = e
        BY <1>2, <1>5, AppendParts
      <3> QED  BY <1>7, <3>1 DEF LastShort
    <2>4. Moves(Sent, told, prod, Append(Sent, e), told, prod')
      BY <1>2, <1>5, <1>7, <1>9, <1>13, MovePut
    <2> QED  BY <1>1, <1>4, <1>6, <1>10, <1>14, <2>2, <2>3, <2>4 DEF OrderInv
  <1>15. CASE ~HasRoom
    <2>1. LastShort(Sent, told, prod')
      BY <1>12 DEF LastShort
    <2>2. Moves(Sent, told, prod, Sent, told, prod')
      BY <1>2, <1>9, <1>13, MoveNone
    <2> QED  BY <1>1, <1>4, <1>6, <1>10, <1>11, <1>15, <2>1, <2>2 DEF OrderInv
  <1> QED  BY <1>14, <1>15

(* The other steps of the job thread, and the cancel. *)
Rests == WaitBuffer \/ Fill \/ LoopEnds \/ Join \/ Cancel

(* Steps that put nothing in the line. *)
LEMMA LineRests ==
  ASSUME TypeOK, OrderInv, Rests, UNCHANGED told
  PROVE  OrderInv' /\ Moves(Line, told, prod, Line', told', prod')
  <1>1. /\ prod \in Prods /\ told \in Tolds
        /\ prod.page \in Nat /\ prod.page \in 0 .. MaxPages /\ MaxPages \in Nat
        /\ Line \in Seq(Entries) /\ prod.left \in Nat
    BY OrderFacts
  <1>2. /\ ToldInv(told, prod) /\ LineCore(Line, told, prod) /\ LastShort(Line, told, prod)
        /\ send.pc = "ended" => Line = << >> /\ prod.pc \in {"join", "gone"}
    BY DEF OrderInv
  <1>3. UNCHANGED <<queue, send>>
    BY DEF Rests, WaitBuffer, Fill, Filled, LoopEnds, Join, Cancel
  <1>4. /\ prod'.page = prod.page /\ prod'.row = prod.row /\ prod'.left = prod.left
        /\ prod'.failed = prod.failed
        /\ \/ prod'.pc = prod.pc
           \/ prod.pc = "loop" /\ prod'.pc = "fill" /\ prod.left > 0 /\ ~prod.failed
           \/ prod.pc = "fill" /\ prod'.pc = "put"
           \/ prod.pc = "loop" /\ prod'.pc = "endPage" /\ ~(prod.left > 0 /\ ~prod.failed)
           \/ prod.pc = "join" /\ prod'.pc = "gone"
    BY <1>1 DEF Rests, WaitBuffer, Fill, Filled, LoopEnds, Join, Cancel, Prods, MoreStripes
  <1>5. ComingOf(prod') <=> ComingOf(prod)
    BY <1>4 DEF ComingOf
  <1>6. Line' = Line
    <2>1. Sent' = Sent /\ NextOf(prod') = NextOf(prod)
      BY <1>3, <1>4, SentSame DEF NextOf
    <2> QED  BY <1>5, <2>1 DEF Line, LineOf
  <1>7. \A x : Untold(x, told, prod') <=> Untold(x, told, prod)
    BY <1>2, <1>4 DEF Untold, ToldInv
  <1>8. Grows(told, prod, told, prod')
    <2>1. prod.page <= prod.page
      BY <1>1
    <2> QED  BY <1>4, <1>7, <2>1 DEF Grows
  <1>9. ToldInv(told, prod')
    BY <1>2, <1>4, <1>7 DEF ToldInv, ComingOf
  <1>10. LineCore(Line, told, prod')
    BY <1>1, <1>2, <1>4, <1>8, CoreGrows
  <1>11. LastShort(Line, told, prod')
    BY <1>2, <1>5 DEF LastShort
  <1>12. Moves(Line, told, prod, Line, told, prod')
    <2>1. \A x \in 1 .. prod.page : ~(x > prod.page)
      BY <1>1
    <2>2. \A x \in 1 .. prod'.page : Fresh(x, told, prod) => Untold(x, told, prod')
      BY <1>4, <1>7, <2>1 DEF Fresh
    <2> QED  BY <1>1, <1>8, <2>2, MoveNone
  <1>13. send'.pc = "ended" => Line = << >> /\ prod'.pc \in {"join", "gone"}
    BY <1>2, <1>3, <1>4
  <1> QED  BY <1>6, <1>9, <1>10, <1>11, <1>12, <1>13 DEF OrderInv

(* Each step of the job thread. *)
LEMMA LineJob ==
  ASSUME TypeOK, OrderInv, JobSide \/ (Cancel /\ UNCHANGED told)
  PROVE  OrderInv' /\ Moves(Line, told, prod, Line', told', prod')
  <1>1. CASE \E n \in Stripes : Begins(n)
    BY <1>1, LineBegins
  <1>2. CASE GivesUp
    BY <1>2, LineGivesUp
  <1>3. CASE SendsBlank
    BY <1>3, LineSendsBlank
  <1>4. CASE Ends
    BY <1>4, LineEnds
  <1>5. CASE SendsStrip
    BY <1>5, LineSendsStrip
  <1>6. CASE Fails
    BY <1>6, LineFails
  <1>7. CASE UNCHANGED told /\ \E n \in 0 .. (MaxSendBuffs - 1) : BreakPage(n)
    BY <1>7, LineBreak
  <1>8. CASE UNCHANGED told /\ EndJob
    BY <1>8, LineEndJob
  <1>9. CASE UNCHANGED told /\ Rests
    BY <1>9, LineRests
  <1> QED  BY <1>1, <1>2, <1>3, <1>4, <1>5, <1>6, <1>7, <1>8, <1>9 DEF JobSide, Rests

(* The generator is given m, the first of the line. *)
Given(L, t, q, m) ==
  /\ L # << >> /\ L[1] = m /\ InLine(m, t, q)
  /\ Short(m, t) => Tail(L) # << >> /\ Continues(m, Tail(L)[1])
  /\ Tail(L) # << >> => Behind(m, Tail(L)[1], t)
  /\ Makes(m, t) =>
       \A i \in 1 .. Len(Tail(L)) : Makes(Tail(L)[i], t) => m.page < Tail(L)[i].page

(* And all that is behind it moves up. *)
LEMMA LineGiven ==
  ASSUME TypeOK, OrderInv, UNCHANGED <<prod, told>>, Sent # << >>, Sent' = Tail(Sent)
  PROVE  /\ Given(Line, told, prod, Sent[1]) /\ Line' = Tail(Line)
         /\ LineCore(Line', told', prod') /\ LastShort(Line', told', prod')
         /\ ToldInv(told', prod')
         /\ Sent[1].id = "endJob" => Line' = << >> /\ prod'.pc \in {"join", "gone"}
  <1>1. /\ Sent \in Seq(Entries) /\ Line \in Seq(Entries)
        /\ ComingOf(prod) => NextOf(prod) \in Entries
        /\ ToldInv(told, prod) /\ LineCore(Line, told, prod) /\ LastShort(Line, told, prod)
    BY OrderFacts DEF OrderInv
  <1>2. Len(Sent) \in Nat /\ Len(Sent) > 0
    BY <1>1, EntryParts
  <1>3. Line # << >> /\ Line[1] = Sent[1] /\ Line' = Tail(Line)
    <2>1. CASE ComingOf(prod)
      <3>1. Line = Append(Sent, NextOf(prod)) /\ Line' = Append(Tail(Sent), NextOf(prod))
        BY <2>1 DEF Line, LineOf
      <3>2. Tail(Append(Sent, NextOf(prod))) = Append(Tail(Sent), NextOf(prod))
        BY <1>1, <2>1, Around
      <3> QED  BY <1>1, <2>1, <3>1, <3>2, AppendParts
    <2>2. CASE ~ComingOf(prod)
      BY <2>2 DEF Line, LineOf
    <2> QED  BY <2>1, <2>2
  <1>4. /\ LineCore(Tail(Line), told, prod) /\ LastShort(Tail(Line), told, prod)
        /\ Tail(Line) \in Seq(Entries) /\ Len(Tail(Line)) = Len(Line) - 1
        /\ (\A i \in 1 .. Len(Line) - 1 : i + 1 \in 1 .. Len(Line) /\ Tail(Line)[i] = Line[i + 1])
    BY <1>1, <1>3, CoreTail
  <1>5. Len(Line) \in Nat /\ Len(Line) > 0 /\ 1 \in 1 .. Len(Line)
    BY <1>1, <1>3, EntryParts
  <1>6. Tail(Line) # << >> => /\ 1 < Len(Line) /\ Tail(Line)[1] = Line[1 + 1]
    <2> SUFFICES ASSUME Tail(Line) # << >> PROVE 1 < Len(Line) /\ Tail(Line)[1] = Line[1 + 1]
      OBVIOUS
    <2>1. Len(Tail(Line)) \in Nat /\ Len(Tail(Line)) > 0
      BY <1>4, EntryParts
    <2>2. 1 < Len(Line) /\ 1 \in 1 .. Len(Line) - 1
      BY <1>4, <1>5, <2>1
    <2> QED  BY <1>4, <2>2
  <1>7. Tail(Line) # << >> => /\ Behind(Line[1], Tail(Line)[1], told)
                              /\ Short(Line[1], told) => Continues(Line[1], Tail(Line)[1])
                              /\ Line[1].id # "endJob"
    BY <1>1, <1>5, <1>6 DEF LineCore
  <1>8. Short(Line[1], told) => Tail(Line) # << >>
    <2> SUFFICES ASSUME Short(Line[1], told), Tail(Line) = << >> PROVE FALSE
      OBVIOUS
    <2>1. Len(Line) = 1
      <3>1. Len(Tail(Line)) = 0
        BY EmptySeq
      <3>2. Len(Line) \in Nat /\ 0 = Len(Line) - 1
        BY <1>4, <1>5, <3>1
      <3> QED  BY <3>2
    <2>2. ComingOf(prod)
      BY <1>1, <1>3, <2>1 DEF LastShort
    <2>3. Len(Line) = Len(Sent) + 1
      BY <1>1, <2>2, AppendParts DEF Line, LineOf
    <2> QED  BY <1>2, <2>1, <2>3
  <1>9. InLine(Line[1], told, prod)
    BY <1>1, <1>5 DEF LineCore
  <1>10. ASSUME Makes(Line[1], told), NEW i \in 1 .. Len(Tail(Line)), Makes(Tail(Line)[i], told)
         PROVE  Line[1].page < Tail(Line)[i].page
    <2> DEFINE k == i + 1
    <2>1. k \in 1 .. Len(Line) /\ 1 < k /\ Tail(Line)[i] = Line[k]
      BY <1>4, <1>5
    <2> HIDE DEF k
    <2> QED  BY <1>1, <1>5, <1>10, <2>1 DEF LineCore
  <1>11. Line[1].id = "endJob" => Tail(Line) = << >> /\ prod.pc \in {"join", "gone"}
    BY <1>7, <1>9 DEF InLine
  <1> QED  BY <1>1, <1>3, <1>4, <1>7, <1>8, <1>9, <1>10, <1>11 DEF Given

(* The line at the start of a job. *)
LEMMA LineInit == DocInit => OrderInv
  <1> SUFFICES ASSUME DocInit PROVE OrderInv
    OBVIOUS
  <1> DEFINE e == [id |-> "startJob", page |-> 0, row |-> 0]
  <1>1. /\ queue = <<Msg("startJob", 0)>> /\ send.pc = "receive"
        /\ prod.pc = "idle" /\ prod.page = 0
        /\ told = [strips |-> [p \in Pages |-> 0], lost |-> {}, cut |-> {}]
    BY DEF DocInit, Init
  <1>2. Len(queue) = 1 /\ queue[1] = Msg("startJob", 0)
    BY <1>1
  <1>3. Line = [i \in 1 .. 1 |-> Brief(queue[i])]
    BY <1>1, <1>2 DEF Line, LineOf, ComingOf, Sent, Briefs
  <1>4. Len(Line) = 1 /\ \A i \in 1 .. 1 : Line[i] = e
    BY <1>2, <1>3, BriefMade
  <1>5. /\ told.strips = [p \in Pages |-> 0] /\ told.lost = {} /\ told.cut = {}
        /\ told \in Tolds
    BY <1>1 DEF Tolds
  <1>6. ToldInv(told, prod)
    BY <1>1, <1>5 DEF ToldInv, Untold
  <1>7. e.id = "startJob" /\ ~Makes(e, told) /\ ~Short(e, told)
    BY DEF Makes, Short
  <1> HIDE DEF e
  <1>8. InLine(e, told, prod)
    BY <1>7 DEF InLine, Paged
  <1>9. LineCore(Line, told, prod)
    BY <1>4, <1>7, <1>8 DEF LineCore
  <1>10. LastShort(Line, told, prod)
    BY <1>4, <1>7 DEF LastShort
  <1> QED  BY <1>1, <1>6, <1>9, <1>10 DEF OrderInv

-----------------------------------------------------------------------------
(***************************************************************************)
(* The document and the line.                                              *)
(***************************************************************************)
PagesIn(I)     == {i \in DOMAIN I : IsPage(I[i])}
ImagesIn(I, p) == {i \in DOMAIN I : I[i].kind = "image" /\ I[i].page = p}

(* The images of the page at place h come after it, each with its
   transformation: n of them, the white ones of the margin first. *)
White(d, k) == IF k <= d.margin THEN 0 ELSE k - d.margin
Drawn(d, h, n) ==
  /\ ImagesIn(d.items, d.items[h].page) = {h + 2 * k : k \in 1 .. n}
  /\ \A k \in 1 .. n : d.items[h + 2 * k].strip = White(d, k)

(* How many strips a page says it has, in the document and in all. *)
Announced(d, o) == IF d.language = "PWG" THEN o.num ELSE o.strip
Refers(d, h) ==
  d.items[h].refs = [k \in 1 .. d.margin + d.items[h].strip |-> h + 2 + 2 * k]
Complete(d, h) ==
  IF d.language = "PWG" THEN d.items[h].strip = d.items[h].num
  ELSE Drawn(d, h, d.margin + d.items[h].strip)

(* A page in the document is one the job thread has told of, and the pages
   in the line come after it. *)
PageGood(d, o, t, q, L) ==
  /\ o.kind = (IF d.language = "PWG" THEN "sheet" ELSE "page")
  /\ o.page \in 1 .. q.page /\ o.page \notin t.lost /\ ~Untold(o.page, t, q)
  /\ Announced(d, o) = t.strips[o.page]
  /\ d.language = "PWG" => t.strips[o.page] > 0
  /\ \A i \in 1 .. Len(L) : Makes(L[i], t) => o.page < L[i].page

PageInv(d, t, q, L) ==
  /\ \A h \in PagesIn(d.items) : PageGood(d, d.items[h], t, q, L)
  /\ \A h, g \in PagesIn(d.items) : h < g => d.items[h].page < d.items[g].page
  /\ d.language = "PWG" => \A i \in 1 .. Len(d.items) : IsPage(d.items[i])

(* The images of a page that was not lost are those it refers to. *)
ImageInv(d, t) ==
  d.language = "PCLm" =>
    /\ \A h \in PagesIn(d.items) :
         /\ Refers(d, h)
         /\ \E n \in 0 .. d.margin + d.items[h].strip : Drawn(d, h, n)
    /\ \A i \in 1 .. Len(d.items) : d.items[i].kind = "image" =>
         /\ d.items[i].num = i + Tree
         /\ \/ d.items[i].page \in t.lost
            \/ \E h \in PagesIn(d.items) : d.items[h].page = d.items[i].page
    /\ d.undefined => \E p \in t.lost : t.strips[p] > 0

(* What the generator has in place for a stripe. *)
Ready(d, m, h, n) ==
  /\ d.items[h].page = m.page /\ Drawn(d, h, n) /\ Len(d.items) = h + 1 + 2 * n
  /\ IF d.firstStrip /\ d.margin > 0 THEN n = 0 /\ m.row = 0 ELSE n = d.margin + m.row

Fits(d, t, m) ==
  m.id = "send" /\ ~d.undefined /\ m.page \notin t.lost =>
    IF d.language = "PWG"
      THEN /\ Len(d.items) > 0
           /\ d.items[Len(d.items)].page = m.page /\ d.items[Len(d.items)].strip = m.row
      ELSE d.scratch /\ \E h \in PagesIn(d.items), n \in Nat : Ready(d, m, h, n)

FrontFits(d, t, L) == L # << >> => Fits(d, t, L[1])

(* A page that is not cut is complete, or its next strip comes first. *)
WholeInv(d, t, L) ==
  ~d.undefined =>
    \A h \in PagesIn(d.items) :
      \/ t.strips[d.items[h].page] = 0 \/ d.items[h].page \in t.cut \/ Complete(d, h)
      \/ L # << >> /\ L[1].id = "send" /\ L[1].page = d.items[h].page

(* Every page there has been is lost, in the document, or on its way. *)
Found(d, t, q, L, p) ==
  \/ p \in t.lost \/ Untold(p, t, q)
  \/ d.language = "PWG" /\ t.strips[p] = 0
  \/ \E h \in PagesIn(d.items) : d.items[h].page = p
  \/ \E i \in 1 .. Len(L) : Makes(L[i], t) /\ L[i].page = p

FoundInv(d, t, q, L) == ~d.undefined => \A p \in 1 .. q.page : Found(d, t, q, L, p)

DocInv(d, t, q, L) ==
  /\ PageInv(d, t, q, L) /\ ImageInv(d, t) /\ FrontFits(d, t, L)
  /\ WholeInv(d, t, L) /\ FoundInv(d, t, q, L)

(* What the job thread does leaves the document in step with the line. *)
LEMMA DocMoves ==
  ASSUME NEW L \in Seq(Entries), NEW L2 \in Seq(Entries), NEW d, NEW t, NEW q, NEW t2, NEW q2,
         q.page \in 0 .. MaxPages, q2.page \in 0 .. MaxPages, t \in Tolds,
         t.lost \subseteq 1 .. q.page,
         LineCore(L, t, q), Moves(L, t, q, L2, t2, q2), DocInv(d, t, q, L)
  PROVE  DocInv(d, t2, q2, L2)
  <1>1. /\ Grows(t, q, t2, q2) /\ q.page \in Nat /\ q2.page \in Nat /\ q.page <= q2.page
        /\ \A p \in 1 .. q.page : p \in 1 .. q2.page /\ t2.strips[p] = t.strips[p]
    BY PclAssumption DEF Moves, Grows
  <1>2. \A i \in 1 .. Len(L) : Makes(L[i], t2) <=> Makes(L[i], t)
    BY <1>1, EntryParts, EntryGrows DEF LineCore
  <1>3. ASSUME NEW o, PageGood(d, o, t, q, L)
        PROVE  PageGood(d, o, t2, q2, L2)
    <2>1. /\ o.page \in 1 .. q.page /\ o.page \notin t.lost /\ ~Untold(o.page, t, q)
          /\ t2.strips[o.page] = t.strips[o.page] /\ o.page \in 1 .. q2.page
      BY <1>1, <1>3 DEF PageGood
    <2>2. o.page \notin t2.lost /\ ~Untold(o.page, t2, q2)
      BY <1>1, <2>1 DEF Grows
    <2>3. ASSUME NEW i \in 1 .. Len(L2), Makes(L2[i], t2)
          PROVE  o.page < L2[i].page
      <3>1. CASE \E j \in 1 .. Len(L) : L2[i] = L[j]
        BY <1>2, <1>3, <2>3, <3>1 DEF PageGood
      <3>2. CASE Fresh(L2[i].page, t, q)
        <4>1. L2[i].page \in Nat
          <5>1. L2[i] \in Entries
            BY EntryParts
          <5> QED  BY <5>1, PclAssumption DEF Entries
        <4>2. Untold(L2[i].page, t, q) => L2[i].page = q.page /\ o.page # q.page
          BY <2>1 DEF Untold
        <4> QED  BY <1>1, <2>1, <3>2, <4>1, <4>2 DEF Fresh
      <3> QED  BY <2>3, <3>1, <3>2 DEF Moves
    <2> QED  BY <1>3, <2>1, <2>2, <2>3 DEF PageGood
  <1>4. PageInv(d, t2, q2, L2)
    BY <1>3 DEF DocInv, PageInv
  <1>5. \A p \in t.lost : p \in t2.lost /\ t2.strips[p] = t.strips[p]
    BY <1>1 DEF Grows
  <1>6. ImageInv(d, t2)
    <2>1. ImageInv(d, t)
      BY DEF DocInv
    <2> QED  BY <1>5, <2>1 DEF ImageInv
  <1>7. FrontFits(d, t2, L2)
    <2> SUFFICES ASSUME L2 # << >> PROVE Fits(d, t2, L2[1])
      BY DEF FrontFits
    <2>1. CASE L # << >> /\ L2[1] = L[1]
      <3>1. Fits(d, t, L[1])
        BY <2>1 DEF DocInv, FrontFits
      <3> QED  BY <1>5, <2>1, <3>1 DEF Fits
    <2>2. CASE L2[1].id # "send" \/ L2[1].page \in t2.lost
      BY <2>2 DEF Fits
    <2> QED  BY <2>1, <2>2 DEF Moves
  <1>8. WholeInv(d, t2, L2)
    <2> SUFFICES ASSUME ~d.undefined, NEW h \in PagesIn(d.items)
                 PROVE  \/ t2.strips[d.items[h].page] = 0 \/ d.items[h].page \in t2.cut
                        \/ Complete(d, h)
                        \/ L2 # << >> /\ L2[1].id = "send" /\ L2[1].page = d.items[h].page
      BY DEF WholeInv
    <2>1. t2.strips[d.items[h].page] = t.strips[d.items[h].page]
      BY <1>1 DEF DocInv, PageInv, PageGood
    <2>2. t.cut \subseteq t2.cut
      BY <1>1 DEF Grows
    <2>3. \/ t.strips[d.items[h].page] = 0 \/ d.items[h].page \in t.cut \/ Complete(d, h)
          \/ L # << >> /\ L[1].id = "send" /\ L[1].page = d.items[h].page
      BY DEF DocInv, WholeInv
    <2>4. L # << >> => \/ L2 # << >> /\ L2[1] = L[1]
                       \/ L[1].id = "send" /\ L[1].page \in t2.cut
      BY DEF Moves
    <2> QED  BY <2>1, <2>2, <2>3, <2>4
  <1>9. FoundInv(d, t2, q2, L2)
    <2> SUFFICES ASSUME ~d.undefined, NEW p \in 1 .. q2.page PROVE Found(d, t2, q2, L2, p)
      BY DEF FoundInv
    <2>1. CASE Fresh(p, t, q)
      BY <2>1 DEF Moves, Found
    <2>2. CASE ~Fresh(p, t, q)
      <3>1. p \in 1 .. q.page /\ ~Untold(p, t, q)
        BY <1>1, <2>2 DEF Fresh
      <3>2. Found(d, t, q, L, p) /\ t2.strips[p] = t.strips[p]
        BY <1>1, <3>1 DEF DocInv, FoundInv
      <3>3. CASE \E i \in 1 .. Len(L) : Makes(L[i], t) /\ L[i].page = p
        <4>1. PICK i \in 1 .. Len(L) : Makes(L[i], t) /\ L[i].page = p
          BY <3>3
        <4>2. \E j \in 1 .. Len(L2) : L2[j] = L[i]
          BY <1>2, <4>1 DEF Moves
        <4> QED  BY <1>2, <4>1, <4>2 DEF Found
      <3>4. CASE p \in t.lost
        BY <1>5, <3>4 DEF Found
      <3>5. CASE d.language = "PWG" /\ t.strips[p] = 0
        BY <3>2, <3>5 DEF Found
      <3>6. CASE \E h \in PagesIn(d.items) : d.items[h].page = p
        BY <3>6 DEF Found
      <3> QED  BY <3>1, <3>2, <3>3, <3>4, <3>5, <3>6 DEF Found
    <2> QED  BY <2>1, <2>2
  <1> QED  BY <1>4, <1>6, <1>7, <1>8, <1>9 DEF DocInv

(***************************************************************************)
(* What the calls of the generator add to a document.                      *)
(***************************************************************************)
LEMMA Extended ==
  ASSUME NEW S, NEW I \in Seq(S), NEW X \in Seq(S)
  PROVE  /\ I \o X \in Seq(S) /\ Len(I \o X) = Len(I) + Len(X) /\ Len(I) \in Nat /\ Len(X) \in Nat
         /\ \A i \in 1 .. Len(I) : (I \o X)[i] = I[i]
         /\ \A i \in 1 .. Len(X) : (I \o X)[Len(I) + i] = X[i]
         /\ PagesIn(I \o X) = PagesIn(I) \cup {Len(I) + i : i \in PagesIn(X)}
         /\ \A p : ImagesIn(I \o X, p) = ImagesIn(I, p) \cup {Len(I) + i : i \in ImagesIn(X, p)}
  <1> DEFINE J == I \o X
             n == Len(I)
  <1>1. /\ J \in Seq(S) /\ Len(J) = n + Len(X) /\ n \in Nat /\ Len(X) \in Nat
        /\ \A i \in 1 .. n + Len(X) : J[i] = IF i <= n THEN I[i] ELSE X[i - n]
    BY ConcatProperties
  <1>2. /\ DOMAIN J = 1 .. Len(J) /\ DOMAIN I = 1 .. n /\ DOMAIN X = 1 .. Len(X)
    BY <1>1
  <1> HIDE DEF J, n
  <1>3. \A i \in 1 .. n : i \in 1 .. Len(J) /\ J[i] = I[i]
    BY <1>1
  <1>4. \A i \in 1 .. Len(X) : n + i \in 1 .. Len(J) /\ J[n + i] = X[i]
    <2> TAKE i \in 1 .. Len(X)
    <2>1. n + i \in 1 .. n + Len(X) /\ ~(n + i <= n) /\ (n + i) - n = i
      BY <1>1
    <2>2. J[n + i] = X[(n + i) - n]
      BY <1>1, <2>1
    <2> QED  BY <1>1, <2>1, <2>2
  <1>5. \A i \in 1 .. Len(J) : i \in 1 .. n \/ \E k \in 1 .. Len(X) : i = n + k
    <2> TAKE i \in 1 .. Len(J)
    <2>1. CASE i > n
      <3>1. i - n \in 1 .. Len(X) /\ i = n + (i - n)
        BY <1>1, <2>1
      <3> QED  BY <3>1
    <2>2. CASE ~(i > n)
      BY <1>1, <2>2
    <2> QED  BY <2>1, <2>2
  <1>6. PagesIn(J) = PagesIn(I) \cup {n + i : i \in PagesIn(X)}
    <2>1. ASSUME NEW i \in PagesIn(J)
          PROVE  i \in PagesIn(I) \cup {n + k : k \in PagesIn(X)}
      <3>1. i \in 1 .. Len(J) /\ IsPage(J[i])
        BY <1>2, <2>1 DEF PagesIn
      <3>2. CASE i \in 1 .. n
        BY <1>2, <1>3, <3>1, <3>2 DEF PagesIn
      <3>3. CASE \E k \in 1 .. Len(X) : i = n + k
        BY <1>2, <1>4, <3>1, <3>3 DEF PagesIn
      <3> QED  BY <1>5, <3>1, <3>2, <3>3
    <2>2. ASSUME NEW i \in PagesIn(I) PROVE i \in PagesIn(J)
      BY <1>2, <1>3, <2>2 DEF PagesIn
    <2>3. ASSUME NEW k \in PagesIn(X) PROVE n + k \in PagesIn(J)
      BY <1>2, <1>4, <2>3 DEF PagesIn
    <2> QED  BY <2>1, <2>2, <2>3
  <1>7. ASSUME NEW p
        PROVE  ImagesIn(J, p) = ImagesIn(I, p) \cup {n + i : i \in ImagesIn(X, p)}
    BY <1>2, <1>3, <1>4, <1>5 DEF ImagesIn
  <1> QED  BY <1>1, <1>3, <1>4, <1>6, <1>7 DEF J, n

(* The generator and what it writes. *)
Made  == [kind : {"page", "contents", "image", "transform", "catalog", "tree", "sheet"},
          num : Nat, page : Pages \cup {0}, strip : Nat, refs : Seq(Nat)]

Docs(d) ==
  /\ d = [language |-> d.language, margin |-> d.margin, items |-> d.items,
          tickets |-> d.tickets, xRef |-> d.xRef,
          kids |-> d.kids, objCounter |-> d.objCounter, scratch |-> d.scratch,
          firstStrip |-> d.firstStrip, ended |-> d.ended, undefined |-> d.undefined,
          trailer |-> d.trailer]
  /\ d.language \in Languages /\ d.margin \in MarginStrips \cup {0}
  /\ d.items \in Seq(Made) /\ d.xRef \in Seq(Nat) /\ d.kids \in Seq(Nat)
  /\ d.objCounter \in Nat
  /\ {d.scratch, d.firstStrip, d.ended, d.undefined} \subseteq BOOLEAN

(* The parts of a document. *)
LEMMA DocParts ==
  ASSUME NEW d, Docs(d)
  PROVE  /\ d.language \in {"PCLm", "PWG"} /\ d.margin \in Nat
         /\ Len(d.items) \in Nat /\ DOMAIN d.items = 1 .. Len(d.items)
         /\ \A i \in 1 .. Len(d.items) : d.items[i] \in Made /\ d.items[i].num \in Nat
                                         /\ d.items[i].strip \in Nat
         /\ PagesIn(d.items) \subseteq 1 .. Len(d.items)
         /\ \A p : ImagesIn(d.items, p) \subseteq 1 .. Len(d.items)
  <1>1. /\ Len(d.items) \in Nat /\ DOMAIN d.items = 1 .. Len(d.items)
        /\ \A i \in 1 .. Len(d.items) : d.items[i] \in Made
    BY DEF Docs
  <1>2. d.language \in {"PCLm", "PWG"} /\ d.margin \in Nat
    BY DocumentAssumption DEF Docs
  <1> QED  BY <1>1, <1>2 DEF PagesIn, ImagesIn, Made

(* Something is added behind what there is. *)
Adds(d, e) ==
  /\ e.language = d.language /\ e.margin = d.margin
  /\ Len(d.items) <= Len(e.items)
  /\ \A i \in 1 .. Len(d.items) : e.items[i] = d.items[i]

(* A page is added, of which nothing is drawn. *)
AddsPage(d, e, p, s) ==
  /\ Adds(d, e) /\ e.undefined = d.undefined
  /\ PagesIn(e.items) = PagesIn(d.items) \cup {Len(d.items) + 1}
  /\ \A x : ImagesIn(e.items, x) = ImagesIn(d.items, x)
  /\ e.items[Len(d.items) + 1].page = p
  /\ IF d.language = "PWG"
       THEN LET o == e.items[Len(d.items) + 1] IN
              Len(e.items) = Len(d.items) + 1 /\ o.kind = "sheet" /\ o.num = s /\ o.strip = 0
       ELSE LET o == e.items[Len(d.items) + 1] IN
              /\ Len(e.items) = Len(d.items) + 2 /\ o.kind = "page" /\ o.strip = s
              /\ Refers(e, Len(d.items) + 1)

(* Strips of page p are added, with the margin above them or without. *)
AddsStrips(d, e, p, strips) ==
  /\ Adds(d, e) /\ e.undefined = d.undefined
  /\ Len(e.items) = Len(d.items) + 2 * Len(strips)
  /\ PagesIn(e.items) = PagesIn(d.items)
  /\ \A x : x # p => ImagesIn(e.items, x) = ImagesIn(d.items, x)
  /\ ImagesIn(e.items, p) =
       ImagesIn(d.items, p) \cup {Len(d.items) + 2 * k - 1 : k \in 1 .. Len(strips)}
  /\ \A k \in 1 .. Len(strips) :
       LET o == e.items[Len(d.items) + 2 * k - 1] IN
         o.kind = "image" /\ o.page = p /\ o.strip = strips[k] /\ o.num = d.objCounter + 2 * k - 2

(* Objects are written behind what there is. *)
LEMMA WrittenParts ==
  ASSUME NEW d, Docs(d), NEW X \in Seq(Made)
  PROVE  LET e == Written(d, X) IN
         /\ Docs(e) /\ Adds(d, e)
         /\ e.items = d.items \o X
         /\ e.xRef = d.xRef \o [i \in 1 .. Len(X) |-> Len(d.items) + i]
         /\ e.tickets = d.tickets /\ e.kids = d.kids /\ e.objCounter = d.objCounter
         /\ e.scratch = d.scratch /\ e.firstStrip = d.firstStrip
         /\ e.ended = d.ended /\ e.undefined = d.undefined
  <1> DEFINE J == d.items \o X
             Y == d.xRef \o [i \in 1 .. Len(X) |-> Len(d.items) + i]
             e == Written(d, X)
  <1>1. /\ J \in Seq(Made) /\ Len(J) = Len(d.items) + Len(X) /\ Len(d.items) \in Nat
        /\ Len(X) \in Nat /\ \A i \in 1 .. Len(d.items) : J[i] = d.items[i]
    BY Extended DEF Docs
  <1>2. Y \in Seq(Nat)
    <2>1. [i \in 1 .. Len(X) |-> Len(d.items) + i] \in Seq(Nat)
      BY <1>1
    <2> HIDE DEF Y
    <2> QED  BY <2>1, ConcatProperties DEF Y, Docs
  <1> HIDE DEF J, Y
  <1>3. e = [d EXCEPT !.items = J, !.xRef = Y]
    BY DEF Written, J, Y
  <1> HIDE DEF e
  <1>4. /\ e.language = d.language /\ e.margin = d.margin /\ e.items = J /\ e.xRef = Y
        /\ e.tickets = d.tickets /\ e.kids = d.kids /\ e.objCounter = d.objCounter
        /\ e.scratch = d.scratch /\ e.firstStrip = d.firstStrip
        /\ e.ended = d.ended /\ e.undefined = d.undefined /\ e.trailer = d.trailer
    BY <1>3 DEF Docs
  <1>5. e = [language |-> e.language, margin |-> e.margin, items |-> e.items,
             tickets |-> e.tickets, xRef |-> e.xRef,
             kids |-> e.kids, objCounter |-> e.objCounter, scratch |-> e.scratch,
             firstStrip |-> e.firstStrip, ended |-> e.ended, undefined |-> e.undefined,
             trailer |-> e.trailer]
    BY <1>3 DEF Docs
  <1>6. Docs(e)
    BY <1>1, <1>2, <1>4, <1>5 DEF Docs
  <1>7. Adds(d, e)
    BY <1>1, <1>4 DEF Adds
  <1> QED  BY <1>4, <1>6, <1>7 DEF e, J, Y

(* Flags and counters are set. *)
SetParts(d, e, c, k, s, f, n, u) ==
  /\ Docs(e) /\ e.language = d.language /\ e.margin = d.margin
  /\ e.items = d.items /\ e.tickets = d.tickets /\ e.xRef = d.xRef
  /\ e.objCounter = c /\ e.kids = k /\ e.scratch = s /\ e.firstStrip = f
  /\ e.ended = n /\ e.undefined = u

(* Where nothing but flags and counters differs. *)
LEMMA SetIs ==
  ASSUME NEW d, Docs(d), NEW e,
         DOMAIN e = DOMAIN d, e.trailer = d.trailer,
         e = [x \in DOMAIN e |-> e[x]],
         e.language = d.language, e.margin = d.margin, e.items = d.items, e.xRef = d.xRef,
         e.tickets = d.tickets,
         e.objCounter \in Nat, e.kids \in Seq(Nat), e.scratch \in BOOLEAN,
         e.firstStrip \in BOOLEAN, e.ended \in BOOLEAN, e.undefined \in BOOLEAN
  PROVE  SetParts(d, e, e.objCounter, e.kids, e.scratch, e.firstStrip, e.ended, e.undefined)
  <1>1. e = [language |-> e.language, margin |-> e.margin, items |-> e.items,
             tickets |-> e.tickets, xRef |-> e.xRef,
             kids |-> e.kids, objCounter |-> e.objCounter, scratch |-> e.scratch,
             firstStrip |-> e.firstStrip, ended |-> e.ended, undefined |-> e.undefined,
             trailer |-> e.trailer]
    BY DEF Docs
  <1> QED  BY <1>1 DEF SetParts, Docs

(* A page and its contents are written. *)
LEMMA PageWritten ==
  ASSUME NEW d, Docs(d), d.language = "PCLm", d.objCounter = Len(d.items) + Tree + 1,
         NEW p \in Pages, NEW s \in Nat
  PROVE  LET e == GrammarPage(d, p, s) IN
         /\ Docs(e) /\ AddsPage(d, e, p, s)
         /\ e.xRef = d.xRef \o [i \in 1 .. 2 |-> Len(d.items) + i]
         /\ e.tickets = d.tickets
         /\ e.kids = Append(d.kids, d.objCounter) /\ e.objCounter = d.objCounter + 2
         /\ e.firstStrip = d.firstStrip /\ e.ended = d.ended /\ e.undefined = d.undefined
         /\ e.items[Len(d.items) + 1].num = d.objCounter
         /\ e.items[Len(d.items) + 2].num = d.objCounter + 1
  <1> DEFINE n == d.objCounter
             N == Len(d.items)
             R == ImageRefs(d, s)
             a == object("page", n, p, s, R)
             b == object("contents", n + 1, p, s, << >>)
             X == <<a, b>>
             w == Written(d, X)
             e == GrammarPage(d, p, s)
  <1>1. N \in Nat /\ n \in Nat /\ d.margin \in Nat /\ n = N + 3
    <2>1. N \in Nat /\ d.margin \in Nat
      BY DocParts
    <2> HIDE DEF N
    <2>2. n = N + 2 + 1
      BY DEF Tree, N
    <2> QED  BY <2>1, <2>2
  <1> HIDE DEF n, N
  <1>2. R = [k \in 1 .. d.margin + s |-> (N + 1) + 2 + 2 * k] /\ R \in Seq(Nat)
    <2> DEFINE K == d.margin + s
    <2>1. K \in Nat
      BY <1>1
    <2>2. R = [k \in 1 .. K |-> n + 2 + 2 * (k - 1)]
      BY DEF ImageRefs, n
    <2> HIDE DEF K, R
    <2>3. \A k \in 1 .. K : n + 2 + 2 * (k - 1) = (N + 1) + 2 + 2 * k /\ (N + 1) + 2 + 2 * k \in Nat
      BY <1>1, <2>1
    <2>4. R = [k \in 1 .. K |-> (N + 1) + 2 + 2 * k]
      BY <2>2, <2>3
    <2>5. R \in Seq(Nat)
      BY <2>1, <2>3, <2>4
    <2> QED  BY <2>4, <2>5 DEF K
  <1> HIDE DEF R
  <1>3. /\ a.kind = "page" /\ a.num = n /\ a.page = p /\ a.strip = s /\ a.refs = R /\ a \in Made
        /\ b.kind = "contents" /\ b.num = n + 1 /\ b.page = p /\ b \in Made
    BY <1>1, <1>2 DEF object, Made
  <1> HIDE DEF a, b
  <1>4. X \in Seq(Made) /\ Len(X) = 2 /\ X[1] = a /\ X[2] = b /\ DOMAIN X = 1 .. 2
    BY <1>3
  <1> HIDE DEF X
  <1>5. /\ Docs(w) /\ Adds(d, w) /\ w.items = d.items \o X
        /\ w.xRef = d.xRef \o [i \in 1 .. 2 |-> N + i]
        /\ w.tickets = d.tickets
        /\ w.kids = d.kids /\ w.objCounter = d.objCounter
        /\ w.scratch = d.scratch /\ w.firstStrip = d.firstStrip
        /\ w.ended = d.ended /\ w.undefined = d.undefined
    BY <1>4, WrittenParts DEF N
  <1>6. e = [w EXCEPT !.objCounter = n + 2, !.kids = Append(d.kids, n)]
    BY <1>5 DEF GrammarPage, w, X, a, b, R, n
  <1> HIDE DEF w, e
  <1>7. Append(d.kids, n) \in Seq(Nat) /\ n + 2 \in Nat
    BY <1>1 DEF Docs
  <1>8. SetParts(w, e, n + 2, Append(d.kids, n), w.scratch, w.firstStrip, w.ended, w.undefined)
    <2>1. /\ e.language = w.language /\ e.margin = w.margin /\ e.items = w.items
          /\ e.tickets = w.tickets
          /\ e.xRef = w.xRef /\ e.kids = Append(d.kids, n) /\ e.objCounter = n + 2
          /\ e.scratch = w.scratch /\ e.firstStrip = w.firstStrip
          /\ e.ended = w.ended /\ e.undefined = w.undefined /\ e.trailer = w.trailer
      BY <1>5, <1>6 DEF Docs
    <2>2. DOMAIN e = DOMAIN w /\ e = [x \in DOMAIN e |-> e[x]]
      BY <1>6
    <2>3. /\ w.scratch \in BOOLEAN /\ w.firstStrip \in BOOLEAN /\ w.ended \in BOOLEAN
          /\ w.undefined \in BOOLEAN
      BY <1>5 DEF Docs
    <2>4. /\ Docs(w) /\ DOMAIN e = DOMAIN w /\ e.trailer = w.trailer
          /\ e = [x \in DOMAIN e |-> e[x]]
          /\ e.language = w.language /\ e.margin = w.margin /\ e.items = w.items
          /\ e.tickets = w.tickets
          /\ e.xRef = w.xRef /\ e.objCounter \in Nat /\ e.kids \in Seq(Nat)
          /\ e.scratch \in BOOLEAN /\ e.firstStrip \in BOOLEAN /\ e.ended \in BOOLEAN
          /\ e.undefined \in BOOLEAN
      BY <1>5, <1>7, <2>1, <2>2, <2>3
    <2>5. SetParts(w, e, e.objCounter, e.kids, e.scratch, e.firstStrip, e.ended, e.undefined)
      BY <2>4, SetIs
    <2> QED  BY <2>1, <2>5
  <1>9. /\ Len(e.items) = N + 2 /\ e.items[N + 1] = a /\ e.items[N + 2] = b
        /\ PagesIn(e.items) = PagesIn(d.items) \cup {N + i : i \in PagesIn(X)}
        /\ \A x : ImagesIn(e.items, x) = ImagesIn(d.items, x) \cup {N + i : i \in ImagesIn(X, x)}
    <2>1. e.items = d.items \o X
      BY <1>5, <1>8 DEF SetParts
    <2>2. d.items \in Seq(Made)
      BY DEF Docs
    <2>3. /\ Len(d.items \o X) = N + 2
          /\ \A i \in 1 .. 2 : (d.items \o X)[N + i] = X[i]
      <3>1. /\ Len(d.items \o X) = Len(d.items) + Len(X)
            /\ \A i \in 1 .. Len(X) : (d.items \o X)[Len(d.items) + i] = X[i]
        <4>1. X \in Seq(Made)
          BY <1>4
        <4> QED  BY <2>2, <4>1, Extended
      <3>2. Len(X) = 2 /\ Len(d.items) = N
        BY <1>4 DEF N
      <3> QED  BY <3>1, <3>2
    <2>4. (d.items \o X)[N + 1] = X[1] /\ (d.items \o X)[N + 2] = X[2]
      <3>1. 1 \in 1 .. 2 /\ 2 \in 1 .. 2
        OBVIOUS
      <3> QED  BY <2>3, <3>1, Zenon
    <2>5. /\ PagesIn(d.items \o X) = PagesIn(d.items) \cup {N + i : i \in PagesIn(X)}
          /\ \A x : ImagesIn(d.items \o X, x) =
                     ImagesIn(d.items, x) \cup {N + i : i \in ImagesIn(X, x)}
      BY <1>4, <2>2, Extended DEF N
    <2> QED  BY <1>4, <2>1, <2>3, <2>4, <2>5
  <1>10. PagesIn(X) = {1} /\ \A x : ImagesIn(X, x) = {}
    BY <1>3, <1>4 DEF PagesIn, ImagesIn, IsPage
  <1>11. /\ PagesIn(e.items) = PagesIn(d.items) \cup {N + 1}
         /\ \A x : ImagesIn(e.items, x) = ImagesIn(d.items, x)
    <2>1. {N + i : i \in PagesIn(X)} = {N + 1} /\ \A x : {N + i : i \in ImagesIn(X, x)} = {}
      BY <1>10
    <2> QED  BY <1>9, <2>1
  <1>12. Adds(d, e)
    BY <1>5, <1>8 DEF Adds, SetParts
  <1>13. Refers(e, N + 1)
    <2>1. e.margin = d.margin
      BY <1>12 DEF Adds
    <2> QED  BY <1>2, <1>3, <1>9, <2>1 DEF Refers
  <1>14. AddsPage(d, e, p, s)
    BY <1>3, <1>5, <1>8, <1>9, <1>11, <1>12, <1>13 DEF AddsPage, SetParts, N
  <1> QED  BY <1>3, <1>5, <1>8, <1>9, <1>14 DEF SetParts, e, n, N

(* A sheet is written. *)
LEMMA SheetWritten ==
  ASSUME NEW d, Docs(d), d.language = "PWG", NEW p \in Pages, NEW s \in Nat
  PROVE  LET e == Sheet(d, p, s) IN
         Docs(e) /\ AddsPage(d, e, p, s) /\ e.ended = d.ended /\ e.tickets = d.tickets
  <1> DEFINE N == Len(d.items)
             a == object("sheet", s, p, 0, << >>)
             X == <<a>>
             J == Append(d.items, a)
             e == Sheet(d, p, s)
  <1>1. /\ a.kind = "sheet" /\ a.num = s /\ a.page = p /\ a.strip = 0 /\ a \in Made
        /\ IsPage(a)
    BY DEF object, Made, IsPage
  <1> HIDE DEF a
  <1>2. /\ N \in Nat /\ J \in Seq(Made) /\ Len(J) = N + 1 /\ J[N + 1] = a
        /\ (\A i \in 1 .. N : J[i] = d.items[i])
        /\ (\A i \in 1 .. N + 1 : i \in 1 .. N \/ i = N + 1)
        /\ (\A i \in 1 .. N : i \in 1 .. N + 1) /\ N + 1 \in 1 .. N + 1 /\ N <= N + 1
    BY <1>1, AppendParts DEF Docs
  <1>3. DOMAIN J = 1 .. N + 1 /\ DOMAIN d.items = 1 .. N
    BY <1>2 DEF Docs
  <1> HIDE DEF J
  <1>4. PagesIn(J) = PagesIn(d.items) \cup {N + 1}
    BY <1>1, <1>2, <1>3 DEF PagesIn
  <1>5. \A x : ImagesIn(J, x) = ImagesIn(d.items, x)
    BY <1>1, <1>2, <1>3 DEF ImagesIn
  <1>6. e = [d EXCEPT !.items = J]
    BY DEF Sheet, J, a
  <1> HIDE DEF e
  <1>7. /\ e.language = d.language /\ e.margin = d.margin /\ e.items = J /\ e.xRef = d.xRef
        /\ e.tickets = d.tickets /\ e.kids = d.kids /\ e.objCounter = d.objCounter
        /\ e.scratch = d.scratch /\ e.firstStrip = d.firstStrip
        /\ e.ended = d.ended /\ e.undefined = d.undefined
    BY <1>6 DEF Docs
  <1>8. e = [language |-> e.language, margin |-> e.margin, items |-> e.items,
             tickets |-> e.tickets, xRef |-> e.xRef,
             kids |-> e.kids, objCounter |-> e.objCounter, scratch |-> e.scratch,
             firstStrip |-> e.firstStrip, ended |-> e.ended, undefined |-> e.undefined,
             trailer |-> e.trailer]
    BY <1>6 DEF Docs
  <1>9. Docs(e)
    BY <1>2, <1>7, <1>8 DEF Docs
  <1>10. AddsPage(d, e, p, s)
    BY <1>1, <1>2, <1>4, <1>5, <1>7 DEF AddsPage, Adds
  <1> QED  BY <1>7, <1>9, <1>10 DEF e

(* Odd and even places. *)
LEMMA Halves ==
  ASSUME NEW m \in Nat
  PROVE  /\ \A j \in 1 .. m : /\ 2 * j - 1 \in 1 .. 2 * m /\ (2 * j - 1) % 2 = 1
                              /\ ((2 * j - 1) + 1) \div 2 = j
         /\ \A k \in 1 .. 2 * m : /\ (k + 1) \div 2 \in 1 .. m
                                  /\ k % 2 = 1 => k = 2 * ((k + 1) \div 2) - 1
  <1>1. \A j \in 1 .. m : 2 * j - 1 \in 1 .. 2 * m /\ (2 * j - 1) % 2 = 1
    OBVIOUS
  <1>2. \A j \in 1 .. m : ((2 * j - 1) + 1) \div 2 = j
    OBVIOUS
  <1>3. \A k \in 1 .. 2 * m : (k + 1) \div 2 \in 1 .. m
    OBVIOUS
  <1>4. \A k \in 1 .. 2 * m : k % 2 = 1 => k = 2 * ((k + 1) \div 2) - 1
    OBVIOUS
  <1> QED  BY <1>1, <1>2, <1>3, <1>4

(* Strips are written. *)
LEMMA StripsWritten ==
  ASSUME NEW d, Docs(d), NEW p \in Pages, NEW strips \in Seq(Nat)
  PROVE  LET e == injectJPEG(d, p, strips) IN
         /\ Docs(e) /\ AddsStrips(d, e, p, strips)
         /\ e.xRef = d.xRef \o [i \in 1 .. 2 * Len(strips) |-> Len(d.items) + i]
         /\ e.tickets = d.tickets
         /\ e.kids = d.kids /\ e.objCounter = d.objCounter + 2 * Len(strips)
         /\ e.scratch = d.scratch /\ e.firstStrip = d.firstStrip
         /\ e.ended = d.ended /\ e.undefined = d.undefined
         /\ \A k \in 1 .. 2 * Len(strips) :
              e.items[Len(d.items) + k].num = d.objCounter + k - 1
  <1> DEFINE n == d.objCounter
             N == Len(d.items)
             m == Len(strips)
             X == StripObjects(d, p, strips)
             w == Written(d, X)
             e == injectJPEG(d, p, strips)
  <1>1. N \in Nat /\ n \in Nat /\ m \in Nat /\ \A k \in 1 .. m : strips[k] \in Nat
    BY DocParts DEF Docs
  <1>2. X = [k \in 1 .. 2 * m |->
               object(IF k % 2 = 1 THEN "image" ELSE "transform", n + k - 1,
                      p, strips[(k + 1) \div 2], << >>)]
    BY DEF StripObjects
  <1> HIDE DEF n, N, m, X
  <1>3. /\ \A j \in 1 .. m : /\ 2 * j - 1 \in 1 .. 2 * m /\ (2 * j - 1) % 2 = 1
                             /\ ((2 * j - 1) + 1) \div 2 = j
        /\ \A k \in 1 .. 2 * m : /\ (k + 1) \div 2 \in 1 .. m
                                 /\ k % 2 = 1 => k = 2 * ((k + 1) \div 2) - 1
    BY <1>1, Halves
  <1>4. \A k \in 1 .. 2 * m :
          /\ X[k].kind = IF k % 2 = 1 THEN "image" ELSE "transform"
          /\ X[k].num = n + k - 1 /\ X[k].page = p /\ X[k].strip = strips[(k + 1) \div 2]
          /\ X[k].refs = << >>
          /\ X[k] = [kind |-> X[k].kind, num |-> X[k].num, page |-> X[k].page,
                     strip |-> X[k].strip, refs |-> X[k].refs]
    BY <1>2 DEF object
  <1>5. ASSUME NEW k \in 1 .. 2 * m
        PROVE  X[k] \in Made
    <2>1. n + k - 1 \in Nat
      BY <1>1
    <2>2. strips[(k + 1) \div 2] \in Nat
      BY <1>1, <1>3
    <2>3. << >> \in Seq(Nat)
      OBVIOUS
    <2>4. X[k].kind \in {"image", "transform"}
      BY <1>4
    <2> DEFINE o == X[k]
    <2>5. /\ o.num \in Nat /\ o.strip \in Nat /\ o.refs \in Seq(Nat) /\ o.page \in Pages \cup {0}
          /\ o.kind \in {"image", "transform"}
      BY <1>4, <2>1, <2>2, <2>3, <2>4
    <2>6. o = [kind |-> o.kind, num |-> o.num, page |-> o.page, strip |-> o.strip,
               refs |-> o.refs]
      BY <1>4
    <2> HIDE DEF o
    <2>7. o \in Made
      BY <2>5, <2>6 DEF Made
    <2> QED  BY <2>7 DEF o
  <1>6. X \in Seq(Made) /\ Len(X) = 2 * m /\ DOMAIN X = 1 .. 2 * m
    <2>1. 2 * m \in Nat
      BY <1>1
    <2>2. DOMAIN X = 1 .. 2 * m /\ X = [k \in 1 .. 2 * m |-> X[k]]
      BY <1>2
    <2> QED  BY <1>5, <2>1, <2>2
  <1>7. /\ Docs(w) /\ Adds(d, w) /\ w.items = d.items \o X
        /\ w.xRef = d.xRef \o [i \in 1 .. 2 * m |-> N + i]
        /\ w.tickets = d.tickets
        /\ w.kids = d.kids /\ w.objCounter = d.objCounter
        /\ w.scratch = d.scratch /\ w.firstStrip = d.firstStrip
        /\ w.ended = d.ended /\ w.undefined = d.undefined
    BY <1>6, WrittenParts DEF N
  <1>8. e = [w EXCEPT !.objCounter = n + 2 * m]
    BY <1>7 DEF injectJPEG, w, X, n, m
  <1> HIDE DEF w, e
  <1>9. SetParts(w, e, n + 2 * m, w.kids, w.scratch, w.firstStrip, w.ended, w.undefined)
    <2>1. /\ e.language = w.language /\ e.margin = w.margin /\ e.items = w.items
          /\ e.tickets = w.tickets
          /\ e.xRef = w.xRef /\ e.kids = w.kids /\ e.objCounter = n + 2 * m
          /\ e.scratch = w.scratch /\ e.firstStrip = w.firstStrip
          /\ e.ended = w.ended /\ e.undefined = w.undefined /\ e.trailer = w.trailer
      BY <1>7, <1>8 DEF Docs
    <2>2. DOMAIN e = DOMAIN w /\ e = [x \in DOMAIN e |-> e[x]]
      BY <1>8
    <2>3. /\ w.scratch \in BOOLEAN /\ w.firstStrip \in BOOLEAN /\ w.ended \in BOOLEAN
          /\ w.undefined \in BOOLEAN /\ w.kids \in Seq(Nat)
      BY <1>7 DEF Docs
    <2>4. n + 2 * m \in Nat
      BY <1>1
    <2> QED  BY <1>7, <2>1, <2>2, <2>3, <2>4, SetIs
  <1>10. e.items = d.items \o X
    BY <1>7, <1>9 DEF SetParts
  <1>11. /\ Len(e.items) = N + 2 * m
         /\ \A k \in 1 .. 2 * m : e.items[N + k] = X[k]
    <2>1. d.items \in Seq(Made) /\ X \in Seq(Made)
      BY <1>6 DEF Docs
    <2>2. /\ Len(d.items \o X) = Len(d.items) + Len(X)
          /\ \A k \in 1 .. Len(X) : (d.items \o X)[Len(d.items) + k] = X[k]
      BY <2>1, Extended
    <2>3. Len(X) = 2 * m /\ Len(d.items) = N
      BY <1>6 DEF N
    <2> QED  BY <1>10, <2>2, <2>3
  <1>12. /\ PagesIn(e.items) = PagesIn(d.items) \cup {N + i : i \in PagesIn(X)}
         /\ \A x : ImagesIn(e.items, x) = ImagesIn(d.items, x) \cup {N + i : i \in ImagesIn(X, x)}
    <2>1. d.items \in Seq(Made) /\ X \in Seq(Made)
      BY <1>6 DEF Docs
    <2> QED  BY <1>10, <2>1, Extended DEF N
  <1>13. PagesIn(X) = {} /\ \A x : x # p => ImagesIn(X, x) = {}
    BY <1>4, <1>6 DEF PagesIn, ImagesIn, IsPage
  <1>14. ImagesIn(X, p) = {2 * j - 1 : j \in 1 .. m}
    <2>1. ImagesIn(X, p) = {k \in 1 .. 2 * m : k % 2 = 1}
      BY <1>4, <1>6 DEF ImagesIn
    <2> QED  BY <1>3, <2>1
  <1>15. {N + i : i \in ImagesIn(X, p)} = {N + 2 * k - 1 : k \in 1 .. m}
    <2>1. \A k \in 1 .. m : N + (2 * k - 1) = N + 2 * k - 1
      BY <1>1
    <2> QED  BY <1>14, <2>1
  <1>16. \A x : x # p => ImagesIn(e.items, x) = ImagesIn(d.items, x)
    BY <1>12, <1>13
  <1>17. \A k \in 1 .. m :
           LET o == e.items[N + 2 * k - 1] IN
             o.kind = "image" /\ o.page = p /\ o.strip = strips[k] /\ o.num = n + 2 * k - 2
    <2> TAKE k \in 1 .. m
    <2> DEFINE j == 2 * k - 1
    <2>1. j \in 1 .. 2 * m /\ j % 2 = 1 /\ (j + 1) \div 2 = k
      BY <1>3
    <2>2. N + 2 * k - 1 = N + j /\ n + 2 * k - 2 = n + j - 1
      BY <1>1
    <2> HIDE DEF j
    <2>3. e.items[N + j] = X[j]
      BY <1>11, <2>1
    <2> QED  BY <1>4, <2>1, <2>2, <2>3
  <1>18. Adds(d, e)
    BY <1>7, <1>9 DEF Adds, SetParts
  <1>19. PagesIn(e.items) = PagesIn(d.items)
    BY <1>12, <1>13
  <1>20. e.undefined = d.undefined
    BY <1>7, <1>9 DEF SetParts
  <1>21. AddsStrips(d, e, p, strips)
    BY <1>11, <1>12, <1>15, <1>16, <1>17, <1>18, <1>19, <1>20 DEF AddsStrips, n, N, m
  <1>22. \A k \in 1 .. 2 * m : e.items[N + k].num = n + k - 1
    BY <1>4, <1>11
  <1> QED  BY <1>7, <1>9, <1>21, <1>22 DEF SetParts, e, n, N, m

(***************************************************************************)
(* The generator takes the first of the line.                              *)
(***************************************************************************)
Sending(d, t, q, L, m) ==
  /\ L \in Seq(Entries) /\ q.page \in 0 .. MaxPages /\ ToldInv(t, q)
  /\ Given(L, t, q, m) /\ Docs(d) /\ DocInv(d, t, q, L)

(* The rest of the line. *)
LEMMA RestParts ==
  ASSUME NEW L \in Seq(Entries), L # << >>
  PROVE  /\ \A i \in 1 .. Len(Tail(L)) : \E j \in 1 .. Len(L) : Tail(L)[i] = L[j]
         /\ \A j \in 1 .. Len(L) : j = 1 \/ \E i \in 1 .. Len(Tail(L)) : Tail(L)[i] = L[j]
  <1>1. /\ Tail(L) \in Seq(Entries) /\ Len(Tail(L)) = Len(L) - 1 /\ Len(L) \in Nat \ {0}
        /\ \A i \in 1 .. Len(L) - 1 : Tail(L)[i] = L[i + 1]
    OBVIOUS
  <1>2. ASSUME NEW i \in 1 .. Len(Tail(L))
        PROVE  \E j \in 1 .. Len(L) : Tail(L)[i] = L[j]
    <2>1. i + 1 \in 1 .. Len(L) /\ i \in 1 .. Len(L) - 1
      BY <1>1
    <2> QED  BY <1>1, <2>1
  <1>3. ASSUME NEW j \in 1 .. Len(L), j # 1
        PROVE  \E i \in 1 .. Len(Tail(L)) : Tail(L)[i] = L[j]
    <2> DEFINE k == j - 1
    <2>1. k \in 1 .. Len(L) - 1 /\ k + 1 = j /\ k \in 1 .. Len(Tail(L))
      BY <1>1, <1>3
    <2> HIDE DEF k
    <2>2. Tail(L)[k] = L[j]
      BY <1>1, <2>1
    <2> QED  BY <2>1, <2>2
  <1> QED  BY <1>2, <1>3

(* What is known when m is taken. *)
LEMMA SendingFacts ==
  ASSUME NEW d, NEW t, NEW q, NEW L, NEW m, Sending(d, t, q, L, m)
  PROVE  /\ L \in Seq(Entries) /\ L # << >> /\ L[1] = m
         /\ InLine(m, t, q) /\ m \in Entries
         /\ q.page \in Nat /\ t \in Tolds
         /\ \A i \in 1 .. Len(Tail(L)) : \E j \in 1 .. Len(L) : Tail(L)[i] = L[j]
         /\ \A j \in 1 .. Len(L) : L[j] = m \/ \E i \in 1 .. Len(Tail(L)) : Tail(L)[i] = L[j]
         /\ \A o : PageGood(d, o, t, q, L) => PageGood(d, o, t, q, Tail(L))
         /\ Makes(m, t) => /\ m.page \in 1 .. q.page /\ m.page \notin t.lost
                           /\ ~Untold(m.page, t, q) /\ m.page \in Pages
                           /\ m.id = "endPage" => t.strips[m.page] = 0
                           /\ \A h \in PagesIn(d.items) : d.items[h].page < m.page
         /\ \A h \in PagesIn(d.items) : PageGood(d, d.items[h], t, q, L)
         /\ Docs(d) /\ DocInv(d, t, q, L)
  <1>1. /\ L \in Seq(Entries) /\ L # << >> /\ L[1] = m /\ InLine(m, t, q)
        /\ q.page \in 0 .. MaxPages /\ t \in Tolds /\ DocInv(d, t, q, L)
    BY DEF Sending, Given, ToldInv
  <1>2. /\ \A i \in 1 .. Len(Tail(L)) : \E j \in 1 .. Len(L) : Tail(L)[i] = L[j]
        /\ \A j \in 1 .. Len(L) : j = 1 \/ \E i \in 1 .. Len(Tail(L)) : Tail(L)[i] = L[j]
    BY <1>1, RestParts
  <1>3. \A o : PageGood(d, o, t, q, L) => PageGood(d, o, t, q, Tail(L))
    BY <1>2 DEF PageGood
  <1>4. 1 \in 1 .. Len(L) /\ m \in Entries
    <2>1. Len(L) \in Nat /\ Len(L) > 0
      BY <1>1, EntryParts
    <2>2. 1 \in 1 .. Len(L)
      BY <2>1
    <2> QED  BY <1>1, <2>2, EntryParts
  <1>5. \A h \in PagesIn(d.items) : PageGood(d, d.items[h], t, q, L)
    BY <1>1 DEF DocInv, PageInv
  <1>6. q.page \in Nat /\ 1 .. q.page \subseteq Pages
    BY <1>1, PclAssumption DEF Pages
  <1>7. ASSUME Makes(m, t)
        PROVE  /\ m.page \in 1 .. q.page /\ m.page \notin t.lost /\ ~Untold(m.page, t, q)
               /\ m.id = "endPage" => t.strips[m.page] = 0
               /\ \A h \in PagesIn(d.items) : d.items[h].page < m.page
    <2>1. m.id \in Paged /\ (m.id = "endPage" => t.strips[m.page] = 0)
      BY <1>7 DEF Makes, Paged
    <2>2. \A h \in PagesIn(d.items) : d.items[h].page < m.page
      BY <1>1, <1>4, <1>5, <1>7 DEF PageGood
    <2> QED  BY <1>1, <1>7, <2>1, <2>2 DEF InLine
  <1> QED  BY <1>1, <1>2, <1>3, <1>4, <1>5, <1>6, <1>7 DEF Sending

(* The document stays as it is. *)
LEMMA DocSkips ==
  ASSUME NEW d, NEW e, NEW t, NEW q, NEW L, NEW m, Sending(d, t, q, L, m),
         e.language = d.language, e.margin = d.margin, e.items = d.items,
         \/ d.undefined /\ e.undefined
         \/ /\ e.undefined = d.undefined \/ (e.undefined /\ d.language = "PWG")
            /\ m.id \notin {"startPage", "send"}
            /\ Makes(m, t) => d.language = "PWG"
  PROVE  DocInv(e, t, q, Tail(L))
  <1> DEFINE R == Tail(L)
  <1>1. /\ L \in Seq(Entries) /\ L # << >> /\ L[1] = m
        /\ \A i \in 1 .. Len(R) : \E j \in 1 .. Len(L) : R[i] = L[j]
        /\ \A j \in 1 .. Len(L) : L[j] = m \/ \E i \in 1 .. Len(R) : R[i] = L[j]
        /\ \A o : PageGood(d, o, t, q, L) => PageGood(d, o, t, q, R)
        /\ Makes(m, t) => (m.id = "endPage" => t.strips[m.page] = 0)
        /\ DocInv(d, t, q, L)
    BY SendingFacts
  <1>2. R # << >> => Behind(m, R[1], t)
    BY DEF Sending, Given
  <1> HIDE DEF R
  <1>3. PageInv(e, t, q, R)
    <2>1. \A o : PageGood(d, o, t, q, R) => PageGood(e, o, t, q, R)
      BY DEF PageGood, Announced
    <2> QED  BY <1>1, <2>1 DEF DocInv, PageInv
  <1>4. \A h, n : Drawn(d, h, n) => Drawn(e, h, n)
    BY DEF Drawn, White
  <1>5. ImageInv(e, t)
    <2>1. \A h : Refers(d, h) => Refers(e, h)
      BY DEF Refers
    <2>2. e.undefined /\ e.language = "PCLm" => d.undefined
      OBVIOUS
    <2>3. ImageInv(d, t)
      BY <1>1 DEF DocInv
    <2> QED  BY <1>4, <2>1, <2>2, <2>3 DEF ImageInv
  <1>6. FrontFits(e, t, R)
    BY <1>2 DEF FrontFits, Fits, Behind, Continues
  <1>7. WholeInv(e, t, R)
    <2> SUFFICES ASSUME ~e.undefined, NEW h \in PagesIn(d.items)
                 PROVE  \/ t.strips[d.items[h].page] = 0 \/ d.items[h].page \in t.cut
                        \/ Complete(e, h)
      BY DEF WholeInv
    <2>1. ~d.undefined /\ L[1].id # "send"
      BY <1>1
    <2>2. Complete(d, h) => Complete(e, h)
      BY <1>4 DEF Complete
    <2> QED  BY <1>1, <2>1, <2>2 DEF DocInv, WholeInv
  <1>8. FoundInv(e, t, q, R)
    <2> SUFFICES ASSUME ~e.undefined, NEW p \in 1 .. q.page PROVE Found(e, t, q, R, p)
      BY DEF FoundInv
    <2>1. Found(d, t, q, L, p)
      BY <1>1 DEF DocInv, FoundInv
    <2>2. CASE \E i \in 1 .. Len(L) : Makes(L[i], t) /\ L[i].page = p
      <3>1. PICK i \in 1 .. Len(L) : Makes(L[i], t) /\ L[i].page = p
        BY <2>2
      <3>2. CASE L[i] = m
        <4>1. d.language = "PWG" /\ t.strips[p] = 0
          BY <1>1, <3>1, <3>2 DEF Makes
        <4> QED  BY <4>1 DEF Found
      <3>3. CASE L[i] # m
        BY <1>1, <3>1, <3>3 DEF Found
      <3> QED  BY <3>2, <3>3
    <2>3. CASE ~(\E i \in 1 .. Len(L) : Makes(L[i], t) /\ L[i].page = p)
      BY <2>1, <2>3 DEF Found
    <2> QED  BY <2>2, <2>3
  <1> QED  BY <1>3, <1>5, <1>6, <1>7, <1>8 DEF DocInv, R

(* What is added behind leaves what there is alone. *)
LEMMA AddsFacts ==
  ASSUME NEW d, NEW e, Docs(d), Adds(d, e)
  PROVE  \A h \in 1 .. Len(d.items) :
           /\ e.items[h] = d.items[h]
           /\ Refers(d, h) => Refers(e, h)
           /\ ImagesIn(e.items, d.items[h].page) = ImagesIn(d.items, d.items[h].page) =>
                \A n \in Nat : Drawn(d, h, n) => Drawn(e, h, n)
  <1> SUFFICES ASSUME NEW h \in 1 .. Len(d.items)
               PROVE  /\ e.items[h] = d.items[h]
                      /\ Refers(d, h) => Refers(e, h)
                      /\ ImagesIn(e.items, d.items[h].page) = ImagesIn(d.items, d.items[h].page) =>
                           \A n \in Nat : Drawn(d, h, n) => Drawn(e, h, n)
    OBVIOUS
  <1>1. e.items[h] = d.items[h] /\ e.margin = d.margin
    BY DEF Adds
  <1>2. ASSUME ImagesIn(e.items, d.items[h].page) = ImagesIn(d.items, d.items[h].page),
               NEW n \in Nat, Drawn(d, h, n)
        PROVE  Drawn(e, h, n)
    <2>1. \A k \in 1 .. n : h + 2 * k \in ImagesIn(d.items, d.items[h].page)
      BY <1>2 DEF Drawn
    <2>2. \A k \in 1 .. n : h + 2 * k \in 1 .. Len(d.items)
      BY <2>1, DocParts
    <2>3. \A k \in 1 .. n : e.items[h + 2 * k] = d.items[h + 2 * k]
      BY <2>2 DEF Adds
    <2> QED  BY <1>1, <1>2, <2>3 DEF Drawn, White
  <1> QED  BY <1>1, <1>2 DEF Refers

(* A page that nothing has been drawn of joins the document. *)
LEMMA DocPages ==
  ASSUME NEW d, NEW e, NEW t, NEW q, NEW L, NEW m, Sending(d, t, q, L, m),
         Makes(m, t), AddsPage(d, e, m.page, t.strips[m.page]),
         m.id = "startPage" /\ d.language = "PCLm" => e.scratch /\ e.firstStrip,
         d.language = "PWG" => m.id = "startPage"
  PROVE  DocInv(e, t, q, Tail(L))
  <1> DEFINE R == Tail(L)
             N == Len(d.items)
             g == N + 1
  <1>1. /\ L \in Seq(Entries) /\ L # << >> /\ L[1] = m
        /\ InLine(m, t, q)
        /\ (\A j \in 1 .. Len(L) : L[j] = m \/ \E i \in 1 .. Len(R) : R[i] = L[j])
        /\ (\A o : PageGood(d, o, t, q, L) => PageGood(d, o, t, q, R))
        /\ DocInv(d, t, q, L)
    BY SendingFacts
  <1>2. /\ m.page \in 1 .. q.page /\ m.page \notin t.lost /\ ~Untold(m.page, t, q)
        /\ (m.id = "endPage" => t.strips[m.page] = 0)
        /\ (\A h \in PagesIn(d.items) : d.items[h].page < m.page)
    BY SendingFacts
  <1>3. /\ Short(m, t) => R # << >> /\ Continues(m, R[1])
        /\ R # << >> => Behind(m, R[1], t)
        /\ \A i \in 1 .. Len(R) : Makes(R[i], t) => m.page < R[i].page
    BY DEF Sending, Given
  <1>4. Docs(d) /\ \A h \in PagesIn(d.items) : PageGood(d, d.items[h], t, q, L)
    BY SendingFacts
  <1>5. /\ d.language \in {"PCLm", "PWG"} /\ d.margin \in Nat /\ N \in Nat
        /\ PagesIn(d.items) \subseteq 1 .. N
        /\ \A x : ImagesIn(d.items, x) \subseteq 1 .. N
        /\ DOMAIN d.items = 1 .. N
    BY <1>4, DocParts
  <1>6. /\ e.language = d.language /\ e.margin = d.margin /\ e.undefined = d.undefined
        /\ \A i \in 1 .. N : e.items[i] = d.items[i]
        /\ PagesIn(e.items) = PagesIn(d.items) \cup {g}
        /\ \A x : ImagesIn(e.items, x) = ImagesIn(d.items, x)
        /\ e.items[g].page = m.page
    BY DEF AddsPage, Adds
  <1>7. /\ d.language = "PWG" => /\ Len(e.items) = g /\ e.items[g].kind = "sheet"
                                 /\ e.items[g].num = t.strips[m.page] /\ e.items[g].strip = 0
        /\ d.language = "PCLm" => /\ Len(e.items) = N + 2 /\ e.items[g].kind = "page"
                                  /\ e.items[g].strip = t.strips[m.page] /\ Refers(e, g)
    BY DEF AddsPage
  <1> HIDE DEF R, N
  <1>8. g \in Nat /\ g > 0 /\ (\A h \in 1 .. N : h < g /\ h # g /\ ~(g < h))
    BY <1>5
  <1>9. PageGood(e, e.items[g], t, q, R)
    <2>1. d.language = "PWG" => t.strips[m.page] > 0
      BY <1>1 DEF InLine
    <2>2. Announced(e, e.items[g]) = t.strips[m.page]
      BY <1>5, <1>6, <1>7 DEF Announced
    <2>3. e.items[g].kind = (IF e.language = "PWG" THEN "sheet" ELSE "page")
      BY <1>5, <1>6, <1>7
    <2> QED  BY <1>2, <1>3, <1>6, <2>1, <2>2, <2>3 DEF PageGood
  <1>10. \A h \in PagesIn(d.items) : h \in 1 .. N /\ e.items[h] = d.items[h]
    BY <1>5, <1>6
  <1>11. \A h \in PagesIn(d.items) : PageGood(e, e.items[h], t, q, R)
    <2>1. \A o : PageGood(d, o, t, q, R) => PageGood(e, o, t, q, R)
      BY <1>6 DEF PageGood, Announced
    <2> QED  BY <1>1, <1>4, <1>10, <2>1
  <1>12. PageInv(e, t, q, R)
    <2>1. \A h \in PagesIn(e.items) : PageGood(e, e.items[h], t, q, R)
      BY <1>6, <1>9, <1>11
    <2>2. ASSUME NEW h \in PagesIn(e.items), NEW k \in PagesIn(e.items), h < k
          PROVE  e.items[h].page < e.items[k].page
      <3>1. CASE k = g
        <4>1. h \in PagesIn(d.items)
          BY <1>6, <1>8, <2>2, <3>1
        <4>2. e.items[h] = d.items[h] /\ d.items[h].page < m.page /\ e.items[k].page = m.page
          BY <1>2, <1>6, <1>10, <3>1, <4>1
        <4> QED  BY <4>2
      <3>2. CASE k \in PagesIn(d.items) /\ h \in PagesIn(d.items)
        BY <1>1, <1>10, <2>2, <3>2 DEF DocInv, PageInv
      <3>3. CASE k \in PagesIn(d.items) /\ h = g
        BY <1>8, <1>10, <2>2, <3>3
      <3> QED  BY <1>6, <3>1, <3>2, <3>3
    <2>3. e.language = "PWG" => \A i \in 1 .. Len(e.items) : IsPage(e.items[i])
      <3> SUFFICES ASSUME e.language = "PWG", NEW i \in 1 .. Len(e.items)
                   PROVE  IsPage(e.items[i])
        OBVIOUS
      <3>1. i \in 1 .. N \/ i = g
        BY <1>5, <1>6, <1>7
      <3>2. i \in 1 .. N => IsPage(d.items[i])
        BY <1>1, <1>6 DEF DocInv, PageInv, N
      <3> QED  BY <1>6, <1>7, <3>1, <3>2 DEF IsPage
    <2> QED  BY <2>1, <2>2, <2>3 DEF PageInv
  <1>13. /\ \A h \in PagesIn(d.items) : Refers(d, h) => Refers(e, h)
         /\ \A h \in PagesIn(d.items) : \A n \in Nat : Drawn(d, h, n) => Drawn(e, h, n)
    <2>1. Adds(d, e)
      BY DEF AddsPage
    <2> QED  BY <1>4, <1>6, <1>10, <2>1, AddsFacts DEF N
  <1>14. d.language = "PCLm" => Drawn(e, g, 0)
    <2> SUFFICES ASSUME d.language = "PCLm" PROVE Drawn(e, g, 0)
      OBVIOUS
    <2>1. ASSUME NEW i \in ImagesIn(d.items, m.page) PROVE FALSE
      <3>1. i \in 1 .. N /\ d.items[i].kind = "image" /\ d.items[i].page = m.page
        BY <1>5, <2>1 DEF ImagesIn
      <3>2. \E h \in PagesIn(d.items) : d.items[h].page = m.page
        BY <1>1, <1>2, <3>1 DEF DocInv, ImageInv, N
      <3>3. PICK h \in PagesIn(d.items) : d.items[h].page = m.page
        BY <3>2
      <3>4. d.items[h].page < m.page /\ m.page \in Nat
        BY <1>2
      <3> QED  BY <3>3, <3>4
    <2>2. ImagesIn(e.items, e.items[g].page) = {}
      BY <1>6, <2>1
    <2>3. 1 .. 0 = {}
      OBVIOUS
    <2> QED  BY <2>2, <2>3 DEF Drawn
  <1>15. ImageInv(e, t)
    <2> SUFFICES ASSUME d.language = "PCLm" PROVE ImageInv(e, t)
      BY <1>6 DEF ImageInv
    <2>1. ASSUME NEW h \in PagesIn(e.items)
          PROVE  /\ Refers(e, h)
                 /\ \E n \in 0 .. e.margin + e.items[h].strip : Drawn(e, h, n)
      <3>1. CASE h = g
        <4>1. t.strips[m.page] \in Nat
          <5>0. t \in Tolds /\ (Makes(m, t) => m.page \in Pages)
            BY SendingFacts
          <5>1. t \in Tolds /\ m.page \in Pages
            BY <5>0
          <5> DEFINE s == t.strips[m.page]
          <5>2. s \in {0} \cup Stripes
            BY <5>1 DEF Tolds
          <5>3. \A x \in Stripes : x \in Nat
            BY PclAssumption
          <5> HIDE DEF s
          <5>4. s \in Nat
            BY <5>2, <5>3
          <5> QED  BY <5>4 DEF s
        <4>2. 0 \in 0 .. e.margin + e.items[g].strip
          BY <1>5, <1>6, <1>7, <4>1
        <4> QED  BY <1>7, <1>14, <3>1, <4>2
      <3>2. CASE h \in PagesIn(d.items)
        <4>1. Refers(d, h) /\ \E n \in 0 .. d.margin + d.items[h].strip : Drawn(d, h, n)
          BY <1>1, <3>2 DEF DocInv, ImageInv
        <4>2. e.items[h] = d.items[h] /\ e.margin = d.margin
          BY <1>6, <1>10, <3>2
        <4>3. \A n \in 0 .. d.margin + d.items[h].strip : n \in Nat
          OBVIOUS
        <4> QED  BY <1>13, <3>2, <4>1, <4>2, <4>3
      <3> QED  BY <1>6, <3>1, <3>2
    <2>2. ASSUME NEW i \in 1 .. Len(e.items), e.items[i].kind = "image"
          PROVE  /\ e.items[i].num = i + Tree
                 /\ \/ e.items[i].page \in t.lost
                    \/ \E h \in PagesIn(e.items) : e.items[h].page = e.items[i].page
      <3>1. i \in ImagesIn(e.items, e.items[i].page) \/ i \notin DOMAIN e.items
        BY <2>2 DEF ImagesIn
      <3>2. i = g => FALSE
        BY <1>7, <2>2
      <3>3. i = N + 2 => FALSE
        <4> SUFFICES ASSUME i = N + 2 PROVE FALSE
          OBVIOUS
        <4>1. i \notin 1 .. N
          BY <1>5
        <4>2. i \notin ImagesIn(e.items, e.items[i].page)
          BY <1>5, <1>6, <4>1
        <4>3. i \in DOMAIN e.items
          <5>1. Docs(d) /\ Len(e.items) = N + 2
            BY <1>4, <1>7
          <5> QED  BY <2>2
        <4> QED  BY <3>1, <4>2, <4>3
      <3>4. i \in 1 .. N
        BY <1>5, <1>7, <2>2, <3>2, <3>3
      <3>5. e.items[i] = d.items[i]
        BY <1>6, <3>4
      <3>6. /\ d.items[i].num = i + Tree
            /\ \/ d.items[i].page \in t.lost
               \/ \E h \in PagesIn(d.items) : d.items[h].page = d.items[i].page
        BY <1>1, <2>2, <3>4, <3>5 DEF DocInv, ImageInv, N
      <3> QED  BY <1>6, <1>10, <3>5, <3>6
    <2>3. e.undefined => \E p \in t.lost : t.strips[p] > 0
      BY <1>1, <1>6 DEF DocInv, ImageInv
    <2> QED  BY <2>1, <2>2, <2>3 DEF ImageInv
  <1>16. FrontFits(e, t, R)
    <2> SUFFICES ASSUME R # << >>, R[1].id = "send", R[1].page \notin t.lost
                 PROVE  IF e.language = "PWG"
                          THEN /\ Len(e.items) > 0
                               /\ e.items[Len(e.items)].page = R[1].page
                               /\ e.items[Len(e.items)].strip = R[1].row
                          ELSE /\ e.scratch
                               /\ \E h \in PagesIn(e.items), n \in Nat : Ready(e, R[1], h, n)
      BY DEF FrontFits, Fits
    <2>1. m.id = "startPage" /\ R[1].row = 0 /\ R[1].page = m.page
      BY <1>3 DEF Behind, Continues, Makes
    <2>2. CASE d.language = "PWG"
      BY <1>6, <1>7, <1>8, <2>1, <2>2
    <2>3. CASE d.language = "PCLm"
      <3>1. e.scratch /\ e.firstStrip
        BY <2>1, <2>3
      <3>2. Len(e.items) = g + 1 + 2 * 0 /\ (~(e.margin > 0) => 0 = e.margin + 0)
        BY <1>5, <1>6, <1>7, <2>3
      <3>3. Ready(e, R[1], g, 0)
        BY <1>6, <1>14, <2>1, <2>3, <3>1, <3>2 DEF Ready
      <3>4. g \in PagesIn(e.items) /\ 0 \in Nat
        BY <1>6
      <3> QED  BY <1>6, <2>3, <3>1, <3>3, <3>4
    <2> QED  BY <1>5, <2>2, <2>3
  <1>17. WholeInv(e, t, R)
    <2> SUFFICES ASSUME ~d.undefined, NEW h \in PagesIn(e.items)
                 PROVE  \/ t.strips[e.items[h].page] = 0 \/ e.items[h].page \in t.cut
                        \/ Complete(e, h)
                        \/ R # << >> /\ R[1].id = "send" /\ R[1].page = e.items[h].page
      BY <1>6 DEF WholeInv
    <2>1. CASE h = g
      <3>1. m.id = "startPage" \/ t.strips[m.page] = 0
        BY <1>2 DEF Makes
      <3>2. Short(m, t) => R # << >> /\ R[1].id = "send" /\ R[1].page = m.page
        BY <1>3 DEF Continues
      <3> QED  BY <1>6, <2>1, <3>1, <3>2 DEF Short
    <2>2. CASE h \in PagesIn(d.items)
      <3>1. \/ t.strips[d.items[h].page] = 0 \/ d.items[h].page \in t.cut \/ Complete(d, h)
            \/ L[1].id = "send"
        BY <1>1, <2>2 DEF DocInv, WholeInv
      <3>2. L[1].id # "send"
        BY <1>1 DEF Makes
      <3>3. e.items[h] = d.items[h] /\ d.items[h].strip \in Nat
        BY <1>4, <1>10, <2>2, DocParts DEF N
      <3>4. d.margin + d.items[h].strip \in Nat
        BY <1>5, <3>3
      <3>5. Complete(d, h) => Complete(e, h)
        BY <1>6, <1>13, <2>2, <3>3, <3>4 DEF Complete
      <3> QED  BY <3>1, <3>2, <3>3, <3>5
    <2> QED  BY <1>6, <2>1, <2>2
  <1>18. FoundInv(e, t, q, R)
    <2> SUFFICES ASSUME ~d.undefined, NEW p \in 1 .. q.page PROVE Found(e, t, q, R, p)
      BY <1>6 DEF FoundInv
    <2>1. Found(d, t, q, L, p)
      BY <1>1 DEF DocInv, FoundInv
    <2>2. CASE \E i \in 1 .. Len(L) : Makes(L[i], t) /\ L[i].page = p
      <3>1. PICK i \in 1 .. Len(L) : Makes(L[i], t) /\ L[i].page = p
        BY <2>2
      <3>2. CASE L[i] = m
        BY <1>6, <3>1, <3>2 DEF Found
      <3>3. CASE L[i] # m
        BY <1>1, <3>1, <3>3 DEF Found
      <3> QED  BY <3>2, <3>3
    <2>3. CASE \E h \in PagesIn(d.items) : d.items[h].page = p
      BY <1>6, <1>10, <2>3 DEF Found
    <2>4. CASE \/ p \in t.lost \/ Untold(p, t, q) \/ (d.language = "PWG" /\ t.strips[p] = 0)
      BY <1>6, <2>4 DEF Found
    <2> QED  BY <2>1, <2>2, <2>3, <2>4 DEF Found
  <1> QED  BY <1>12, <1>15, <1>16, <1>17, <1>18 DEF DocInv, R

(* A stripe that is given changes no page but for what is drawn of it. *)
LEMMA SendKeeps ==
  ASSUME NEW d, NEW e, NEW t, NEW q, NEW L, NEW m, Sending(d, t, q, L, m), m.id = "send",
         e.language = d.language, e.undefined = d.undefined,
         PagesIn(e.items) = PagesIn(d.items),
         \A h \in PagesIn(d.items) :
           /\ e.items[h].kind = d.items[h].kind /\ e.items[h].page = d.items[h].page
           /\ Announced(e, e.items[h]) = Announced(d, d.items[h]),
         d.language = "PWG" => \A i \in 1 .. Len(e.items) : IsPage(e.items[i])
  PROVE  PageInv(e, t, q, Tail(L)) /\ FoundInv(e, t, q, Tail(L))
  <1> DEFINE R == Tail(L)
  <1>1. /\ (\A j \in 1 .. Len(L) : L[j] = m \/ \E i \in 1 .. Len(R) : R[i] = L[j])
        /\ (\A o : PageGood(d, o, t, q, L) => PageGood(d, o, t, q, R))
        /\ DocInv(d, t, q, L)
        /\ ~Makes(m, t)
    BY SendingFacts DEF Makes
  <1>2. \A h \in PagesIn(d.items) : PageGood(d, d.items[h], t, q, L)
    BY SendingFacts
  <1> HIDE DEF R
  <1>3. PageInv(e, t, q, R)
    <2>1. \A h \in PagesIn(d.items) : PageGood(e, e.items[h], t, q, R)
      BY <1>1, <1>2 DEF PageGood
    <2>2. \A h, g \in PagesIn(e.items) : h < g => e.items[h].page < e.items[g].page
      BY <1>1 DEF DocInv, PageInv
    <2> QED  BY <2>1, <2>2 DEF PageInv
  <1>4. FoundInv(e, t, q, R)
    <2> SUFFICES ASSUME ~e.undefined, NEW p \in 1 .. q.page PROVE Found(e, t, q, R, p)
      BY DEF FoundInv
    <2>1. Found(d, t, q, L, p)
      BY <1>1 DEF DocInv, FoundInv
    <2>2. CASE \E i \in 1 .. Len(L) : Makes(L[i], t) /\ L[i].page = p
      <3>1. PICK i \in 1 .. Len(L) : Makes(L[i], t) /\ L[i].page = p
        BY <2>2
      <3> QED  BY <1>1, <3>1 DEF Found
    <2>3. CASE \E h \in PagesIn(d.items) : d.items[h].page = p
      BY <2>3 DEF Found
    <2>4. CASE \/ p \in t.lost \/ Untold(p, t, q) \/ (d.language = "PWG" /\ t.strips[p] = 0)
      BY <2>4 DEF Found
    <2> QED  BY <2>1, <2>2, <2>3, <2>4 DEF Found
  <1> QED  BY <1>3, <1>4 DEF R

(* The strips that come with a stripe, those of the margin first. *)
LEMMA StripsToCome ==
  ASSUME NEW g \in Nat, NEW r \in Nat, NEW f \in BOOLEAN
  PROVE  LET white  == IF f THEN [i \in 1 .. g |-> 0] ELSE << >>
             strips == white \o <<r>>
             w      == IF f THEN g ELSE 0
         IN  /\ strips \in Seq(Nat) /\ Len(strips) = w + 1
             /\ \A k \in 1 .. w : strips[k] = 0
             /\ strips[w + 1] = r
  <1> DEFINE white  == IF f THEN [i \in 1 .. g |-> 0] ELSE << >>
             strips == white \o <<r>>
             w      == IF f THEN g ELSE 0
  <1>1. white \in Seq(Nat) /\ Len(white) = w /\ w \in Nat /\ \A k \in 1 .. w : white[k] = 0
    <2>1. CASE f
      <3>1. [i \in 1 .. g |-> 0] \in Seq(Nat)
        OBVIOUS
      <3> QED  BY <2>1, <3>1
    <2>2. CASE ~f
      BY <2>2
    <2> QED  BY <2>1, <2>2
  <1> HIDE DEF white, w
  <1>2. <<r>> \in Seq(Nat) /\ Len(<<r>>) = 1 /\ <<r>>[1] = r
    OBVIOUS
  <1>3. /\ strips \in Seq(Nat) /\ Len(strips) = Len(white) + Len(<<r>>)
        /\ \A i \in 1 .. Len(white) + Len(<<r>>) :
             strips[i] = IF i <= Len(white) THEN white[i] ELSE <<r>>[i - Len(white)]
    BY <1>1, <1>2, ConcatProperties
  <1> HIDE DEF strips
  <1>4. \A k \in 1 .. w : k \in 1 .. w + 1 /\ k <= w
    BY <1>1
  <1>5. w + 1 \in 1 .. w + 1 /\ ~(w + 1 <= w) /\ (w + 1) - w = 1
    BY <1>1
  <1> QED  BY <1>1, <1>2, <1>3, <1>4, <1>5 DEF white, strips, w

(* More of a page is drawn: n strips are there, w are of the margin. *)
DrawsOn(d, e, h, n, w, r, strips) ==
  /\ h \in 1 .. Len(d.items) /\ n \in Nat /\ w \in Nat /\ r \in Nat /\ strips \in Seq(Nat)
  /\ Drawn(d, h, n) /\ Len(d.items) = h + 1 + 2 * n
  /\ AddsStrips(d, e, d.items[h].page, strips)
  /\ Len(strips) = w + 1 /\ (\A k \in 1 .. w : strips[k] = 0) /\ strips[w + 1] = r + 1
  /\ n + w = d.margin + r /\ (w > 0 => n = 0 /\ r = 0)

(* One more stripe below those that are drawn. *)
LEMMA DrawsMore ==
  ASSUME NEW d, NEW e, Docs(d), NEW h, NEW n, NEW w, NEW r, NEW strips,
         DrawsOn(d, e, h, n, w, r, strips)
  PROVE  Drawn(e, h, d.margin + r + 1) /\ Len(e.items) = h + 1 + 2 * (d.margin + r + 1)
  <1> DEFINE N == Len(d.items)
             z == d.margin + r + 1
             p == d.items[h].page
  <1>0. /\ h \in 1 .. N /\ n \in Nat /\ w \in Nat /\ r \in Nat /\ strips \in Seq(Nat)
        /\ Drawn(d, h, n) /\ N = h + 1 + 2 * n
        /\ AddsStrips(d, e, p, strips)
        /\ Len(strips) = w + 1 /\ (\A k \in 1 .. w : strips[k] = 0) /\ strips[w + 1] = r + 1
        /\ n + w = d.margin + r /\ (w > 0 => n = 0 /\ r = 0)
    BY DEF DrawsOn
  <1>1. /\ N \in Nat /\ d.margin \in Nat /\ h \in 1 .. N /\ z \in Nat /\ N = h + 1 + 2 * n
        /\ z = n + w + 1 /\ n \in Nat /\ w \in Nat /\ r \in Nat
        /\ n + w = d.margin + r /\ (w > 0 => n = 0 /\ r = 0)
    BY <1>0, DocParts
  <1>2. /\ Len(e.items) = N + 2 * (w + 1) /\ e.margin = d.margin
        /\ e.items[h] = d.items[h]
        /\ \A i \in 1 .. N : e.items[i] = d.items[i]
        /\ ImagesIn(e.items, p) = ImagesIn(d.items, p) \cup {N + 2 * k - 1 : k \in 1 .. w + 1}
        /\ \A k \in 1 .. w + 1 : e.items[N + 2 * k - 1].strip = strips[k]
    BY <1>0 DEF AddsStrips, Adds
  <1>3. /\ ImagesIn(d.items, p) = {h + 2 * k : k \in 1 .. n}
        /\ \A k \in 1 .. n : d.items[h + 2 * k].strip = White(d, k)
    BY <1>0 DEF Drawn
  <1>4. \A k \in 1 .. n : h + 2 * k \in 1 .. N
    BY <1>1
  <1> HIDE DEF N, z, p
  <1>5. \A k \in 1 .. w + 1 : N + 2 * k - 1 = h + 2 * (n + k) /\ n + k \in 1 .. z
    BY <1>0, <1>1
  <1>6. \A k \in 1 .. z : k \in 1 .. n \/ \E j \in 1 .. w + 1 : k = n + j
    <2> TAKE k \in 1 .. z
    <2>1. CASE k > n
      <3>1. k - n \in 1 .. w + 1 /\ k = n + (k - n)
        BY <1>1, <2>1
      <3> QED  BY <3>1
    <2>2. CASE ~(k > n)
      BY <1>1, <2>2
    <2> QED  BY <2>1, <2>2
  <1>7. \A k \in 1 .. n : k \in 1 .. z
    BY <1>0, <1>1
  <1>8. ImagesIn(e.items, p) = {h + 2 * k : k \in 1 .. z}
    <2>1. ImagesIn(e.items, p) =
            {h + 2 * k : k \in 1 .. n} \cup {N + 2 * k - 1 : k \in 1 .. w + 1}
      BY <1>2, <1>3
    <2>2. \A k \in 1 .. n : h + 2 * k \in {h + 2 * j : j \in 1 .. z}
      BY <1>7
    <2>3. \A k \in 1 .. w + 1 : N + 2 * k - 1 \in {h + 2 * j : j \in 1 .. z}
      BY <1>5
    <2>4. ASSUME NEW k \in 1 .. z
          PROVE  h + 2 * k \in
                   {h + 2 * i : i \in 1 .. n} \cup {N + 2 * i - 1 : i \in 1 .. w + 1}
      <3>1. CASE k \in 1 .. n
        BY <3>1
      <3>2. ASSUME NEW j \in 1 .. w + 1, k = n + j
            PROVE  h + 2 * k = N + 2 * j - 1
        BY <1>5, <3>2
      <3> QED  BY <1>6, <3>1, <3>2
    <2> QED  BY <2>1, <2>2, <2>3, <2>4
  <1>9. \A k \in 1 .. z : e.items[h + 2 * k].strip = White(d, k)
    <2> TAKE k \in 1 .. z
    <2>1. CASE k \in 1 .. n
      BY <1>2, <1>3, <1>4, <2>1
    <2>2. ASSUME NEW j \in 1 .. w + 1, k = n + j
          PROVE  e.items[h + 2 * k].strip = White(d, k)
      <3>1. e.items[h + 2 * k].strip = strips[j]
        BY <1>2, <1>5, <2>2
      <3>2. CASE j = w + 1
        <4>1. k = d.margin + r + 1
          BY <1>0, <1>1, <2>2, <3>2
        <4>2. ~(k <= d.margin) /\ k - d.margin = r + 1
          BY <1>0, <1>1, <4>1
        <4> QED  BY <1>0, <3>1, <3>2, <4>2 DEF White
      <3>3. CASE j # w + 1
        <4>1. j \in 1 .. w /\ w > 0
          BY <1>0, <3>3
        <4>2. k <= d.margin
          BY <1>0, <1>1, <2>2, <4>1
        <4> QED  BY <1>0, <3>1, <4>1, <4>2 DEF White
      <3> QED  BY <3>2, <3>3
    <2> QED  BY <1>6, <2>1, <2>2
  <1>10. Len(e.items) = h + 1 + 2 * z
    BY <1>0, <1>1, <1>2
  <1> QED  BY <1>2, <1>8, <1>9, <1>10 DEF Drawn, White, z, p

(* PCLm draws a stripe, below the margin when it is the first. *)
LEMMA DocStrips ==
  ASSUME NEW d, NEW e, NEW t, NEW q, NEW L, NEW m, Sending(d, t, q, L, m), m.id = "send",
         d.language = "PCLm", ~d.undefined, d.objCounter = Len(d.items) + Tree + 1,
         NEW w \in Nat, NEW strips \in Seq(Nat), w = (IF d.firstStrip THEN d.margin ELSE 0),
         Len(strips) = w + 1, \A k \in 1 .. w : strips[k] = 0, strips[w + 1] = m.row + 1,
         AddsStrips(d, e, m.page, strips),
         e.scratch = d.scratch,
         e.firstStrip = (IF d.margin > 0 THEN FALSE ELSE d.firstStrip)
  PROVE  DocInv(e, t, q, Tail(L))
  <1> DEFINE R == Tail(L)
             N == Len(d.items)
             z == d.margin + m.row + 1
  <1>1. /\ L # << >> /\ L[1] = m
        /\ InLine(m, t, q) /\ m \in Entries
        /\ Docs(d) /\ DocInv(d, t, q, L)
        /\ \A h \in PagesIn(d.items) : PageGood(d, d.items[h], t, q, L)
    BY SendingFacts
  <1>2. /\ Short(m, t) => R # << >> /\ Continues(m, R[1])
        /\ R # << >> => Behind(m, R[1], t)
    BY DEF Sending, Given
  <1>3. /\ d.margin \in Nat /\ N \in Nat /\ PagesIn(d.items) \subseteq 1 .. N
        /\ \A h \in PagesIn(d.items) : d.items[h].strip \in Nat
    BY <1>1, DocParts
  <1>4. /\ e.language = d.language /\ e.margin = d.margin /\ e.undefined = d.undefined
        /\ (\A i \in 1 .. N : e.items[i] = d.items[i])
        /\ PagesIn(e.items) = PagesIn(d.items)
        /\ (\A x : x # m.page => ImagesIn(e.items, x) = ImagesIn(d.items, x))
        /\ Len(e.items) = N + 2 * (w + 1)
    BY DEF AddsStrips, Adds
  <1>5. m.row \in Nat
    BY <1>1 DEF Entries
  <1> HIDE DEF R, N
  <1>6. /\ \A h \in PagesIn(d.items) : h \in 1 .. N /\ e.items[h] = d.items[h]
        /\ \A h \in PagesIn(d.items) : Refers(d, h) => Refers(e, h)
    <2>1. Adds(d, e)
      BY DEF AddsStrips
    <2> QED  BY <1>1, <1>3, <1>4, <2>1, AddsFacts DEF N
  <1>7. \A h \in PagesIn(d.items) : d.items[h].page # m.page =>
          \A n \in Nat : Drawn(d, h, n) => Drawn(e, h, n)
    <2> SUFFICES ASSUME NEW h \in PagesIn(d.items), d.items[h].page # m.page
                 PROVE  \A n \in Nat : Drawn(d, h, n) => Drawn(e, h, n)
      OBVIOUS
    <2>1. Adds(d, e)
      BY DEF AddsStrips
    <2>2. ImagesIn(e.items, d.items[h].page) = ImagesIn(d.items, d.items[h].page)
      BY <1>4
    <2>3. h \in 1 .. Len(d.items) /\ Docs(d)
      BY <1>1, <1>6 DEF N
    <2> QED  BY <2>1, <2>2, <2>3, AddsFacts
  <1>8. PageInv(e, t, q, R) /\ FoundInv(e, t, q, R)
    <2>1. \A h \in PagesIn(d.items) : Announced(e, d.items[h]) = Announced(d, d.items[h])
      BY <1>4 DEF Announced
    <2> QED  BY <1>4, <1>6, <2>1, SendKeeps DEF R
  (* The page of the stripe, when it is there. *)
  <1>9. ASSUME m.page \notin t.lost
        PROVE  /\ d.scratch
               /\ \E h \in PagesIn(d.items) :
                    /\ d.items[h].page = m.page
                    /\ Drawn(e, h, z) /\ Len(e.items) = h + 1 + 2 * z
                    /\ z <= d.margin + d.items[h].strip
                    /\ d.items[h].strip = t.strips[m.page]
    <2>1. Fits(d, t, m)
      BY <1>1 DEF DocInv, FrontFits
    <2>2. d.scratch /\ \E h \in PagesIn(d.items), n \in Nat : Ready(d, m, h, n)
      BY <1>9, <2>1 DEF Fits
    <2>3. PICK h \in PagesIn(d.items), n \in Nat : Ready(d, m, h, n)
      BY <2>2
    <2>4. /\ d.items[h].page = m.page /\ Drawn(d, h, n) /\ N = h + 1 + 2 * n
          /\ IF d.firstStrip /\ d.margin > 0 THEN n = 0 /\ m.row = 0 ELSE n = d.margin + m.row
      BY <2>3 DEF Ready, N
    <2>5. n + w = d.margin + m.row /\ (w > 0 => n = 0 /\ m.row = 0)
      <3>1. CASE d.firstStrip /\ d.margin > 0
        BY <1>3, <1>5, <2>4, <3>1
      <3>2. CASE ~(d.firstStrip /\ d.margin > 0)
        <4>1. n = d.margin + m.row /\ w = 0
          BY <1>3, <2>4, <3>2
        <4> QED  BY <1>3, <1>5, <4>1
      <3> QED  BY <3>1, <3>2
    <2>6. Drawn(e, h, z) /\ Len(e.items) = h + 1 + 2 * z
      <3>1. AddsStrips(d, e, d.items[h].page, strips) /\ Docs(d)
        BY <1>1, <2>4
      <3>2. h \in 1 .. Len(d.items) /\ Len(d.items) = h + 1 + 2 * n
        BY <1>6, <2>4 DEF N
      <3>3. DrawsOn(d, e, h, n, w, m.row, strips)
        BY <1>5, <2>4, <2>5, <3>1, <3>2 DEF DrawsOn
      <3> QED  BY <3>1, <3>3, DrawsMore
    <2>7. d.items[h].strip = t.strips[m.page]
      BY <1>1, <2>4 DEF PageGood, Announced
    <2>8. m.row < t.strips[m.page] /\ d.items[h].strip \in Nat
      BY <1>1, <1>3 DEF InLine
    <2>9. z <= d.margin + d.items[h].strip
      BY <1>3, <1>5, <2>7, <2>8
    <2> QED  BY <2>2, <2>4, <2>6, <2>7, <2>9
  <1>10. z \in Nat
    BY <1>3, <1>5
  <1> HIDE DEF z
  <1>11. \A h \in PagesIn(d.items) : d.items[h].page = m.page =>
           /\ m.page \notin t.lost /\ d.scratch
           /\ Drawn(e, h, z) /\ Len(e.items) = h + 1 + 2 * z
           /\ z <= d.margin + d.items[h].strip /\ d.items[h].strip = t.strips[m.page]
    <2> SUFFICES ASSUME NEW h \in PagesIn(d.items), d.items[h].page = m.page
                 PROVE  /\ m.page \notin t.lost /\ d.scratch
                        /\ Drawn(e, h, z) /\ Len(e.items) = h + 1 + 2 * z
                        /\ z <= d.margin + d.items[h].strip /\ d.items[h].strip = t.strips[m.page]
      OBVIOUS
    <2>1. m.page \notin t.lost
      BY <1>1 DEF PageGood
    <2>2. PICK g \in PagesIn(d.items) :
            /\ d.items[g].page = m.page
            /\ Drawn(e, g, z) /\ Len(e.items) = g + 1 + 2 * z
            /\ z <= d.margin + d.items[g].strip
            /\ d.items[g].strip = t.strips[m.page]
      BY <1>9, <2>1
    <2>3. g = h
      <3>1. /\ g < h => d.items[g].page < d.items[h].page
            /\ h < g => d.items[h].page < d.items[g].page
        BY <1>1 DEF DocInv, PageInv
      <3>2. d.items[h].page \in Nat
        BY <1>1 DEF PageGood
      <3>3. ~(g < h) /\ ~(h < g)
        BY <2>2, <3>1, <3>2
      <3> QED  BY <1>3, <3>3
    <2> QED  BY <1>9, <2>1, <2>2, <2>3
  <1>12. ImageInv(e, t)
    <2>1. ASSUME NEW h \in PagesIn(d.items)
          PROVE  /\ Refers(e, h)
                 /\ \E n \in 0 .. e.margin + e.items[h].strip : Drawn(e, h, n)
      <3>1. Refers(d, h) /\ \E n \in 0 .. d.margin + d.items[h].strip : Drawn(d, h, n)
        BY <1>1 DEF DocInv, ImageInv
      <3>2. e.items[h] = d.items[h] /\ e.margin = d.margin
        BY <1>4, <1>6
      <3>3. CASE d.items[h].page = m.page
        <4>1. Drawn(e, h, z) /\ z \in 0 .. d.margin + d.items[h].strip
          BY <1>3, <1>10, <1>11, <3>3
        <4> QED  BY <1>6, <3>1, <3>2, <4>1
      <3>4. CASE d.items[h].page # m.page
        <4>1. \A n \in 0 .. d.margin + d.items[h].strip : n \in Nat
          OBVIOUS
        <4> QED  BY <1>6, <1>7, <3>1, <3>2, <3>4, <4>1
      <3> QED  BY <3>3, <3>4
    <2>2. ASSUME NEW i \in 1 .. Len(e.items), e.items[i].kind = "image"
          PROVE  /\ e.items[i].num = i + Tree
                 /\ \/ e.items[i].page \in t.lost
                    \/ \E h \in PagesIn(e.items) : e.items[h].page = e.items[i].page
      <3>1. CASE i \in 1 .. N
        <4>1. /\ d.items[i].num = i + Tree
              /\ \/ d.items[i].page \in t.lost
                 \/ \E h \in PagesIn(d.items) : d.items[h].page = d.items[i].page
          BY <1>1, <1>4, <2>2, <3>1 DEF DocInv, ImageInv, N
        <4> QED  BY <1>4, <1>6, <3>1, <4>1
      <3>2. CASE i \notin 1 .. N
        <4>1. i \in ImagesIn(e.items, e.items[i].page)
          <5>1. DOMAIN e.items = 1 .. Len(e.items) \/ i \in DOMAIN e.items
            OBVIOUS
          <5> QED  BY <2>2, <5>1 DEF ImagesIn
        <4>2. \A x : ImagesIn(d.items, x) \subseteq 1 .. N
          BY <1>1, DocParts DEF N
        <4>3. e.items[i].page = m.page
          BY <1>4, <3>2, <4>1, <4>2
        <4>4. \E k \in 1 .. w + 1 : i = N + 2 * k - 1
          <5>1. ImagesIn(e.items, m.page) =
                  ImagesIn(d.items, m.page) \cup {N + 2 * k - 1 : k \in 1 .. w + 1}
            BY DEF AddsStrips, N
          <5>2. i \in ImagesIn(e.items, m.page) /\ i \notin ImagesIn(d.items, m.page)
            BY <3>2, <4>1, <4>2, <4>3
          <5> QED  BY <5>1, <5>2
        <4>5. PICK k \in 1 .. w + 1 : i = N + 2 * k - 1
          BY <4>4
        <4>6. e.items[i].num = d.objCounter + 2 * k - 2
          BY <4>5 DEF AddsStrips, N
        <4>7. e.items[i].num = i + Tree
          <5>1. d.objCounter = N + 3 /\ Tree = 2
            BY <1>3 DEF Tree, N
          <5>2. k \in Nat
            OBVIOUS
          <5>3. e.items[i].num = (N + 3) + 2 * k - 2
            BY <4>6, <5>1
          <5>4. N \in Nat
            BY <1>3
          <5>5. \A a, b \in Nat : (a + 3) + 2 * b - 2 = (a + 2 * b - 1) + 2
            OBVIOUS
          <5> HIDE DEF N
          <5> QED  BY <4>5, <5>1, <5>2, <5>3, <5>4, <5>5
        <4> QED  BY <1>4, <1>6, <1>9, <4>3, <4>7
      <3> QED  BY <3>1, <3>2
    <2>3. e.undefined => \E p \in t.lost : t.strips[p] > 0
      BY <1>4
    <2> QED  BY <1>4, <2>1, <2>2, <2>3 DEF ImageInv
  <1>13. FrontFits(e, t, R)
    <2> SUFFICES ASSUME R # << >>, R[1].id = "send", R[1].page \notin t.lost
                 PROVE  e.scratch /\ \E h \in PagesIn(e.items), n \in Nat : Ready(e, R[1], h, n)
      BY <1>4 DEF FrontFits, Fits
    <2>1. R[1].row = m.row + 1 /\ R[1].page = m.page
      BY <1>2 DEF Behind, Continues
    <2>2. PICK h \in PagesIn(d.items) :
            d.items[h].page = m.page /\ Drawn(e, h, z) /\ Len(e.items) = h + 1 + 2 * z
      BY <1>9, <2>1
    <2>3. z = e.margin + R[1].row
      <3>1. z = d.margin + m.row + 1
        BY DEF z
      <3>2. e.margin + R[1].row = d.margin + (m.row + 1)
        BY <1>4, <2>1
      <3>3. d.margin \in Nat
        BY <1>3
      <3> QED  BY <1>5, <3>1, <3>2, <3>3
    <2>4. ~(e.firstStrip /\ e.margin > 0)
      BY <1>4
    <2>5. Ready(e, R[1], h, z)
      BY <1>6, <2>1, <2>2, <2>3, <2>4 DEF Ready
    <2> QED  BY <1>4, <1>9, <1>10, <2>1, <2>5
  <1>14. WholeInv(e, t, R)
    <2> SUFFICES ASSUME NEW h \in PagesIn(d.items)
                 PROVE  \/ t.strips[d.items[h].page] = 0 \/ d.items[h].page \in t.cut
                        \/ Complete(e, h)
                        \/ R # << >> /\ R[1].id = "send" /\ R[1].page = d.items[h].page
      BY <1>4, <1>6 DEF WholeInv
    <2>1. e.items[h] = d.items[h] /\ d.items[h].strip \in Nat
      BY <1>3, <1>6
    <2>2. CASE d.items[h].page = m.page
      <3>1. Drawn(e, h, z) /\ d.items[h].strip = t.strips[m.page] /\ m.row < t.strips[m.page]
        BY <1>1, <1>11, <2>2 DEF InLine
      <3>2. CASE m.row + 1 = t.strips[m.page]
        <4>1. z = e.margin + e.items[h].strip
          <5>1. z = d.margin + m.row + 1
            BY DEF z
          <5>2. e.margin + e.items[h].strip = d.margin + (m.row + 1)
            BY <1>4, <2>1, <3>1, <3>2
          <5>3. d.margin \in Nat
            BY <1>3
          <5> QED  BY <1>5, <5>1, <5>2, <5>3
        <4> QED  BY <1>4, <3>1, <4>1 DEF Complete
      <3>3. CASE m.row + 1 # t.strips[m.page]
        <4>1. m.row + 1 < t.strips[m.page]
          BY <1>5, <2>1, <3>1, <3>3
        <4>2. Short(m, t) => R # << >> /\ R[1].id = "send" /\ R[1].page = m.page
          BY <1>2 DEF Continues
        <4> QED  BY <2>2, <4>1, <4>2 DEF Short
      <3> QED  BY <3>2, <3>3
    <2>3. CASE d.items[h].page # m.page
      <3>1. \/ t.strips[d.items[h].page] = 0 \/ d.items[h].page \in t.cut \/ Complete(d, h)
        BY <1>1, <2>3 DEF DocInv, WholeInv
      <3>2. d.margin + d.items[h].strip \in Nat
        <4>1. d.margin \in Nat /\ d.items[h].strip \in Nat
          BY <1>3, <2>1
        <4> QED  BY <4>1
      <3>3. Complete(d, h) => Complete(e, h)
        BY <1>4, <1>7, <2>1, <2>3, <3>2 DEF Complete
      <3> QED  BY <3>1, <3>3
    <2> QED  BY <2>2, <2>3
  <1> QED  BY <1>8, <1>12, <1>13, <1>14 DEF DocInv, R

(* PWG writes a stripe of the last sheet, or nothing when it is full. *)
AddsRow(d, e) ==
  /\ e.language = d.language /\ e.margin = d.margin /\ e.undefined = d.undefined
  /\ Len(e.items) = Len(d.items)
  /\ \A i \in 1 .. Len(d.items) :
       /\ e.items[i].kind = d.items[i].kind /\ e.items[i].page = d.items[i].page
       /\ e.items[i].num = d.items[i].num
       /\ e.items[i].strip = IF i = Len(d.items) /\ d.items[i].strip < d.items[i].num
                               THEN d.items[i].strip + 1 ELSE d.items[i].strip

(* The rows of a page come one after the other. *)
LEMMA DocRows ==
  ASSUME NEW d, NEW e, NEW t, NEW q, NEW L, NEW m, Sending(d, t, q, L, m), m.id = "send",
         d.language = "PWG", ~d.undefined, Docs(e), AddsRow(d, e)
  PROVE  DocInv(e, t, q, Tail(L))
  <1> DEFINE R == Tail(L)
             N == Len(d.items)
  <1>1. /\ L # << >> /\ L[1] = m
        /\ InLine(m, t, q) /\ m \in Entries
        /\ Docs(d) /\ DocInv(d, t, q, L)
        /\ \A h \in PagesIn(d.items) : PageGood(d, d.items[h], t, q, L)
    BY SendingFacts
  <1>2. /\ Short(m, t) => R # << >> /\ Continues(m, R[1])
        /\ R # << >> => Behind(m, R[1], t)
    BY DEF Sending, Given
  <1>3. /\ N \in Nat /\ PagesIn(d.items) \subseteq 1 .. N
        /\ DOMAIN d.items = 1 .. N /\ DOMAIN e.items = 1 .. Len(e.items)
        /\ \A h \in 1 .. N : d.items[h].strip \in Nat
    BY <1>1, DocParts
  <1>4. /\ e.language = "PWG" /\ e.undefined = d.undefined /\ Len(e.items) = N
        /\ \A i \in 1 .. N :
             /\ e.items[i].kind = d.items[i].kind /\ e.items[i].page = d.items[i].page
             /\ e.items[i].num = d.items[i].num
             /\ e.items[i].strip = IF i = N /\ d.items[i].strip < d.items[i].num
                                     THEN d.items[i].strip + 1 ELSE d.items[i].strip
    BY DEF AddsRow
  <1>5. \A i \in 1 .. N : IsPage(d.items[i]) /\ i \in PagesIn(d.items)
    BY <1>1, <1>3 DEF DocInv, PageInv, PagesIn
  <1> HIDE DEF R, N
  <1>6. /\ PagesIn(e.items) = PagesIn(d.items)
        /\ \A i \in 1 .. Len(e.items) : IsPage(e.items[i])
    BY <1>3, <1>4, <1>5 DEF PagesIn, IsPage
  <1>7. PageInv(e, t, q, R) /\ FoundInv(e, t, q, R)
    <2>1. \A h \in PagesIn(d.items) :
            /\ e.items[h].kind = d.items[h].kind /\ e.items[h].page = d.items[h].page
            /\ Announced(e, e.items[h]) = Announced(d, d.items[h])
      BY <1>3, <1>4 DEF Announced
    <2> QED  BY <1>4, <1>6, <2>1, SendKeeps DEF R
  (* The page of the stripe is the last. *)
  <1>8. ASSUME m.page \notin t.lost
        PROVE  /\ N \in PagesIn(d.items) /\ N \in 1 .. N
               /\ e.items[N].page = m.page /\ d.items[N].page = m.page
               /\ e.items[N].strip = m.row + 1
               /\ e.items[N].num = t.strips[m.page]
    <2>1. N > 0 /\ d.items[N].page = m.page /\ d.items[N].strip = m.row
      BY <1>1, <1>8 DEF DocInv, FrontFits, Fits, N
    <2>2. N \in 1 .. N
      BY <1>3, <2>1
    <2>3. d.items[N].num = t.strips[m.page]
      BY <1>1, <1>5, <2>1, <2>2 DEF PageGood, Announced
    <2>4. m.row < t.strips[m.page]
      BY <1>1 DEF InLine
    <2> QED  BY <1>4, <1>5, <2>1, <2>2, <2>3, <2>4
  <1>9. ImageInv(e, t)
    BY <1>4 DEF ImageInv
  <1>10. FrontFits(e, t, R)
    <2> SUFFICES ASSUME R # << >>, R[1].id = "send", R[1].page \notin t.lost
                 PROVE  /\ Len(e.items) > 0
                        /\ e.items[Len(e.items)].page = R[1].page
                        /\ e.items[Len(e.items)].strip = R[1].row
      BY <1>4 DEF FrontFits, Fits
    <2>1. R[1].row = m.row + 1 /\ R[1].page = m.page
      BY <1>2 DEF Behind, Continues
    <2> QED  BY <1>4, <1>8, <2>1
  <1>11. WholeInv(e, t, R)
    <2> SUFFICES ASSUME NEW h \in PagesIn(d.items)
                 PROVE  \/ t.strips[d.items[h].page] = 0 \/ d.items[h].page \in t.cut
                        \/ Complete(e, h)
                        \/ R # << >> /\ R[1].id = "send" /\ R[1].page = d.items[h].page
      BY <1>3, <1>4, <1>6 DEF WholeInv
    <2>1. h \in 1 .. N
      BY <1>3
    <2>2. \/ t.strips[d.items[h].page] = 0 \/ d.items[h].page \in t.cut \/ Complete(d, h)
          \/ d.items[h].page = m.page
      BY <1>1 DEF DocInv, WholeInv
    <2>3. CASE Complete(d, h)
      <3>1. d.items[h].strip = d.items[h].num
        BY <2>3 DEF Complete
      <3>2. ~(d.items[h].strip < d.items[h].num)
        BY <1>3, <2>1, <3>1
      <3> QED  BY <1>4, <2>1, <3>1, <3>2 DEF Complete
    <2>4. CASE d.items[h].page = m.page
      <3>1. m.page \notin t.lost
        BY <1>1, <2>4 DEF PageGood
      <3>2. h = N
        <4>1. N \in PagesIn(d.items) /\ d.items[N].page = m.page
          BY <1>8, <3>1
        <4>2. h < N => d.items[h].page < d.items[N].page
          BY <1>1, <4>1 DEF DocInv, PageInv
        <4>3. d.items[h].page \in Nat
          BY <1>1 DEF PageGood
        <4>4. ~(h < N)
          BY <2>4, <4>1, <4>2, <4>3
        <4> QED  BY <1>3, <2>1, <4>4
      <3>3. e.items[h].strip = m.row + 1 /\ e.items[h].num = t.strips[m.page]
        BY <1>8, <3>1, <3>2
      <3>4. CASE m.row + 1 = t.strips[m.page]
        BY <1>4, <3>3, <3>4 DEF Complete
      <3>5. CASE m.row + 1 # t.strips[m.page]
        <4>1. m.row \in Nat /\ m.row < t.strips[m.page]
          BY <1>1 DEF Entries, InLine
        <4>2. t.strips[m.page] \in Int
          <5>1. Docs(e)
            OBVIOUS
          <5>2. h \in 1 .. Len(e.items)
            BY <1>4, <2>1
          <5>3. e.items[h].num \in Nat
            BY <5>1, <5>2, DocParts
          <5> QED  BY <3>3, <5>3
        <4>3. m.row + 1 < t.strips[m.page]
          BY <3>5, <4>1, <4>2
        <4>4. Short(m, t) => R # << >> /\ R[1].id = "send" /\ R[1].page = m.page
          BY <1>2 DEF Continues
        <4> QED  BY <2>4, <4>3, <4>4 DEF Short
      <3> QED  BY <3>4, <3>5
    <2> QED  BY <2>2, <2>3, <2>4
  <1> QED  BY <1>7, <1>9, <1>10, <1>11 DEF DocInv, R

(* A stripe comes to PCLm outside of any page. *)
LEMMA DocUndefines ==
  ASSUME NEW d, NEW e, NEW t, NEW q, NEW L, NEW m, Sending(d, t, q, L, m), m.id = "send",
         d.language = "PCLm", ~d.undefined, ~d.scratch,
         e.language = d.language, e.margin = d.margin, e.items = d.items, e.undefined
  PROVE  DocInv(e, t, q, Tail(L))
  <1> DEFINE R == Tail(L)
  <1>1. /\ L # << >> /\ L[1] = m /\ InLine(m, t, q) /\ m \in Entries
        /\ \A o : PageGood(d, o, t, q, L) => PageGood(d, o, t, q, R)
        /\ DocInv(d, t, q, L)
    BY SendingFacts
  <1> HIDE DEF R
  <1>2. m.page \in t.lost /\ t.strips[m.page] > 0
    <2>1. m.page \in t.lost
      BY <1>1 DEF DocInv, FrontFits, Fits
    <2>2. m.row \in Nat /\ m.row < t.strips[m.page]
      BY <1>1 DEF Entries, InLine
    <2>3. t.strips[m.page] \in Int
      <3>1. t \in Tolds /\ m.page \in Pages
        BY <2>1 DEF Sending, ToldInv, Tolds
      <3> DEFINE s == t.strips[m.page]
      <3>2. s \in {0} \cup Stripes
        BY <3>1 DEF Tolds
      <3>3. \A x \in Stripes : x \in Nat
        BY PclAssumption
      <3> HIDE DEF s
      <3>4. s \in Int
        BY <3>2, <3>3
      <3> QED  BY <3>4 DEF s
    <2> QED  BY <2>1, <2>2, <2>3
  <1>3. PageInv(e, t, q, R)
    <2>1. \A o : PageGood(d, o, t, q, R) => PageGood(e, o, t, q, R)
      BY DEF PageGood, Announced
    <2> QED  BY <1>1, <2>1 DEF DocInv, PageInv
  <1>4. ImageInv(e, t)
    <2>1. /\ \A h, n : Drawn(d, h, n) => Drawn(e, h, n)
          /\ \A h : Refers(d, h) => Refers(e, h)
      BY DEF Drawn, White, Refers
    <2>2. ImageInv(d, t)
      BY <1>1 DEF DocInv
    <2> QED  BY <1>2, <2>1, <2>2 DEF ImageInv
  <1>5. FrontFits(e, t, R) /\ WholeInv(e, t, R) /\ FoundInv(e, t, q, R)
    BY DEF FrontFits, Fits, WholeInv, FoundInv
  <1> QED  BY <1>3, <1>4, <1>5 DEF DocInv, R

(* The trailer is neither a page nor an image. *)
AddsNoPage(d, e) ==
  /\ Adds(d, e) /\ e.undefined = d.undefined
  /\ PagesIn(e.items) = PagesIn(d.items)
  /\ \A x : ImagesIn(e.items, x) = ImagesIn(d.items, x)

(* It leaves the pages and their images as they are. *)
LEMMA DocTrailer ==
  ASSUME NEW d, NEW e, NEW t, NEW q, NEW L, NEW m, Sending(d, t, q, L, m), m.id = "endJob",
         d.language = "PCLm", AddsNoPage(d, e), Docs(e)
  PROVE  DocInv(e, t, q, Tail(L))
  <1> DEFINE R == Tail(L)
             N == Len(d.items)
  <1>1. /\ L # << >> /\ L[1] = m /\ ~Makes(m, t)
        /\ (\A j \in 1 .. Len(L) : L[j] = m \/ \E i \in 1 .. Len(R) : R[i] = L[j])
        /\ (\A o : PageGood(d, o, t, q, L) => PageGood(d, o, t, q, R))
        /\ Docs(d) /\ DocInv(d, t, q, L)
    BY SendingFacts DEF Makes
  <1>2. R # << >> => Behind(m, R[1], t)
    BY DEF Sending, Given
  <1>3. /\ N \in Nat /\ PagesIn(d.items) \subseteq 1 .. N /\ d.margin \in Nat
        /\ DOMAIN e.items = 1 .. Len(e.items)
        /\ \A x : ImagesIn(d.items, x) \subseteq 1 .. N
        /\ \A h \in 1 .. N : d.items[h].strip \in Nat
    BY <1>1, DocParts
  <1>4. /\ e.language = d.language /\ e.margin = d.margin /\ e.undefined = d.undefined
        /\ PagesIn(e.items) = PagesIn(d.items)
        /\ \A x : ImagesIn(e.items, x) = ImagesIn(d.items, x)
    BY DEF AddsNoPage, Adds
  <1> HIDE DEF R, N
  <1>5. \A h \in PagesIn(d.items) :
          /\ e.items[h] = d.items[h]
          /\ Refers(d, h) => Refers(e, h)
          /\ \A n \in Nat : Drawn(d, h, n) => Drawn(e, h, n)
          /\ d.margin + d.items[h].strip \in Nat
    <2>1. Adds(d, e)
      BY DEF AddsNoPage
    <2>2. \A h \in PagesIn(d.items) : h \in 1 .. Len(d.items)
      BY <1>3 DEF N
    <2> QED  BY <1>1, <1>3, <1>4, <2>1, <2>2, AddsFacts DEF N
  <1>6. PageInv(e, t, q, R)
    <2>1. \A o : PageGood(d, o, t, q, R) => PageGood(e, o, t, q, R)
      BY <1>4 DEF PageGood, Announced
    <2>2. PageInv(d, t, q, L)
      BY <1>1 DEF DocInv
    <2>3. \A h \in PagesIn(e.items) : PageGood(e, e.items[h], t, q, R)
      BY <1>1, <1>4, <1>5, <2>1, <2>2 DEF PageInv
    <2>4. \A h, g \in PagesIn(e.items) : h < g => e.items[h].page < e.items[g].page
      BY <1>4, <1>5, <2>2 DEF PageInv
    <2> QED  BY <1>4, <2>3, <2>4 DEF PageInv
  <1>7. ImageInv(e, t)
    <2>1. ASSUME NEW h \in PagesIn(d.items)
          PROVE  /\ Refers(e, h)
                 /\ \E n \in 0 .. e.margin + e.items[h].strip : Drawn(e, h, n)
      <3>1. Refers(d, h) /\ \E n \in 0 .. d.margin + d.items[h].strip : Drawn(d, h, n)
        BY <1>1 DEF DocInv, ImageInv
      <3>2. \A n \in 0 .. d.margin + d.items[h].strip : n \in Nat
        OBVIOUS
      <3> QED  BY <1>4, <1>5, <3>1, <3>2
    <2>2. ASSUME NEW i \in 1 .. Len(e.items), e.items[i].kind = "image"
          PROVE  /\ e.items[i].num = i + Tree
                 /\ \/ e.items[i].page \in t.lost
                    \/ \E h \in PagesIn(e.items) : e.items[h].page = e.items[i].page
      <3>1. i \in ImagesIn(e.items, e.items[i].page)
        BY <1>3, <2>2 DEF ImagesIn
      <3>2. i \in 1 .. N
        BY <1>3, <1>4, <3>1
      <3>3. e.items[i] = d.items[i]
        BY <3>2 DEF AddsNoPage, Adds, N
      <3>4. /\ d.items[i].num = i + Tree
            /\ \/ d.items[i].page \in t.lost
               \/ \E h \in PagesIn(d.items) : d.items[h].page = d.items[i].page
        BY <1>1, <2>2, <3>2, <3>3 DEF DocInv, ImageInv, N
      <3> QED  BY <1>4, <1>5, <3>3, <3>4
    <2>3. e.undefined => \E p \in t.lost : t.strips[p] > 0
      BY <1>1, <1>4 DEF DocInv, ImageInv
    <2> QED  BY <1>4, <2>1, <2>2, <2>3 DEF ImageInv
  <1>8. FrontFits(e, t, R)
    BY <1>2 DEF FrontFits, Fits, Behind, Continues
  <1>9. WholeInv(e, t, R)
    <2> SUFFICES ASSUME ~d.undefined, NEW h \in PagesIn(d.items)
                 PROVE  \/ t.strips[d.items[h].page] = 0 \/ d.items[h].page \in t.cut
                        \/ Complete(e, h)
      BY <1>4, <1>5 DEF WholeInv
    <2>1. \/ t.strips[d.items[h].page] = 0 \/ d.items[h].page \in t.cut \/ Complete(d, h)
      BY <1>1 DEF DocInv, WholeInv
    <2>2. Complete(d, h) => Complete(e, h)
      BY <1>4, <1>5 DEF Complete
    <2> QED  BY <2>1, <2>2
  <1>10. FoundInv(e, t, q, R)
    <2> SUFFICES ASSUME ~d.undefined, NEW p \in 1 .. q.page PROVE Found(e, t, q, R, p)
      BY <1>4 DEF FoundInv
    <2>1. Found(d, t, q, L, p)
      BY <1>1 DEF DocInv, FoundInv
    <2>2. CASE \E i \in 1 .. Len(L) : Makes(L[i], t) /\ L[i].page = p
      <3>1. PICK i \in 1 .. Len(L) : Makes(L[i], t) /\ L[i].page = p
        BY <2>2
      <3> QED  BY <1>1, <3>1 DEF Found
    <2>3. CASE \E h \in PagesIn(d.items) : d.items[h].page = p
      BY <1>4, <1>5, <2>3 DEF Found
    <2>4. CASE \/ p \in t.lost \/ Untold(p, t, q) \/ (d.language = "PWG" /\ t.strips[p] = 0)
      BY <1>4, <2>4 DEF Found
    <2> QED  BY <2>1, <2>2, <2>3, <2>4 DEF Found
  <1> QED  BY <1>6, <1>7, <1>8, <1>9, <1>10 DEF DocInv, R

-----------------------------------------------------------------------------
(***************************************************************************)
(* The objects of a PCLm file and their numbers.                           *)
(***************************************************************************)
(* Objects are numbered as they come, after the catalog and the tree. *)
Counted(d) ==
  /\ d.xRef = [i \in 1 .. Len(d.items) |-> i]
  /\ d.objCounter = Len(d.items) + Tree + 1
  /\ \A i \in 1 .. Len(d.items) : d.items[i].num = i + Tree

(* The tree names the pages. *)
KidsKnown(d) ==
  /\ Len(d.kids) = Cardinality(PagesIn(d.items))
  /\ \A h \in PagesIn(d.items) : d.kids[Rank(PagesIn(d.items), h)] = h + Tree

(* More objects are numbered. *)
CountsOn(d, e, m) ==
  /\ m \in Nat /\ Adds(d, e) /\ Len(e.items) = Len(d.items) + m
  /\ e.xRef = d.xRef \o [i \in 1 .. m |-> Len(d.items) + i]
  /\ e.objCounter = d.objCounter + m
  /\ \A k \in 1 .. m : e.items[Len(d.items) + k].num = d.objCounter + k - 1

(* Longer tables of offsets. *)
LEMMA TableGrows ==
  ASSUME NEW n \in Nat, NEW m \in Nat
  PROVE  [i \in 1 .. n |-> i] \o [i \in 1 .. m |-> n + i] = [i \in 1 .. n + m |-> i]
  <1> DEFINE a == [i \in 1 .. n |-> i]
             b == [i \in 1 .. m |-> n + i]
             c == a \o b
  <1>1. a \in Seq(Nat) /\ Len(a) = n /\ \A i \in 1 .. n : a[i] = i
    OBVIOUS
  <1>2. b \in Seq(Nat) /\ Len(b) = m /\ \A i \in 1 .. m : b[i] = n + i
    OBVIOUS
  <1> HIDE DEF a, b
  <1>3. /\ c \in Seq(Nat) /\ Len(c) = n + m
        /\ \A i \in 1 .. n + m : c[i] = IF i <= n THEN a[i] ELSE b[i - n]
    <2>1. /\ c \in Seq(Nat) /\ Len(c) = Len(a) + Len(b)
          /\ \A i \in 1 .. Len(a) + Len(b) :
               c[i] = IF i <= Len(a) THEN a[i] ELSE b[i - Len(a)]
      <3>1. a \in Seq(Nat) /\ b \in Seq(Nat)
        BY <1>1, <1>2
      <3> QED  BY ONLY <3>1, ConcatProperties
    <2>2. Len(a) = n /\ Len(b) = m
      BY <1>1, <1>2
    <2> HIDE DEF c
    <2> QED  BY ONLY <2>1, <2>2
  <1> HIDE DEF c
  <1>4. \A i \in 1 .. n + m : c[i] = i
    <2> TAKE i \in 1 .. n + m
    <2>1. CASE i <= n
      BY <1>1, <1>3, <2>1
    <2>2. CASE ~(i <= n)
      <3>1. i - n \in 1 .. m /\ n + (i - n) = i
        BY <2>2
      <3>2. c[i] = b[i - n]
        BY <1>3, <2>2
      <3> QED  BY <1>2, <3>1, <3>2
    <2> QED  BY <2>1, <2>2
  <1>5. c = [i \in 1 .. n + m |-> c[i]]
    BY <1>3
  <1> QED  BY <1>4, <1>5 DEF a, b, c

(* The numbers stay in step with the offsets. *)
LEMMA CountMore ==
  ASSUME NEW d, NEW e, NEW m, Docs(d), Counted(d), CountsOn(d, e, m)
  PROVE  Counted(e)
  <1> DEFINE N == Len(d.items)
             M == Len(e.items)
  <1>1. N \in Nat /\ m \in Nat /\ M = N + m
    BY DocParts DEF CountsOn
  <1>2. /\ d.objCounter = N + 3 /\ e.objCounter = d.objCounter + m
        /\ (\A i \in 1 .. N : d.items[i].num = i + 2 /\ e.items[i] = d.items[i])
        /\ (\A k \in 1 .. m : e.items[N + k].num = d.objCounter + k - 1)
    <2>1. d.objCounter = N + 3
      <3>1. d.objCounter = N + 2 + 1
        BY DEF Counted, Tree
      <3> QED  BY <1>1, <3>1
    <2> QED  BY <2>1 DEF Counted, CountsOn, Adds, Tree
  <1>3. e.xRef = [i \in 1 .. N |-> i] \o [i \in 1 .. m |-> N + i]
    BY DEF Counted, CountsOn
  <1> HIDE DEF N, M
  <1>4. e.xRef = [i \in 1 .. M |-> i]
    BY <1>1, <1>3, TableGrows
  <1>5. e.objCounter = M + 2 + 1
    BY <1>1, <1>2
  <1>6. \A i \in 1 .. M : e.items[i].num = i + 2
    <2> TAKE i \in 1 .. M
    <2>1. CASE i <= N
      <3>1. i \in 1 .. N
        BY <1>1, <2>1
      <3> QED  BY <1>2, <3>1
    <2>2. CASE ~(i <= N)
      <3> DEFINE k == i - N
      <3>1. k \in 1 .. m /\ N + k = i /\ N + 3 + k - 1 = i + 2
        BY <1>1, <2>2
      <3> HIDE DEF k
      <3> QED  BY <1>2, <3>1
    <2> QED  BY <2>1, <2>2
  <1> QED  BY <1>4, <1>5, <1>6 DEF Counted, M, Tree

(* A page joins the tree. *)
LEMMA PagesFinite ==
  ASSUME NEW d, Docs(d)
  PROVE  /\ PagesIn(d.items) \subseteq Int /\ IsFiniteSet(PagesIn(d.items))
         /\ Cardinality(PagesIn(d.items)) \in Nat
  <1>1. PagesIn(d.items) \subseteq 1 .. Len(d.items) /\ Len(d.items) \in Nat
    BY DocParts
  <1>2. IsFiniteSet(1 .. Len(d.items))
    BY <1>1, FS_Interval
  <1> QED  BY <1>1, <1>2, FS_Subset, FS_CardinalityType

(* A page joins the tree. *)
LEMMA KidsJoin ==
  ASSUME NEW d, NEW e, Docs(d), KidsKnown(d), d.objCounter = Len(d.items) + Tree + 1,
         PagesIn(e.items) = PagesIn(d.items) \cup {Len(d.items) + 1},
         e.kids = Append(d.kids, d.objCounter)
  PROVE  KidsKnown(e)
  <1> DEFINE P == PagesIn(d.items)
             x == Len(d.items) + 1
             Q == P \cup {x}
  <1>1. P \subseteq Int /\ IsFiniteSet(P) /\ Cardinality(P) \in Nat
    BY PagesFinite
  <1>2. x \in Int /\ (\A h \in P : h < x) /\ d.objCounter = x + Tree
    <2>1. Len(d.items) \in Nat /\ P \subseteq 1 .. Len(d.items)
      BY DocParts
    <2> QED  BY <2>1 DEF Tree
  <1>3. /\ Len(d.kids) = Cardinality(P) /\ d.kids \in Seq(Nat) /\ d.objCounter \in Nat
        /\ \A h \in P : d.kids[Rank(P, h)] = h + Tree
    BY DEF KidsKnown, Docs
  <1> HIDE DEF P, x
  <1>4. /\ Cardinality(Q) = Cardinality(P) + 1 /\ Rank(Q, x) = Cardinality(P) + 1
        /\ \A h \in P : Rank(Q, h) = Rank(P, h)
    BY <1>1, <1>2, RankAdd
  <1>5. \A h \in P : Rank(P, h) \in 1 .. Len(d.kids)
    BY <1>1, <1>3, RankGrows
  <1>6. /\ Len(e.kids) = Len(d.kids) + 1 /\ e.kids[Len(d.kids) + 1] = d.objCounter
        /\ \A k \in 1 .. Len(d.kids) : e.kids[k] = d.kids[k]
    BY <1>3
  <1>7. \A h \in Q : e.kids[Rank(Q, h)] = h + Tree
    <2>1. ASSUME NEW h \in P PROVE e.kids[Rank(Q, h)] = h + Tree
      BY <1>3, <1>4, <1>5, <1>6
    <2>2. e.kids[Rank(Q, x)] = x + Tree
      BY <1>2, <1>3, <1>4, <1>6
    <2> QED  BY <2>1, <2>2
  <1>8. PagesIn(e.items) = Q
    BY DEF P, x
  <1> QED  BY <1>3, <1>4, <1>6, <1>7, <1>8 DEF KidsKnown

(* The trailer is written. *)
Ending(d) == << object("catalog", Catalog, 0, 0, <<Tree>>), object("tree", Tree, 0, 0, d.kids) >>

(* The catalog and the tree. *)
LEMMA EndingParts ==
  ASSUME NEW d, Docs(d)
  PROVE  LET X == Ending(d) IN
         /\ X \in Seq(Made) /\ Len(X) = 2
         /\ X[1].kind = "catalog" /\ X[1].num = 1 /\ X[1].refs = <<2>>
         /\ X[2].kind = "tree" /\ X[2].num = 2 /\ X[2].refs = d.kids
         /\ PagesIn(X) = {} /\ \A p : ImagesIn(X, p) = {}
  <1> DEFINE a == object("catalog", Catalog, 0, 0, <<Tree>>)
             b == object("tree", Tree, 0, 0, d.kids)
             X == <<a, b>>
  <1>1. /\ a.kind = "catalog" /\ a.num = 1 /\ a.refs = <<2>> /\ a \in Made
        /\ b.kind = "tree" /\ b.num = 2 /\ b.refs = d.kids /\ b \in Made
    <2>1. <<2>> \in Seq(Nat) /\ d.kids \in Seq(Nat)
      BY DEF Docs
    <2> QED  BY <2>1 DEF object, Made, Catalog, Tree
  <1> HIDE DEF a, b
  <1>2. X \in Seq(Made) /\ Len(X) = 2 /\ X[1] = a /\ X[2] = b /\ DOMAIN X = 1 .. 2
    BY <1>1
  <1>3. Ending(d) = X
    BY DEF Ending, a, b
  <1> HIDE DEF X
  <1>4. \A i \in 1 .. 2 : i = 1 \/ i = 2
    OBVIOUS
  <1>5. PagesIn(X) = {} /\ \A p : ImagesIn(X, p) = {}
    BY <1>1, <1>2, <1>4 DEF PagesIn, ImagesIn, IsPage
  <1> QED  BY <1>1, <1>2, <1>3, <1>5

(* Where everything is in a finished file. *)
Trailed(d, e) ==
  LET N == Len(d.items) IN
  /\ e.language = d.language /\ e.ended
  /\ Len(e.items) = N + 2
  /\ \A i \in 1 .. N : e.items[i] = d.items[i]
  /\ e.items[N + 1].num = 1 /\ e.items[N + 1].refs = <<2>>
  /\ e.items[N + 2].num = 2 /\ e.items[N + 2].refs = d.kids
  /\ e.trailer.first = 3 /\ e.trailer.size = N + 3 /\ e.trailer.start = N + 3
  /\ e.trailer.last = <<N + 1, N + 2>>
  /\ Len(e.trailer.body) = N /\ \A i \in 1 .. N : e.trailer.body[i] = i

(* The tables of the trailer, in two sections. *)
LEMMA TrailerWritten ==
  ASSUME NEW d, Docs(d), Counted(d)
  PROVE  LET e == GrammarTrailer(d) IN
         /\ Docs(e) /\ AddsNoPage(d, e) /\ Trailed(d, e) /\ e.undefined = d.undefined
         /\ e.tickets = d.tickets
  <1> DEFINE N == Len(d.items)
             X == Ending(d)
             w == Written(d, X)
             x == Append(w.xRef, Len(w.items) + 1)
             e == GrammarTrailer(d)
             r == [first |-> Tree + 1, body |-> SubSeq(x, 1, (Len(x) + 1) - 4),
                   last |-> <<x[(Len(x) + 1) - 3], x[(Len(x) + 1) - 2]>>,
                   size |-> (Len(x) + 1) - 1, start |-> x[(Len(x) + 1) - 1]]
  <1>1. /\ X \in Seq(Made) /\ Len(X) = 2
        /\ X[1].num = 1 /\ X[1].refs = <<2>> /\ X[2].num = 2 /\ X[2].refs = d.kids
        /\ PagesIn(X) = {} /\ \A p : ImagesIn(X, p) = {}
    BY EndingParts
  <1>2. N \in Nat /\ d.items \in Seq(Made)
    BY DocParts DEF Docs
  <1>3. e = [w EXCEPT !.xRef = x, !.ended = TRUE, !.trailer = r]
    BY DEF GrammarTrailer, Ending
  <1> HIDE DEF X
  <1>4. /\ Docs(w) /\ Adds(d, w) /\ w.items = d.items \o X
        /\ w.xRef = d.xRef \o [i \in 1 .. 2 |-> N + i]
        /\ w.tickets = d.tickets
        /\ w.kids = d.kids /\ w.objCounter = d.objCounter
        /\ w.undefined = d.undefined
    <2>1. [i \in 1 .. Len(X) |-> N + i] = [i \in 1 .. 2 |-> N + i]
      BY <1>1
    <2>2. X \in Seq(Made)
      BY <1>1
    <2> QED  BY <2>1, <2>2, WrittenParts
  <1> HIDE DEF w, r, e
  <1>5. /\ Len(w.items) = N + 2
        /\ \A i \in 1 .. N : w.items[i] = d.items[i]
        /\ w.items[N + 1] = X[1] /\ w.items[N + 2] = X[2]
        /\ PagesIn(w.items) = PagesIn(d.items)
        /\ \A p : ImagesIn(w.items, p) = ImagesIn(d.items, p)
    <2>1. /\ Len(d.items \o X) = Len(d.items) + Len(X)
          /\ \A i \in 1 .. Len(d.items) : (d.items \o X)[i] = d.items[i]
          /\ \A i \in 1 .. Len(X) : (d.items \o X)[Len(d.items) + i] = X[i]
          /\ PagesIn(d.items \o X) = PagesIn(d.items) \cup {Len(d.items) + i : i \in PagesIn(X)}
          /\ \A p : ImagesIn(d.items \o X, p) =
                      ImagesIn(d.items, p) \cup {Len(d.items) + i : i \in ImagesIn(X, p)}
      <3>1. d.items \in Seq(Made) /\ X \in Seq(Made)
        BY <1>1, <1>2
      <3> QED  BY <3>1, Extended
    <2>2. Len(d.items \o X) = N + 2 /\ \A i \in 1 .. N : (d.items \o X)[i] = d.items[i]
      BY <1>1, <2>1
    <2>3. (d.items \o X)[N + 1] = X[1] /\ (d.items \o X)[N + 2] = X[2]
      <3>1. 1 \in 1 .. Len(X) /\ 2 \in 1 .. Len(X)
        BY <1>1
      <3> QED  BY <2>1, <3>1
    <2>4. PagesIn(d.items \o X) = PagesIn(d.items)
      BY <1>1, <2>1
    <2>5. ASSUME NEW p
          PROVE  ImagesIn(d.items \o X, p) = ImagesIn(d.items, p)
      <3>1. ImagesIn(X, p) = {}
        BY <1>1
      <3>2. ImagesIn(d.items \o X, p) =
              ImagesIn(d.items, p) \cup {Len(d.items) + i : i \in ImagesIn(X, p)}
        BY <2>1
      <3> QED  BY <3>1, <3>2
    <2> QED  BY <1>4, <2>2, <2>3, <2>4, <2>5
  <1> HIDE DEF N
  <1>6. w.xRef = [i \in 1 .. N + 2 |-> i]
    <2>1. d.xRef = [i \in 1 .. N |-> i]
      BY DEF Counted, N
    <2> QED  BY <1>2, <1>4, <2>1, TableGrows
  <1>7. x \in Seq(Nat) /\ Len(x) = N + 3 /\ \A i \in 1 .. N + 3 : x[i] = i
    <2> DEFINE y == w.xRef
    <2>1. y \in Seq(Nat) /\ Len(y) = N + 2 /\ \A i \in 1 .. N + 2 : y[i] = i
      BY <1>2, <1>6
    <2>2. x = Append(y, N + 3)
      BY <1>2, <1>5
    <2> HIDE DEF y, x
    <2>3. /\ x \in Seq(Nat) /\ Len(x) = N + 3 /\ x[(N + 2) + 1] = N + 3
          /\ \A i \in 1 .. N + 2 : x[i] = y[i]
      BY <1>2, <2>1, <2>2
    <2>4. \A i \in 1 .. N + 3 : i \in 1 .. N + 2 \/ i = (N + 2) + 1
      BY <1>2
    <2>5. (N + 2) + 1 = N + 3
      BY <1>2
    <2> QED  BY <2>1, <2>3, <2>4, <2>5
  <1> HIDE DEF x
  <1>8. /\ r.first = 3 /\ r.size = N + 3 /\ r.start = N + 3 /\ r.last = <<N + 1, N + 2>>
        /\ r.body = SubSeq(x, 1, N)
    <2>1. /\ (Len(x) + 1) - 4 = N /\ (Len(x) + 1) - 3 = N + 1 /\ (Len(x) + 1) - 2 = N + 2
          /\ (Len(x) + 1) - 1 = N + 3
      BY <1>2, <1>7
    <2>2. x[N + 1] = N + 1 /\ x[N + 2] = N + 2 /\ x[N + 3] = N + 3
      BY <1>2, <1>7
    <2>3. r = [first |-> Tree + 1, body |-> SubSeq(x, 1, N), last |-> <<N + 1, N + 2>>,
               size |-> N + 3, start |-> N + 3]
      BY <2>1, <2>2 DEF r
    <2>4. r.first = Tree + 1 /\ r.size = N + 3 /\ r.start = N + 3
      BY <2>3
    <2>5. r.last = <<N + 1, N + 2>> /\ r.body = SubSeq(x, 1, N)
      BY <2>3
    <2> QED  BY <2>4, <2>5 DEF Tree
  <1>9. Len(r.body) = N /\ \A i \in 1 .. N : r.body[i] = i
    <2>1. Len(SubSeq(x, 1, N)) = N /\ \A i \in 1 .. N : SubSeq(x, 1, N)[i] = x[i]
      BY <1>2, <1>7
    <2>2. \A i \in 1 .. N : i \in 1 .. N + 3
      BY <1>2
    <2> QED  BY <1>7, <1>8, <2>1, <2>2
  <1>10. /\ e.language = w.language /\ e.margin = w.margin /\ e.items = w.items /\ e.xRef = x
         /\ e.tickets = w.tickets
         /\ e.kids = w.kids /\ e.objCounter = w.objCounter
         /\ e.scratch = w.scratch /\ e.firstStrip = w.firstStrip
         /\ e.ended = TRUE /\ e.undefined = w.undefined /\ e.trailer = r
    BY <1>3, <1>4 DEF Docs
  <1>11. e = [language |-> e.language, margin |-> e.margin, items |-> e.items,
             tickets |-> e.tickets, xRef |-> e.xRef,
              kids |-> e.kids, objCounter |-> e.objCounter, scratch |-> e.scratch,
              firstStrip |-> e.firstStrip, ended |-> e.ended, undefined |-> e.undefined,
              trailer |-> e.trailer]
    BY <1>3, <1>4 DEF Docs
  <1>12. Docs(e)
    <2>1. /\ w.language \in Languages /\ w.margin \in MarginStrips \cup {0}
          /\ w.items \in Seq(Made) /\ w.kids \in Seq(Nat) /\ w.objCounter \in Nat
          /\ {w.scratch, w.firstStrip, w.ended, w.undefined} \subseteq BOOLEAN
      BY <1>4 DEF Docs
    <2> QED  BY <1>7, <1>10, <1>11, <2>1 DEF Docs
  <1>13. Adds(d, e)
    BY <1>4, <1>10 DEF Adds
  <1>14. AddsNoPage(d, e)
    BY <1>4, <1>5, <1>10, <1>13 DEF AddsNoPage
  <1>15. Trailed(d, e)
    <2>1. w.language = d.language
      BY <1>4 DEF Adds
    <2>2. /\ e.language = d.language /\ e.ended /\ Len(e.items) = N + 2
          /\ (\A i \in 1 .. N : e.items[i] = d.items[i])
          /\ e.items[N + 1].num = 1 /\ e.items[N + 1].refs = <<2>>
          /\ e.items[N + 2].num = 2 /\ e.items[N + 2].refs = d.kids
      BY <1>1, <1>5, <1>10, <2>1
    <2>3. /\ e.trailer.first = 3 /\ e.trailer.size = N + 3 /\ e.trailer.start = N + 3
          /\ e.trailer.last = <<N + 1, N + 2>>
      BY <1>8, <1>10
    <2>4. Len(e.trailer.body) = N /\ \A i \in 1 .. N : e.trailer.body[i] = i
      BY <1>9, <1>10
    <2> QED  BY <2>2, <2>3, <2>4 DEF Trailed, N
  <1> QED  BY <1>4, <1>10, <1>12, <1>14, <1>15 DEF e

(* The table of a finished file leads to where its objects would begin if
   there were no tickets. *)
NumberedIn(I, n) == {o \in Range(I) : o.num = n}
OrderOf(I) == LET pages == Kept(I, PagesIn(I)) IN [i \in DOMAIN pages |-> pages[i].page]
PlaceIn(d, n) == LET t == d.trailer IN
  IF n < t.first THEN t.last[n] ELSE t.body[n - t.first + 1]
TrueXref(d) ==
  LET t == d.trailer
      m == Len(d.items)
  IN  /\ t.size - 1 = m /\ Len(t.body) = t.size - t.first
      /\ {d.items[i].num : i \in 1 .. m} = 1 .. m
      /\ \A i \in 1 .. m : PlaceIn(d, d.items[i].num) = i
      /\ t.start = m + 1
      /\ \A o \in NumberedIn(d.items, Catalog) : \A r \in Range(o.refs) :
           \A tree \in NumberedIn(d.items, r) :
             [i \in 1 .. Len(tree.refs) |->
                 (CHOOSE o2 \in NumberedIn(d.items, tree.refs[i]) : TRUE).page]
               = OrderOf(d.items)

(* The trailer says where everything is, and the tree names the pages. *)
LEMMA XrefMade ==
  ASSUME NEW d, NEW e, Docs(d), Docs(e), Counted(d), KidsKnown(d), Trailed(d, e),
         PagesIn(e.items) = PagesIn(d.items)
  PROVE  TrueXref(e)
  <1> DEFINE N == Len(d.items)
             P == PagesIn(d.items)
             I == e.items
             t == e.trailer
  <1>1. N \in Nat /\ P \subseteq 1 .. N /\ P \subseteq Int /\ IsFiniteSet(P)
        /\ Cardinality(P) \in Nat
    BY DocParts, PagesFinite
  <1>2. /\ Len(I) = N + 2 /\ (\A i \in 1 .. N : I[i] = d.items[i])
        /\ I[N + 1].num = 1 /\ I[N + 1].refs = <<2>>
        /\ I[N + 2].num = 2 /\ I[N + 2].refs = d.kids
        /\ DOMAIN I = 1 .. Len(I)
    <2>1. DOMAIN I = 1 .. Len(I)
      BY DocParts
    <2> QED  BY <2>1 DEF Trailed
  <1>3. /\ t.first = 3 /\ t.size = N + 3 /\ t.start = N + 3 /\ t.last = <<N + 1, N + 2>>
        /\ Len(t.body) = N /\ \A i \in 1 .. N : t.body[i] = i
    BY DEF Trailed
  <1>4. \A i \in 1 .. N : d.items[i].num = i + 2
    BY DEF Counted, Tree
  <1>5. /\ Len(d.kids) = Cardinality(P)
        /\ \A h \in P : d.kids[Rank(P, h)] = h + 2
    BY DEF KidsKnown, Tree
  <1>6. PagesIn(I) = P
    OBVIOUS
  <1> HIDE DEF N, P, I, t
  <1>7. \A i \in 1 .. N : I[i].num = i + 2
    BY <1>2, <1>4
  <1>8. \A i \in DOMAIN I : i \in 1 .. N \/ i = N + 1 \/ i = N + 2
    BY <1>1, <1>2
  (* Each object by its number. *)
  <1>9. NumberedIn(I, 1) = {I[N + 1]}
    <2>1. \A i \in DOMAIN I : I[i].num = 1 => i = N + 1
      BY <1>2, <1>7, <1>8
    <2>2. N + 1 \in DOMAIN I
      BY <1>1, <1>2
    <2> QED  BY <1>2, <2>1, <2>2 DEF NumberedIn, Range
  <1>10. NumberedIn(I, 2) = {I[N + 2]}
    <2>1. \A i \in DOMAIN I : I[i].num = 2 => i = N + 2
      BY <1>2, <1>7, <1>8
    <2>2. N + 2 \in DOMAIN I
      BY <1>1, <1>2
    <2> QED  BY <1>2, <2>1, <2>2 DEF NumberedIn, Range
  <1>11. \A h \in P : NumberedIn(I, h + 2) = {I[h]}
    <2> TAKE h \in P
    <2>1. h \in 1 .. N /\ h \in DOMAIN I
      BY <1>1, <1>2
    <2>2. \A i \in DOMAIN I : I[i].num = h + 2 => i = h
      <3> TAKE i \in DOMAIN I
      <3>1. h + 2 # 1 /\ h + 2 # 2
        BY <1>1, <2>1
      <3>2. CASE i \in 1 .. N
        BY <1>7, <2>1, <3>2
      <3>3. CASE i = N + 1 \/ i = N + 2
        BY <1>2, <3>1, <3>3
      <3> QED  BY <1>8, <3>2, <3>3
    <2>3. I[h].num = h + 2
      BY <1>7, <2>1
    <2> QED  BY <2>1, <2>2, <2>3 DEF NumberedIn, Range
  (* The places of the table. *)
  <1>12. \A i \in 1 .. N + 2 : PlaceIn(e, I[i].num) = i
    <2> TAKE i \in 1 .. N + 2
    <2>1. \A n : PlaceIn(e, n) = IF n < t.first THEN t.last[n] ELSE t.body[n - t.first + 1]
      BY DEF PlaceIn, t
    <2>2. CASE i = N + 1
      <3>1. I[i].num = 1 /\ t.last[1] = N + 1
        BY <1>2, <1>3, <2>2
      <3>2. PlaceIn(e, 1) = t.last[1]
        BY <1>3, <2>1
      <3> QED  BY <2>2, <3>1, <3>2
    <2>3. CASE i = N + 2
      <3>1. I[i].num = 2 /\ t.last[2] = N + 2
        BY <1>2, <1>3, <2>3
      <3>2. PlaceIn(e, 2) = t.last[2]
        BY <1>3, <2>1
      <3> QED  BY <2>3, <3>1, <3>2
    <2>4. CASE i \in 1 .. N
      <3>1. I[i].num = i + 2 /\ ~(i + 2 < 3) /\ (i + 2) - 3 + 1 = i
        BY <1>1, <1>7, <2>4
      <3>2. PlaceIn(e, i + 2) = t.body[i]
        BY <1>3, <2>1, <3>1
      <3> QED  BY <1>3, <2>4, <3>1, <3>2
    <2>5. i \in 1 .. N \/ i = N + 1 \/ i = N + 2
      BY <1>1
    <2> QED  BY <2>2, <2>3, <2>4, <2>5
  <1>12a. {I[i].num : i \in 1 .. N + 2} = 1 .. N + 2
    <2>1. \A i \in 1 .. N + 2 : i \in 1 .. N \/ i = N + 1 \/ i = N + 2
      BY <1>1
    <2>2. \A i \in 1 .. N + 2 : I[i].num \in 1 .. N + 2
      BY <1>1, <1>2, <1>7, <2>1
    <2>3. ASSUME NEW n \in 1 .. N + 2
          PROVE  \E i \in 1 .. N + 2 : I[i].num = n
      <3>1. CASE n = 1
        BY <1>1, <1>2, <3>1
      <3>2. CASE n = 2
        BY <1>1, <1>2, <3>2
      <3>3. CASE n > 2
        <4>1. n - 2 \in 1 .. N /\ n - 2 \in 1 .. N + 2 /\ (n - 2) + 2 = n
          BY <1>1, <3>3
        <4> QED  BY <1>7, <4>1
      <3> QED  BY <3>1, <3>2, <3>3
    <2> QED  BY <2>2, <2>3
  (* The tree names the pages in their order. *)
  <1>13. [i \in 1 .. Len(d.kids) |-> (CHOOSE o2 \in NumberedIn(I, d.kids[i]) : TRUE).page]
           = OrderOf(I)
    <2> DEFINE at(i) == CHOOSE k \in P : Rank(P, k) = i
               C == 1 .. Cardinality(P)
               pages == Kept(I, P)
    <2>1. \A i \in C : at(i) \in P /\ Rank(P, at(i)) = i
      BY <1>1, RankAll
    <2>2. pages = [i \in C |-> I[at(i)]]
      BY DEF Kept
    <2> HIDE DEF at, C, pages
    <2>3. \A i \in C : (CHOOSE o2 \in NumberedIn(I, d.kids[i]) : TRUE).page = I[at(i)].page
      <3> TAKE i \in C
      <3>1. d.kids[i] = at(i) + 2 /\ at(i) \in P
        BY <1>5, <2>1
      <3>2. NumberedIn(I, d.kids[i]) = {I[at(i)]}
        BY <1>11, <3>1
      <3> QED  BY <3>2
    <2>4. OrderOf(I) = [i \in DOMAIN pages |-> pages[i].page]
      BY <1>6 DEF OrderOf, pages
    <2>5. OrderOf(I) = [i \in C |-> I[at(i)].page]
      BY <2>2, <2>4
    <2>6. 1 .. Len(d.kids) = C
      BY <1>5 DEF C
    <2> QED  BY <2>3, <2>5, <2>6
  <1>14. \A o \in NumberedIn(I, Catalog) : \A r \in Range(o.refs) :
           \A tree \in NumberedIn(I, r) :
             [i \in 1 .. Len(tree.refs) |->
                 (CHOOSE o2 \in NumberedIn(I, tree.refs[i]) : TRUE).page] = OrderOf(I)
    <2> TAKE o \in NumberedIn(I, Catalog)
    <2>1. o.refs = <<2>>
      BY <1>2, <1>9 DEF Catalog
    <2> TAKE r \in Range(o.refs)
    <2>2. r = 2
      <3>1. Range(<<2>>) = {2}
        BY DEF Range
      <3> QED  BY <2>1, <3>1
    <2> TAKE tree \in NumberedIn(I, r)
    <2>3. tree.refs = d.kids
      BY <1>2, <1>10, <2>2
    <2> QED  BY <1>13, <2>3
  <1>15. t.size - 1 = Len(I) /\ Len(t.body) = t.size - t.first /\ t.start = Len(I) + 1
    BY <1>1, <1>2, <1>3
  <1>16. Len(I) = N + 2
    BY <1>2
  <1> QED  BY <1>12, <1>12a, <1>14, <1>15, <1>16 DEF TrueXref, I, t

-----------------------------------------------------------------------------
(***************************************************************************)
(* The calls of the generator.                                             *)
(***************************************************************************)
Ticketed(d) == d.tickets = IF d.language = "PCLm" THEN PagesIn(d.items) ELSE {}

Grown(d) ==
  /\ Docs(d) /\ Ticketed(d)
  /\ d.ended => ~d.undefined
  /\ d.language = "PCLm" =>
       IF d.ended THEN TrueXref(d) ELSE Counted(d) /\ KidsKnown(d)

(* A ticket is written. *)
LEMMA TicketWritten ==
  ASSUME NEW d, Docs(d)
  PROVE  LET b == JobTicket(d) IN
         /\ Docs(b) /\ b.language = d.language /\ b.margin = d.margin /\ b.items = d.items
         /\ b.tickets = d.tickets \cup {Len(d.items) + 1} /\ b.xRef = d.xRef
         /\ b.kids = d.kids /\ b.objCounter = d.objCounter /\ b.ended = d.ended
         /\ b.undefined = d.undefined
  <1> DEFINE b == JobTicket(d)
             T == d.tickets \cup {Len(d.items) + 1}
  <1>1. b = [d EXCEPT !.tickets = T]
    BY DEF JobTicket
  <1> HIDE DEF b, T
  <1>2. /\ b.language = d.language /\ b.margin = d.margin /\ b.items = d.items
        /\ b.tickets = T /\ b.xRef = d.xRef /\ b.kids = d.kids
        /\ b.objCounter = d.objCounter /\ b.scratch = d.scratch
        /\ b.firstStrip = d.firstStrip /\ b.ended = d.ended
        /\ b.undefined = d.undefined /\ b.trailer = d.trailer
    BY <1>1 DEF Docs
  <1>3. b = [language |-> b.language, margin |-> b.margin, items |-> b.items,
             tickets |-> b.tickets, xRef |-> b.xRef,
             kids |-> b.kids, objCounter |-> b.objCounter, scratch |-> b.scratch,
             firstStrip |-> b.firstStrip, ended |-> b.ended, undefined |-> b.undefined,
             trailer |-> b.trailer]
    BY <1>1 DEF Docs
  <1>4. Docs(b)
    BY <1>2, <1>3 DEF Docs
  <1> QED  BY <1>2, <1>4 DEF b, T

(* Only flags are set. *)
LEMMA SetKeeps ==
  ASSUME NEW d, NEW w, NEW e, NEW s, NEW f,
         SetParts(w, e, w.objCounter, w.kids, s, f, w.ended, w.undefined)
  PROVE  /\ \A p, n : AddsPage(d, w, p, n) => AddsPage(d, e, p, n)
         /\ \A p, strips : AddsStrips(d, w, p, strips) => AddsStrips(d, e, p, strips)
         /\ Counted(w) => Counted(e)
         /\ KidsKnown(w) => KidsKnown(e)
         /\ Ticketed(w) => Ticketed(e)
  <1>1. /\ e.language = w.language /\ e.margin = w.margin /\ e.items = w.items
        /\ e.tickets = w.tickets
        /\ e.xRef = w.xRef /\ e.objCounter = w.objCounter /\ e.kids = w.kids
        /\ e.undefined = w.undefined
    BY DEF SetParts
  <1>2. Adds(d, w) => Adds(d, e)
    BY <1>1 DEF Adds
  <1>3. \A h : Refers(w, h) => Refers(e, h)
    BY <1>1 DEF Refers
  <1>4. \A p, n : AddsPage(d, w, p, n) => AddsPage(d, e, p, n)
    BY <1>1, <1>2, <1>3 DEF AddsPage
  <1>5. \A p, strips : AddsStrips(d, w, p, strips) => AddsStrips(d, e, p, strips)
    <2> SUFFICES ASSUME NEW p, NEW strips, AddsStrips(d, w, p, strips)
                 PROVE  AddsStrips(d, e, p, strips)
      OBVIOUS
    <2>1. e.items = w.items /\ e.undefined = w.undefined /\ Adds(d, e)
      BY <1>1, <1>2 DEF AddsStrips
    <2> QED  BY <2>1, Zenon DEF AddsStrips
  <1>6. Counted(w) => Counted(e)
    BY <1>1 DEF Counted
  <1>7. KidsKnown(w) => KidsKnown(e)
    BY <1>1 DEF KidsKnown
  <1>8. Ticketed(w) => Ticketed(e)
    BY <1>1 DEF Ticketed
  <1> QED  BY <1>4, <1>5, <1>6, <1>7, <1>8

(* Both flags of a page. *)
LEMMA FlagsSet ==
  ASSUME NEW w, Docs(w), NEW s \in BOOLEAN, NEW f \in BOOLEAN
  PROVE  LET e == [w EXCEPT !.scratch = s, !.firstStrip = f] IN
         SetParts(w, e, w.objCounter, w.kids, s, f, w.ended, w.undefined)
  <1> DEFINE e == [w EXCEPT !.scratch = s, !.firstStrip = f]
  <1>1. /\ w.objCounter \in Nat /\ w.kids \in Seq(Nat) /\ w.ended \in BOOLEAN
        /\ w.undefined \in BOOLEAN
    BY DEF Docs
  <1>2. /\ e.language = w.language /\ e.margin = w.margin /\ e.items = w.items
        /\ e.tickets = w.tickets
        /\ e.xRef = w.xRef /\ e.objCounter = w.objCounter /\ e.kids = w.kids
        /\ e.scratch = s /\ e.firstStrip = f /\ e.ended = w.ended
        /\ e.undefined = w.undefined /\ e.trailer = w.trailer
    BY DEF Docs
  <1>3. DOMAIN e = DOMAIN w /\ e = [x \in DOMAIN e |-> e[x]]
    OBVIOUS
  <1> HIDE DEF e
  <1>4. SetParts(w, e, e.objCounter, e.kids, e.scratch, e.firstStrip, e.ended, e.undefined)
    BY <1>1, <1>2, <1>3, SetIs
  <1> QED  BY <1>2, <1>4 DEF e

(* PCLm starts a page. *)
LEMMA StartsPCLm ==
  ASSUME NEW d, Docs(d), d.language = "PCLm", Counted(d), KidsKnown(d), Ticketed(d),
         NEW p \in Pages, NEW n \in Nat
  PROVE  LET e == StartPage(d, p, n) IN
         /\ Docs(e) /\ AddsPage(d, e, p, n) /\ Counted(e) /\ KidsKnown(e) /\ Ticketed(e)
         /\ e.scratch /\ e.firstStrip /\ e.ended = d.ended /\ e.undefined = d.undefined
  <1> DEFINE b == JobTicket(d)
             w == GrammarPage(b, p, n)
             e == StartPage(d, p, n)
  <1>0. /\ Docs(b) /\ b.language = d.language /\ b.margin = d.margin /\ b.items = d.items
        /\ b.tickets = d.tickets \cup {Len(d.items) + 1} /\ b.xRef = d.xRef
        /\ b.kids = d.kids /\ b.objCounter = d.objCounter /\ b.ended = d.ended
        /\ b.undefined = d.undefined
    BY TicketWritten
  <1>1. e = [w EXCEPT !.scratch = TRUE, !.firstStrip = TRUE]
    BY DEF StartPage
  <1> HIDE DEF b, e
  <1>2. b.objCounter = Len(b.items) + Tree + 1
    BY <1>0 DEF Counted
  <1>3. /\ Docs(w) /\ AddsPage(b, w, p, n)
        /\ w.xRef = d.xRef \o [i \in 1 .. 2 |-> Len(d.items) + i]
        /\ w.tickets = d.tickets \cup {Len(d.items) + 1}
        /\ w.kids = Append(d.kids, d.objCounter) /\ w.objCounter = d.objCounter + 2
        /\ w.ended = d.ended /\ w.undefined = d.undefined
        /\ w.items[Len(d.items) + 1].num = d.objCounter
        /\ w.items[Len(d.items) + 2].num = d.objCounter + 1
    <2>1. /\ Docs(w) /\ AddsPage(b, w, p, n)
          /\ w.xRef = b.xRef \o [i \in 1 .. 2 |-> Len(b.items) + i]
          /\ w.tickets = b.tickets
          /\ w.kids = Append(b.kids, b.objCounter) /\ w.objCounter = b.objCounter + 2
          /\ w.ended = b.ended /\ w.undefined = b.undefined
          /\ w.items[Len(b.items) + 1].num = b.objCounter
          /\ w.items[Len(b.items) + 2].num = b.objCounter + 1
      <3>1. Docs(b) /\ b.language = "PCLm"
        BY <1>0
      <3> QED  BY <1>2, <3>1, PageWritten
    <2> HIDE DEF w
    <2> QED  BY <1>0, <2>1
  <1> HIDE DEF w
  <1>4. AddsPage(d, w, p, n)
    <2>1. Adds(d, w)
      BY <1>0, <1>3 DEF AddsPage, Adds
    <2> QED  BY <1>0, <1>3, <2>1 DEF AddsPage
  <1>5. CountsOn(d, w, 2)
    <2>1. Adds(d, w) /\ Len(w.items) = Len(d.items) + 2
      BY <1>4 DEF AddsPage
    <2>2. \A k \in 1 .. 2 : w.items[Len(d.items) + k].num = d.objCounter + k - 1
      <3>1. d.objCounter \in Nat
        BY DEF Docs
      <3>2. d.objCounter + 1 - 1 = d.objCounter /\ d.objCounter + 2 - 1 = d.objCounter + 1
        BY <3>1
      <3>3. \A k \in 1 .. 2 : k = 1 \/ k = 2
        OBVIOUS
      <3> QED  BY <1>3, <3>2, <3>3
    <2> QED  BY <1>3, <2>1, <2>2 DEF CountsOn
  <1>6. Counted(w)
    BY <1>5, CountMore
  <1>7. KidsKnown(w) /\ Ticketed(w)
    <2>1. PagesIn(w.items) = PagesIn(d.items) \cup {Len(d.items) + 1}
      BY <1>4 DEF AddsPage
    <2>2. KidsKnown(w)
      <3>1. d.objCounter = Len(d.items) + Tree + 1
        BY DEF Counted
      <3> QED  BY <1>3, <2>1, <3>1, KidsJoin
    <2>3. w.language = d.language
      BY <1>4 DEF AddsPage, Adds
    <2> QED  BY <1>3, <2>1, <2>2, <2>3 DEF Ticketed
  <1>8. SetParts(w, e, w.objCounter, w.kids, TRUE, TRUE, w.ended, w.undefined)
    BY <1>3, <1>1, FlagsSet
  <1>9. AddsPage(d, e, p, n) /\ Counted(e) /\ KidsKnown(e) /\ Ticketed(e)
    BY <1>6, <1>7, <1>8, <1>4, SetKeeps
  <1> QED  BY <1>3, <1>8, <1>9 DEF SetParts, e

(* The strips announced of a page are a number. *)
LEMMA TellsNat ==
  ASSUME NEW t \in Tolds, NEW p \in Pages
  PROVE  t.strips[p] \in Nat
  <1> DEFINE s == t.strips[p]
  <1>1. s \in {0} \cup Stripes
    BY DEF Tolds
  <1>2. \A x \in Stripes : x \in Nat
    BY PclAssumption
  <1> HIDE DEF s
  <1>3. s \in Nat
    BY <1>1, <1>2
  <1> QED  BY <1>3 DEF s

(* What is undefined stays as it is. *)
LEMMA CallsNothing ==
  ASSUME NEW d, NEW t, NEW q, NEW L, NEW m, Sending(d, t, q, L, m), d.undefined
  PROVE  DocInv(d, t, q, Tail(L))
  BY DocSkips

(* START_PAGE. *)
LEMMA CallsStartPage ==
  ASSUME NEW d, NEW t, NEW q, NEW L, NEW m, Sending(d, t, q, L, m), Grown(d), ~d.ended,
         m.id = "startPage", ~d.undefined
  PROVE  LET e == StartPage(d, m.page, t.strips[m.page]) IN
         DocInv(e, t, q, Tail(L)) /\ Grown(e) /\ ~e.ended
  <1> DEFINE p == m.page
             n == t.strips[p]
             e == StartPage(d, p, n)
  <1>1. Makes(m, t)
    BY DEF Makes
  <1>2. t \in Tolds /\ p \in Pages /\ Docs(d)
    BY <1>1, SendingFacts
  <1>3. n \in Nat
    BY <1>2, TellsNat
  <1>4. d.language \in {"PCLm", "PWG"}
    BY <1>2, DocParts
  <1>5. CASE d.language = "PCLm"
    <2>1. Counted(d) /\ KidsKnown(d) /\ Ticketed(d)
      BY <1>5 DEF Grown
    <2>2. /\ Docs(e) /\ AddsPage(d, e, p, n) /\ Counted(e) /\ KidsKnown(e) /\ Ticketed(e)
          /\ e.scratch /\ e.firstStrip /\ e.ended = d.ended /\ e.undefined = d.undefined
      BY <1>2, <1>3, <1>5, <2>1, StartsPCLm
    <2> HIDE DEF e
    <2>3. DocInv(e, t, q, Tail(L))
      BY <1>1, <1>5, <2>2, DocPages
    <2>4. Grown(e)
      BY <2>2 DEF Grown
    <2> QED  BY <2>2, <2>3, <2>4 DEF e
  <1>6. CASE d.language = "PWG"
    <2>1. e = Sheet(d, p, n)
      BY <1>6 DEF StartPage
    <2>2. Docs(e) /\ AddsPage(d, e, p, n) /\ e.ended = d.ended /\ e.tickets = d.tickets
      BY <1>2, <1>3, <1>6, <2>1, SheetWritten
    <2> HIDE DEF e
    <2>3. DocInv(e, t, q, Tail(L))
      BY <1>1, <1>6, <2>2, DocPages
    <2>4. Grown(e)
      BY <1>6, <2>2 DEF Grown, Ticketed, AddsPage, Adds
    <2> QED  BY <2>2, <2>3, <2>4 DEF e
  <1> QED  BY <1>4, <1>5, <1>6

(* Single flags. *)
LEMMA OneFlag ==
  ASSUME NEW w, Docs(w)
  PROVE  /\ SetParts(w, [w EXCEPT !.scratch = FALSE], w.objCounter, w.kids, FALSE, w.firstStrip,
                     w.ended, w.undefined)
         /\ \A f \in BOOLEAN :
              SetParts(w, [w EXCEPT !.firstStrip = f], w.objCounter, w.kids, w.scratch, f,
                       w.ended, w.undefined)
         /\ SetParts(w, [w EXCEPT !.ended = TRUE], w.objCounter, w.kids, w.scratch,
                     w.firstStrip, TRUE, w.undefined)
         /\ SetParts(w, [w EXCEPT !.undefined = TRUE], w.objCounter, w.kids, w.scratch,
                     w.firstStrip, w.ended, TRUE)
  <1>1. /\ w.objCounter \in Nat /\ w.kids \in Seq(Nat) /\ w.scratch \in BOOLEAN
        /\ w.firstStrip \in BOOLEAN /\ w.ended \in BOOLEAN /\ w.undefined \in BOOLEAN
    BY DEF Docs
  <1>2. SetParts(w, [w EXCEPT !.scratch = FALSE], w.objCounter, w.kids, FALSE, w.firstStrip,
                 w.ended, w.undefined)
    <2> DEFINE e == [w EXCEPT !.scratch = FALSE]
    <2>1. /\ e.language = w.language /\ e.margin = w.margin /\ e.items = w.items
          /\ e.tickets = w.tickets
          /\ e.xRef = w.xRef /\ e.objCounter = w.objCounter /\ e.kids = w.kids
          /\ e.scratch = FALSE /\ e.firstStrip = w.firstStrip /\ e.ended = w.ended
          /\ e.undefined = w.undefined /\ e.trailer = w.trailer
      BY DEF Docs
    <2>2. DOMAIN e = DOMAIN w /\ e = [x \in DOMAIN e |-> e[x]]
      OBVIOUS
    <2> HIDE DEF e
    <2>3. SetParts(w, e, e.objCounter, e.kids, e.scratch, e.firstStrip, e.ended, e.undefined)
      BY <1>1, <2>1, <2>2, SetIs
    <2> QED  BY <2>1, <2>3 DEF e
  <1>3. ASSUME NEW f \in BOOLEAN
        PROVE  SetParts(w, [w EXCEPT !.firstStrip = f], w.objCounter, w.kids, w.scratch, f,
                        w.ended, w.undefined)
    <2> DEFINE e == [w EXCEPT !.firstStrip = f]
    <2>1. /\ e.language = w.language /\ e.margin = w.margin /\ e.items = w.items
          /\ e.tickets = w.tickets
          /\ e.xRef = w.xRef /\ e.objCounter = w.objCounter /\ e.kids = w.kids
          /\ e.scratch = w.scratch /\ e.firstStrip = f /\ e.ended = w.ended
          /\ e.undefined = w.undefined /\ e.trailer = w.trailer
      BY DEF Docs
    <2>2. DOMAIN e = DOMAIN w /\ e = [x \in DOMAIN e |-> e[x]]
      OBVIOUS
    <2> HIDE DEF e
    <2>3. SetParts(w, e, e.objCounter, e.kids, e.scratch, e.firstStrip, e.ended, e.undefined)
      BY <1>1, <2>1, <2>2, SetIs
    <2> QED  BY <2>1, <2>3 DEF e
  <1>4. SetParts(w, [w EXCEPT !.ended = TRUE], w.objCounter, w.kids, w.scratch, w.firstStrip,
                 TRUE, w.undefined)
    <2> DEFINE e == [w EXCEPT !.ended = TRUE]
    <2>1. /\ e.language = w.language /\ e.margin = w.margin /\ e.items = w.items
          /\ e.tickets = w.tickets
          /\ e.xRef = w.xRef /\ e.objCounter = w.objCounter /\ e.kids = w.kids
          /\ e.scratch = w.scratch /\ e.firstStrip = w.firstStrip /\ e.ended = TRUE
          /\ e.undefined = w.undefined /\ e.trailer = w.trailer
      BY DEF Docs
    <2>2. DOMAIN e = DOMAIN w /\ e = [x \in DOMAIN e |-> e[x]]
      OBVIOUS
    <2> HIDE DEF e
    <2>3. SetParts(w, e, e.objCounter, e.kids, e.scratch, e.firstStrip, e.ended, e.undefined)
      BY <1>1, <2>1, <2>2, SetIs
    <2> QED  BY <2>1, <2>3 DEF e
  <1>5. SetParts(w, [w EXCEPT !.undefined = TRUE], w.objCounter, w.kids, w.scratch,
                 w.firstStrip, w.ended, TRUE)
    <2> DEFINE e == [w EXCEPT !.undefined = TRUE]
    <2>1. /\ e.language = w.language /\ e.margin = w.margin /\ e.items = w.items
          /\ e.tickets = w.tickets
          /\ e.xRef = w.xRef /\ e.objCounter = w.objCounter /\ e.kids = w.kids
          /\ e.scratch = w.scratch /\ e.firstStrip = w.firstStrip /\ e.ended = w.ended
          /\ e.undefined = TRUE /\ e.trailer = w.trailer
      BY DEF Docs
    <2>2. DOMAIN e = DOMAIN w /\ e = [x \in DOMAIN e |-> e[x]]
      OBVIOUS
    <2> HIDE DEF e
    <2>3. SetParts(w, e, e.objCounter, e.kids, e.scratch, e.firstStrip, e.ended, e.undefined)
      BY <1>1, <2>1, <2>2, SetIs
    <2> QED  BY <2>1, <2>3 DEF e
  <1> QED  BY <1>2, <1>3, <1>4, <1>5

(* A row of a sheet. *)
LEMMA RowWritten ==
  ASSUME NEW d, Docs(d)
  PROVE  LET e == RasterRows(d) IN
         Docs(e) /\ AddsRow(d, e) /\ e.ended = d.ended /\ e.tickets = d.tickets
  <1> DEFINE N == Len(d.items)
             e == RasterRows(d)
  <1>1. N \in Nat /\ d.items \in Seq(Made) /\ DOMAIN d.items = 1 .. N
    BY DocParts DEF Docs
  <1>2. CASE N > 0 /\ d.items[N].strip < d.items[N].num
    <2> DEFINE o == d.items[N]
               u == [o EXCEPT !.strip = @ + 1]
               J == [d.items EXCEPT ![N] = u]
    <2>1. e = [d EXCEPT !.items = J]
      <3>1. e = [d EXCEPT !.items[N].strip = @ + 1]
        BY <1>2 DEF RasterRows
      <3> QED  BY <3>1
    <2>2. N \in 1 .. N /\ o \in Made
      BY <1>1, <1>2
    <2>3. /\ u.kind = o.kind /\ u.page = o.page /\ u.num = o.num /\ u.strip = o.strip + 1
          /\ u \in Made
      <3> HIDE DEF o
      <3> QED  BY <2>2 DEF Made
    <2> HIDE DEF o, u
    <2>4. /\ J \in Seq(Made) /\ Len(J) = N /\ J[N] = u
          /\ \A i \in 1 .. N : i # N => J[i] = d.items[i]
      <3>1. \A i \in 1 .. N : J[i] \in Made
        BY <1>1, <2>2, <2>3
      <3>2. DOMAIN J = 1 .. N /\ J = [i \in 1 .. N |-> J[i]]
        BY <1>1
      <3>3. J[N] = u /\ \A i \in 1 .. N : i # N => J[i] = d.items[i]
        BY <1>1, <2>2
      <3> HIDE DEF J, N
      <3>4. J \in Seq(Made) /\ Len(J) = N
        BY <1>1, <3>1, <3>2
      <3> QED  BY <3>3, <3>4
    <2> HIDE DEF J, e, N
    <2>5. /\ e.language = d.language /\ e.margin = d.margin /\ e.items = J
          /\ e.tickets = d.tickets
          /\ e.xRef = d.xRef /\ e.objCounter = d.objCounter /\ e.kids = d.kids
          /\ e.scratch = d.scratch /\ e.firstStrip = d.firstStrip /\ e.ended = d.ended
          /\ e.undefined = d.undefined /\ e.trailer = d.trailer
      BY <2>1 DEF Docs
    <2>6. e = [language |-> e.language, margin |-> e.margin, items |-> e.items,
             tickets |-> e.tickets, xRef |-> e.xRef,
               kids |-> e.kids, objCounter |-> e.objCounter, scratch |-> e.scratch,
               firstStrip |-> e.firstStrip, ended |-> e.ended, undefined |-> e.undefined,
               trailer |-> e.trailer]
      BY <2>1 DEF Docs
    <2>7. Docs(e)
      BY <2>4, <2>5, <2>6 DEF Docs
    <2>8. AddsRow(d, e)
      <3>1. \A i \in 1 .. N : i # N => e.items[i] = d.items[i]
        BY <2>4, <2>5
      <3>2. e.items[N] = u /\ d.items[N] = o /\ o.strip < o.num
        BY <1>2, <2>4, <2>5 DEF o
      <3>3. \A i \in 1 .. N :
              /\ e.items[i].kind = d.items[i].kind /\ e.items[i].page = d.items[i].page
              /\ e.items[i].num = d.items[i].num
              /\ e.items[i].strip = IF i = N /\ d.items[i].strip < d.items[i].num
                                      THEN d.items[i].strip + 1 ELSE d.items[i].strip
        <4> TAKE i \in 1 .. N
        <4>1. CASE i = N
          BY <2>3, <3>2, <4>1
        <4>2. CASE i # N
          BY <3>1, <4>2
        <4> QED  BY <4>1, <4>2
      <3> QED  BY <2>4, <2>5, <3>3 DEF AddsRow, N
    <2> QED  BY <2>5, <2>7, <2>8 DEF e
  <1>3. CASE ~(N > 0 /\ d.items[N].strip < d.items[N].num)
    <2>1. e = d
      BY <1>3 DEF RasterRows
    <2>2. \A i \in 1 .. N : ~(i = N /\ d.items[i].strip < d.items[i].num)
      BY <1>1, <1>3
    <2>3. AddsRow(d, d)
      BY <2>2 DEF AddsRow
    <2> QED  BY <2>1, <2>3
  <1> QED  BY <1>2, <1>3

(* print_swath. *)
LEMMA CallsSwath ==
  ASSUME NEW d, NEW t, NEW q, NEW L, NEW m, Sending(d, t, q, L, m), Grown(d), ~d.ended,
         m.id = "send", ~d.undefined
  PROVE  LET e == PrintSwath(d, m.page, m.row + 1) IN
         DocInv(e, t, q, Tail(L)) /\ Grown(e) /\ ~e.ended
  <1> DEFINE p == m.page
             e == PrintSwath(d, p, m.row + 1)
  <1>1. Docs(d) /\ InLine(m, t, q) /\ m \in Entries /\ q.page \in 0 .. MaxPages
    BY SendingFacts DEF Sending
  <1>2. d.language \in {"PCLm", "PWG"} /\ d.margin \in Nat /\ d.firstStrip \in BOOLEAN
    BY <1>1, DocParts DEF Docs
  <1>3. p \in Pages /\ m.row \in Nat
    <2>1. p \in 1 .. q.page /\ m.row \in Nat
      BY <1>1 DEF InLine, Paged, Entries
    <2> QED  BY <1>1, <2>1, PclAssumption DEF Pages
  <1>4. CASE d.language = "PWG"
    <2>1. e = RasterRows(d)
      BY <1>4 DEF PrintSwath
    <2>2. Docs(e) /\ AddsRow(d, e) /\ e.ended = d.ended /\ e.tickets = d.tickets
      BY <1>1, <2>1, RowWritten
    <2> HIDE DEF e
    <2>3. DocInv(e, t, q, Tail(L))
      BY <1>4, <2>2, DocRows
    <2>4. Grown(e)
      BY <1>4, <2>2 DEF Grown, Ticketed, AddsRow
    <2> QED  BY <2>2, <2>3, <2>4 DEF e
  <1>5. CASE d.language = "PCLm" /\ ~d.scratch
    <2>1. e = [d EXCEPT !.undefined = TRUE]
      BY <1>5 DEF PrintSwath
    <2>2. SetParts(d, e, d.objCounter, d.kids, d.scratch, d.firstStrip, d.ended, TRUE)
      BY <1>1, <2>1, OneFlag
    <2> HIDE DEF e
    <2>3. DocInv(e, t, q, Tail(L))
      BY <1>5, <2>2, DocUndefines DEF SetParts
    <2>4. Grown(e)
      BY <1>5, <2>2 DEF Grown, Ticketed, SetParts, Counted, KidsKnown
    <2>5. ~e.ended
      BY <2>2 DEF SetParts
    <2> QED  BY <2>3, <2>4, <2>5 DEF e
  <1>6. CASE d.language = "PCLm" /\ d.scratch
    <2> DEFINE white == IF d.firstStrip THEN [i \in 1 .. d.margin |-> 0] ELSE << >>
               strips == white \o <<m.row + 1>>
               w == IF d.firstStrip THEN d.margin ELSE 0
               f == IF d.margin > 0 THEN FALSE ELSE d.firstStrip
               u == injectJPEG(d, p, strips)
    <2>1. /\ strips \in Seq(Nat) /\ Len(strips) = w + 1
          /\ (\A k \in 1 .. w : strips[k] = 0) /\ strips[w + 1] = m.row + 1
      <3>1. m.row + 1 \in Nat
        BY <1>3
      <3>2. PICK g \in Nat, b \in BOOLEAN, r \in Nat :
              g = d.margin /\ b = d.firstStrip /\ r = m.row + 1
        BY <1>2, <3>1
      <3> DEFINE ws == (IF b THEN [i \in 1 .. g |-> 0] ELSE << >>) \o <<r>>
                 v  == IF b THEN g ELSE 0
      <3>3. /\ ws \in Seq(Nat) /\ Len(ws) = v + 1
            /\ (\A k \in 1 .. v : ws[k] = 0) /\ ws[v + 1] = r
        BY StripsToCome
      <3>4. ws = strips /\ v = w
        BY <3>2
      <3> HIDE DEF ws, v, strips, w
      <3> QED  BY <3>2, <3>3, <3>4
    <2>2. w \in Nat /\ f \in BOOLEAN
      BY <1>2
    <2>3. e = [u EXCEPT !.firstStrip = IF d.margin > 0 THEN FALSE ELSE @]
      BY <1>6 DEF PrintSwath
    <2> HIDE DEF strips, e
    <2>4. /\ Docs(u) /\ AddsStrips(d, u, p, strips)
          /\ u.xRef = d.xRef \o [i \in 1 .. 2 * Len(strips) |-> Len(d.items) + i]
          /\ u.tickets = d.tickets
          /\ u.kids = d.kids /\ u.objCounter = d.objCounter + 2 * Len(strips)
          /\ u.scratch = d.scratch /\ u.firstStrip = d.firstStrip
          /\ u.ended = d.ended /\ u.undefined = d.undefined
          /\ \A k \in 1 .. 2 * Len(strips) :
               u.items[Len(d.items) + k].num = d.objCounter + k - 1
      BY <1>1, <1>3, <2>1, StripsWritten
    <2> HIDE DEF u
    <2>5. e = [u EXCEPT !.firstStrip = f]
      BY <2>3, <2>4
    <2> HIDE DEF f, w
    <2>6. SetParts(u, e, u.objCounter, u.kids, u.scratch, f, u.ended, u.undefined)
      BY <2>2, <2>4, <2>5, OneFlag
    <2>7. AddsStrips(d, e, p, strips)
      BY <2>4, <2>6, SetKeeps
    <2>8. Counted(d) /\ KidsKnown(d)
      BY <1>6 DEF Grown
    <2>9. DocInv(e, t, q, Tail(L))
      <3>1. d.objCounter = Len(d.items) + Tree + 1
        BY <2>8 DEF Counted
      <3>2. e.scratch = d.scratch /\ e.firstStrip = (IF d.margin > 0 THEN FALSE ELSE d.firstStrip)
        BY <2>4, <2>6 DEF SetParts, f
      <3>3. w = (IF d.firstStrip THEN d.margin ELSE 0)
        BY DEF w
      <3> QED  BY <1>6, <2>1, <2>2, <2>7, <3>1, <3>2, <3>3, DocStrips
    <2>10. Counted(u)
      <3> DEFINE k == 2 * Len(strips)
      <3>1. k \in Nat
        BY <2>1
      <3>2. Adds(d, u) /\ Len(u.items) = Len(d.items) + k
        BY <2>4 DEF AddsStrips
      <3>3. /\ u.xRef = d.xRef \o [i \in 1 .. k |-> Len(d.items) + i]
            /\ u.objCounter = d.objCounter + k
            /\ \A i \in 1 .. k : u.items[Len(d.items) + i].num = d.objCounter + i - 1
        BY <2>4
      <3> HIDE DEF k
      <3>4. CountsOn(d, u, k)
        BY <3>1, <3>2, <3>3 DEF CountsOn
      <3> QED  BY <1>1, <2>8, <3>4, CountMore
    <2>11. KidsKnown(u)
      <3>1. PagesIn(u.items) = PagesIn(d.items)
        BY <2>4 DEF AddsStrips
      <3> QED  BY <2>4, <2>8, <3>1 DEF KidsKnown
    <2>11a. Ticketed(u)
      BY <1>6, <2>4 DEF Grown, Ticketed, AddsStrips, Adds
    <2>12. Counted(e) /\ KidsKnown(e) /\ Ticketed(e)
      BY <2>6, <2>10, <2>11, <2>11a, SetKeeps
    <2>13. Docs(e) /\ ~e.ended
      BY <2>4, <2>6 DEF SetParts
    <2>14. Grown(e)
      BY <2>12, <2>13 DEF Grown
    <2> QED  BY <2>9, <2>13, <2>14 DEF e
  <1> QED  BY <1>2, <1>4, <1>5, <1>6

(* END_PAGE. *)
LEMMA CallsEnd ==
  ASSUME NEW d, NEW t, NEW q, NEW L, NEW m, Sending(d, t, q, L, m), Grown(d), ~d.ended,
         m.id = "endPage", ~d.undefined
  PROVE  LET e == EndOfPage(d, m.page, t.strips[m.page] = 0) IN
         DocInv(e, t, q, Tail(L)) /\ Grown(e) /\ ~e.ended
  <1> DEFINE p == m.page
             e == EndOfPage(d, p, t.strips[p] = 0)
  <1>1. Docs(d) /\ d.language \in {"PCLm", "PWG"}
    BY SendingFacts, DocParts
  <1>2. CASE t.strips[p] = 0 /\ d.language = "PCLm"
    <2> DEFINE w == StartPage(d, p, 0)
    <2>1. e = [w EXCEPT !.scratch = FALSE]
      BY <1>2 DEF EndOfPage
    <2>2. Makes(m, t)
      BY <1>2 DEF Makes
    <2>3. p \in Pages
      BY <2>2, SendingFacts
    <2>4. Counted(d) /\ KidsKnown(d) /\ Ticketed(d)
      BY <1>2 DEF Grown
    <2>5. /\ Docs(w) /\ AddsPage(d, w, p, 0) /\ Counted(w) /\ KidsKnown(w) /\ Ticketed(w)
          /\ w.ended = d.ended /\ w.undefined = d.undefined
      BY <1>1, <1>2, <2>3, <2>4, StartsPCLm
    <2> HIDE DEF e, w
    <2>6. SetParts(w, e, w.objCounter, w.kids, FALSE, w.firstStrip, w.ended, w.undefined)
      BY <2>1, <2>5, OneFlag
    <2>7. AddsPage(d, e, p, 0) /\ Counted(e) /\ KidsKnown(e) /\ Ticketed(e)
      BY <2>5, <2>6, SetKeeps
    <2>8. Docs(e) /\ ~e.ended
      BY <2>5, <2>6 DEF SetParts
    <2>9. AddsPage(d, e, p, t.strips[p])
      BY <1>2, <2>7
    <2>10. DocInv(e, t, q, Tail(L))
      BY <1>2, <2>2, <2>9, DocPages
    <2>11. Grown(e)
      BY <2>7, <2>8 DEF Grown
    <2> QED  BY <2>8, <2>10, <2>11 DEF e
  <1>3. CASE ~(t.strips[p] = 0 /\ d.language = "PCLm")
    <2>1. e = [d EXCEPT !.scratch = FALSE]
      BY <1>3 DEF EndOfPage
    <2>2. Makes(m, t) => d.language = "PWG"
      BY <1>1, <1>3 DEF Makes
    <2> HIDE DEF e
    <2>3. SetParts(d, e, d.objCounter, d.kids, FALSE, d.firstStrip, d.ended, d.undefined)
      BY <1>1, <2>1, OneFlag
    <2>4. /\ e.language = d.language /\ e.margin = d.margin /\ e.items = d.items
          /\ e.undefined = d.undefined /\ Docs(e) /\ ~e.ended
      BY <2>3 DEF SetParts
    <2>5. DocInv(e, t, q, Tail(L))
      BY <2>2, <2>4, DocSkips
    <2>6. Counted(d) => Counted(e)
      BY <2>3, SetKeeps
    <2>7. KidsKnown(d) => KidsKnown(e)
      BY <2>3, SetKeeps
    <2>7a. Ticketed(e)
      BY <2>3, SetKeeps DEF Grown
    <2>8. Grown(e)
      BY <2>4, <2>6, <2>7, <2>7a DEF Grown
    <2> QED  BY <2>4, <2>5, <2>8 DEF e
  <1> QED  BY <1>2, <1>3

(* END_JOB: the trailer of PCLm, or the end of PWG. *)
LEMMA CallsTrailer ==
  ASSUME NEW d, NEW t, NEW q, NEW L, NEW m, Sending(d, t, q, L, m), Grown(d), ~d.ended,
         m.id = "endJob", ~d.undefined
  PROVE  LET e == EndOfJob(d) IN DocInv(e, t, q, Tail(L)) /\ Grown(e)
  <1> DEFINE e == EndOfJob(d)
  <1>1. Docs(d) /\ d.language \in {"PCLm", "PWG"}
    BY SendingFacts, DocParts
  <1>2. CASE d.language = "PCLm"
    <2>1. e = GrammarTrailer(d)
      BY <1>2 DEF EndOfJob
    <2>2. Counted(d) /\ KidsKnown(d)
      BY <1>2 DEF Grown
    <2>3. /\ Docs(e) /\ AddsNoPage(d, e) /\ Trailed(d, e) /\ e.undefined = d.undefined
          /\ e.tickets = d.tickets
      BY <1>1, <2>1, <2>2, TrailerWritten
    <2> HIDE DEF e
    <2>4. DocInv(e, t, q, Tail(L))
      BY <1>2, <2>3, DocTrailer
    <2>5. TrueXref(e)
      BY <1>1, <2>2, <2>3, XrefMade DEF AddsNoPage
    <2>6. e.ended
      BY <2>3 DEF Trailed
    <2>6a. Ticketed(e)
      BY <2>3 DEF Grown, Ticketed, AddsNoPage, Adds
    <2>7. Grown(e)
      BY <2>3, <2>5, <2>6, <2>6a DEF Grown
    <2> QED  BY <2>4, <2>7 DEF e
  <1>3. CASE d.language = "PWG"
    <2>1. e = [d EXCEPT !.ended = TRUE]
      BY <1>3 DEF EndOfJob
    <2> HIDE DEF e
    <2>2. SetParts(d, e, d.objCounter, d.kids, d.scratch, d.firstStrip, TRUE, d.undefined)
      BY <1>1, <2>1, OneFlag
    <2>3. /\ e.language = d.language /\ e.margin = d.margin /\ e.items = d.items
          /\ e.undefined = d.undefined /\ Docs(e) /\ e.tickets = d.tickets
      BY <2>2 DEF SetParts
    <2>4. DocInv(e, t, q, Tail(L))
      BY <1>3, <2>3, DocSkips
    <2>5. Grown(e)
      BY <1>3, <2>3 DEF Grown, Ticketed
    <2> QED  BY <2>4, <2>5 DEF e
  <1> QED  BY <1>1, <1>2, <1>3

(* END_JOB, when it is not known what PWG does. *)
LEMMA CallsLost ==
  ASSUME NEW d, NEW t, NEW q, NEW L, NEW m, Sending(d, t, q, L, m), Grown(d), ~d.ended,
         m.id = "endJob", d.language = "PWG"
  PROVE  LET e == [d EXCEPT !.undefined = TRUE] IN
         DocInv(e, t, q, Tail(L)) /\ Grown(e) /\ ~e.ended
  <1> DEFINE e == [d EXCEPT !.undefined = TRUE]
  <1>1. Docs(d)
    BY SendingFacts
  <1>2. SetParts(d, e, d.objCounter, d.kids, d.scratch, d.firstStrip, d.ended, TRUE)
    BY <1>1, OneFlag
  <1> HIDE DEF e
  <1>3. /\ e.language = d.language /\ e.margin = d.margin /\ e.items = d.items
        /\ e.undefined /\ Docs(e) /\ ~e.ended /\ e.tickets = d.tickets
    BY <1>2 DEF SetParts
  <1>4. DocInv(e, t, q, Tail(L))
    BY <1>3, DocSkips
  <1>5. Grown(e)
    BY <1>3 DEF Grown, Ticketed
  <1> QED  BY <1>3, <1>4, <1>5 DEF e

-----------------------------------------------------------------------------
(***************************************************************************)
(* The document and the line, step by step.                                *)
(***************************************************************************)
SoundInv ==
  /\ OrderInv /\ DocInv(doc, told, prod, Line) /\ Grown(doc)
  /\ doc.ended => send.pc = "ended"

(* There is nothing in an empty document. *)
LEMMA SoundInit == DocInit => SoundInv
  <1> SUFFICES ASSUME DocInit PROVE SoundInv
    OBVIOUS
  <1>1. TypeOK /\ OrderInv
    BY InitPlugin, InitInv, LineInit DEF Inv
  <1>2. /\ doc.language \in Languages /\ doc.margin \in MarginStrips \cup {0}
        /\ doc.items = << >> /\ doc.tickets = {} /\ doc.xRef = << >> /\ doc.kids = << >> /\ doc.objCounter = Tree + 1
        /\ ~doc.scratch /\ ~doc.ended /\ ~doc.undefined
    BY DEF DocInit
  <1>3. Docs(doc)
    <2>1. PICK l \in Languages, m \in MarginStrips \cup {0} :
            doc = [language |-> l, margin |-> m, items |-> << >>, tickets |-> {}, xRef |-> << >>,
                   kids |-> << >>, objCounter |-> Tree + 1, scratch |-> FALSE,
                   firstStrip |-> FALSE, ended |-> FALSE, undefined |-> FALSE,
                   trailer |-> NoTrailer]
      BY DEF DocInit
    <2>2. << >> \in Seq(Made) /\ << >> \in Seq(Nat)
      OBVIOUS
    <2> QED  BY <2>1, <2>2 DEF Docs, Tree
  <1>4. PagesIn(doc.items) = {} /\ Len(doc.items) = 0 /\ 1 .. Len(doc.items) = {}
    BY <1>2 DEF PagesIn
  <1>5. prod.page = 0 /\ 1 .. prod.page = {}
    BY DEF DocInit, Init
  <1>6. Grown(doc)
    <2>1. Counted(doc)
      <3>1. << >> = [i \in 1 .. Len(doc.items) |-> i]
        BY <1>4
      <3> QED  BY <1>2, <1>4, <3>1 DEF Counted, Tree
    <2>2. KidsKnown(doc)
      <3>1. Cardinality({}) = 0 /\ Len(doc.kids) = 0
        BY <1>2, FS_EmptySet
      <3> QED  BY <1>4, <3>1 DEF KidsKnown
    <2>3. Ticketed(doc)
      BY <1>2, <1>4 DEF Ticketed
    <2> QED  BY <1>2, <1>3, <2>1, <2>2, <2>3 DEF Grown
  <1>7. PageInv(doc, told, prod, Line) /\ ImageInv(doc, told)
    BY <1>2, <1>4 DEF PageInv, ImageInv
  <1>8. WholeInv(doc, told, Line) /\ FoundInv(doc, told, prod, Line)
    BY <1>4, <1>5 DEF WholeInv, FoundInv
  <1>9. FrontFits(doc, told, Line)
    <2>1. Line = Sent /\ Sent[1] = Brief(queue[1]) /\ queue[1] = Msg("startJob", 0)
      <3>1. queue = <<Msg("startJob", 0)>> /\ prod.pc = "idle" /\ send.pc = "receive"
        BY DEF DocInit, Init
      <3>2. Len(queue) = 1 /\ queue[1] = Msg("startJob", 0) /\ 1 \in 1 .. 1
        BY <3>1
      <3>3. Briefs[1] = Brief(queue[1])
        BY <3>2 DEF Briefs
      <3> QED  BY <3>1, <3>2, <3>3 DEF Line, LineOf, ComingOf, Sent
    <2>2. Line[1].id = "startJob"
      BY <2>1 DEF Brief, Msg
    <2> QED  BY <2>2 DEF FrontFits, Fits
  <1> QED  BY <1>1, <1>2, <1>6, <1>7, <1>8, <1>9 DEF SoundInv, DocInv

(* Also after a step. *)
LEMMA FactsAfter ==
  ASSUME TypeOK', OrderInv'
  PROVE  Line' \in Seq(Entries) /\ prod'.page \in 0 .. MaxPages
  <1>1. prod'.page \in 0 .. MaxPages /\ prod'.row \in Nat
    BY DEF TypeOK
  <1>2. queue' \in Seq(Messages) /\ send'.msg \in Messages
    BY DEF TypeOK
  <1>3. Len(queue') \in Nat /\ \A i \in 1 .. Len(queue') : queue'[i] \in Messages
    BY <1>2
  <1>4. Briefs' = [i \in 1 .. Len(queue') |-> Brief(queue'[i])]
    BY DEF Briefs, Brief
  <1>5. Briefs' \in Seq(Entries) /\ Brief(send'.msg) \in Entries
    BY <1>2, <1>3, <1>4, BriefParts
  <1>6. Sent' \in Seq(Entries)
    BY <1>5, Around DEF Sent, Brief
  <1>7. NextOf(prod') \in Entries
    BY <1>1 DEF NextOf, Entries, Kinds
  <1> QED  BY <1>1, <1>6, <1>7 DEF Line, LineOf, NextOf, ComingOf

(* The job thread, and the cancel. *)
LEMMA SoundJob ==
  ASSUME TypeOK, TypeOK', SoundInv, UNCHANGED doc, JobSide \/ (Cancel /\ UNCHANGED told)
  PROVE  SoundInv'
  <1>1. OrderInv /\ DocInv(doc, told, prod, Line) /\ Grown(doc)
    BY DEF SoundInv
  <1>2. OrderInv' /\ Moves(Line, told, prod, Line', told', prod')
    BY <1>1, LineJob
  <1>3. /\ Line \in Seq(Entries) /\ prod.page \in 0 .. MaxPages /\ told \in Tolds
        /\ told.lost \subseteq 1 .. prod.page /\ LineCore(Line, told, prod)
    BY <1>1, OrderFacts DEF OrderInv, ToldInv
  <1>4. Line' \in Seq(Entries) /\ prod'.page \in 0 .. MaxPages
    BY <1>2, FactsAfter
  <1>5. DocInv(doc, told', prod', Line')
    BY <1>1, <1>2, <1>3, <1>4, DocMoves
  <1>6. UNCHANGED send
    BY DEF JobSide, Begins, BeginPage, BreakPage, GivesUp, AbandonPage, SendsBlank, BlankPage,
           Ends, EndPage, SendsStrip, SendStripe, Fails, FillFails, WaitBuffer, Fill, LoopEnds,
           EndJob, Join, Cancel
  <1> QED  BY <1>1, <1>2, <1>5, <1>6 DEF SoundInv

(* The send thread is given the first of the line. *)
LEMMA SoundGiven ==
  ASSUME TypeOK, SoundInv, UNCHANGED <<prod, told>>, Sent # << >>, Sent' = Tail(Sent)
  PROVE  /\ Sending(doc, told, prod, Line, Sent[1])
         /\ Line' = Tail(Line)
  <1>1. OrderInv /\ DocInv(doc, told, prod, Line) /\ Grown(doc)
    BY DEF SoundInv
  <1>2. /\ Line \in Seq(Entries) /\ prod.page \in 0 .. MaxPages /\ ToldInv(told, prod)
    BY <1>1, OrderFacts DEF OrderInv
  <1>3. Given(Line, told, prod, Sent[1]) /\ Line' = Tail(Line)
    BY <1>1, LineGiven
  <1> QED  BY <1>1, <1>2, <1>3 DEF Sending, Grown

(* What it makes of it leaves the document in step with the line. *)
LEMMA SoundTaken ==
  ASSUME TypeOK, SoundInv, UNCHANGED <<prod, told>>, Sent # << >>, Sent' = Tail(Sent),
         DocInv(doc', told, prod, Tail(Line)), Grown(doc'),
         doc'.ended => send'.pc = "ended", send'.pc = "ended" => Sent[1].id = "endJob"
  PROVE  SoundInv'
  <1>1. OrderInv
    BY DEF SoundInv
  <1>2. /\ Line' = Tail(Line)
        /\ LineCore(Line', told', prod') /\ LastShort(Line', told', prod')
        /\ ToldInv(told', prod')
        /\ Sent[1].id = "endJob" => Line' = << >> /\ prod'.pc \in {"join", "gone"}
    BY <1>1, LineGiven
  <1>3. OrderInv'
    BY <1>2 DEF OrderInv
  <1>4. DocInv(doc', told', prod', Line')
    BY <1>2
  <1> QED  BY <1>3, <1>4 DEF SoundInv

(* The send thread takes a message of a kind. *)
LEMMA SoundTakes ==
  ASSUME TypeOK, SoundInv, NEW id, Take(id), UNCHANGED <<prod, told>>, send'.pc # "swath"
  PROVE  /\ Sent # << >> /\ Sent' = Tail(Sent)
         /\ Sending(doc, told, prod, Line, Sent[1])
         /\ Sent[1].id = id /\ Sent[1].page = Head(queue).page
         /\ Grown(doc) /\ ~doc.ended
  <1>1. /\ Sent # << >> /\ Sent' = Tail(Sent)
        /\ Sent[1] = Brief(Head(queue)) /\ Head(queue) \in Messages
    BY SentTake
  <1>2. Sent[1].id = id /\ Sent[1].page = Head(queue).page
    BY <1>1, BriefParts DEF Take
  <1>3. Sending(doc, told, prod, Line, Sent[1])
    BY <1>1, SoundGiven
  <1> QED  BY <1>1, <1>2, <1>3 DEF SoundInv, Take

(* Each step of the send thread. *)
LEMMA SoundSend ==
  ASSUME Inv, TypeOK', SoundInv, SendSide, UNCHANGED told
  PROVE  SoundInv'
  <1> DEFINE m == Sent[1]
  <1>0. TypeOK /\ (send.pc = "swath" => send.msg.id = "send")
    BY DEF Inv, Placed
  <1>1. CASE WritesPage
    <2>1. /\ Take("startPage") /\ UNCHANGED <<prod, send>>
          /\ send.pc = "receive" /\ send'.pc = "receive"
      BY <1>1 DEF WritesPage, StartsPage, Take
    <2>2. /\ Sent # << >> /\ Sent' = Tail(Sent) /\ Sending(doc, told, prod, Line, m)
          /\ m.id = "startPage" /\ m.page = Head(queue).page /\ Grown(doc) /\ ~doc.ended
      BY <1>0, <2>1, SoundTakes
    <2>3. doc' = IF doc.undefined THEN doc ELSE StartPage(doc, m.page, told.strips[m.page])
      BY <1>1, <2>2 DEF WritesPage, Calls
    <2> HIDE DEF m
    <2>4. DocInv(doc', told, prod, Tail(Line)) /\ Grown(doc') /\ ~doc'.ended
      <3>1. CASE doc.undefined
        BY <2>2, <2>3, <3>1, CallsNothing
      <3>2. CASE ~doc.undefined
        BY <2>2, <2>3, <3>2, CallsStartPage
      <3> QED  BY <3>1, <3>2
    <2> QED  BY <1>0, <2>1, <2>2, <2>4, SoundTaken DEF m
  <1>2. CASE WritesSwath
    <2>1. /\ send.pc = "swath" /\ send' = [send EXCEPT !.pc = "receive"]
          /\ send \in [pc : {"receive", "swath", "ended"}, msg : Messages]
          /\ UNCHANGED <<queue, prod>>
      BY <1>0, <1>2 DEF WritesSwath, EndsSwath, TypeOK
    <2>2. send'.pc = "receive"
      BY <2>1
    <2>3. Sent # << >> /\ Sent[1] = Brief(send.msg) /\ Sent' = Tail(Sent)
      BY <1>0, <2>1, <2>2, SentGiven
    <2>4. Sending(doc, told, prod, Line, m) /\ Grown(doc) /\ ~doc.ended
      BY <1>0, <2>1, <2>3, SoundGiven DEF SoundInv
    <2>5. m.id = "send" /\ m.page = send.msg.page /\ m.row = send.msg.row
      <3>1. send.msg \in Messages /\ send.msg.id = "send"
        BY <1>0, <2>1
      <3> QED  BY <2>3, <3>1, BriefParts
    <2>6. doc' = IF doc.undefined THEN doc ELSE PrintSwath(doc, m.page, m.row + 1)
      BY <1>2, <2>5 DEF WritesSwath, Calls
    <2> HIDE DEF m
    <2>7. DocInv(doc', told, prod, Tail(Line)) /\ Grown(doc') /\ ~doc'.ended
      <3>1. CASE doc.undefined
        BY <2>4, <2>6, <3>1, CallsNothing
      <3>2. CASE ~doc.undefined
        BY <2>4, <2>5, <2>6, <3>2, CallsSwath
      <3> QED  BY <3>1, <3>2
    <2> QED  BY <1>0, <2>1, <2>2, <2>3, <2>7, SoundTaken DEF m
  <1>3. CASE WritesEnd
    <2>1. /\ Take("endPage") /\ UNCHANGED <<prod, send>>
          /\ send.pc = "receive" /\ send'.pc = "receive"
      BY <1>3 DEF WritesEnd, EndsPage, Take
    <2>2. /\ Sent # << >> /\ Sent' = Tail(Sent) /\ Sending(doc, told, prod, Line, m)
          /\ m.id = "endPage" /\ m.page = Head(queue).page /\ Grown(doc) /\ ~doc.ended
      BY <1>0, <2>1, SoundTakes
    <2>3. doc' = IF doc.undefined THEN doc ELSE EndOfPage(doc, m.page, told.strips[m.page] = 0)
      BY <1>3, <2>2 DEF WritesEnd, Calls
    <2> HIDE DEF m
    <2>4. DocInv(doc', told, prod, Tail(Line)) /\ Grown(doc') /\ ~doc'.ended
      <3>1. CASE doc.undefined
        BY <2>2, <2>3, <3>1, CallsNothing
      <3>2. CASE ~doc.undefined
        BY <2>2, <2>3, <3>2, CallsEnd
      <3> QED  BY <3>1, <3>2
    <2> QED  BY <1>0, <2>1, <2>2, <2>4, SoundTaken DEF m
  <1>4. CASE WritesTrailer
    <2>1. Take("endJob") /\ UNCHANGED prod /\ send' = [send EXCEPT !.pc = "ended"]
      BY <1>4 DEF WritesTrailer, EndsJob
    <2>2. send'.pc = "ended"
      BY <1>0, <2>1 DEF TypeOK
    <2>3. /\ Sent # << >> /\ Sent' = Tail(Sent) /\ Sending(doc, told, prod, Line, m)
          /\ m.id = "endJob" /\ Grown(doc) /\ ~doc.ended
      BY <1>0, <2>1, <2>2, SoundTakes
    <2>4. \/ doc.undefined /\ doc' = doc
          \/ ~doc.undefined /\ doc' = EndOfJob(doc)
          \/ doc.language = "PWG" /\ doc' = [doc EXCEPT !.undefined = TRUE]
      BY <1>4 DEF WritesTrailer, Calls
    <2> HIDE DEF m
    <2>5. DocInv(doc', told, prod, Tail(Line)) /\ Grown(doc')
      <3>1. CASE doc.undefined /\ doc' = doc
        BY <2>3, <3>1, CallsNothing
      <3>2. CASE ~doc.undefined /\ doc' = EndOfJob(doc)
        BY <2>3, <3>2, CallsTrailer
      <3>3. CASE doc.language = "PWG" /\ doc' = [doc EXCEPT !.undefined = TRUE]
        BY <2>3, <3>3, CallsLost
      <3> QED  BY <2>4, <3>1, <3>2, <3>3
    <2> QED  BY <1>0, <2>1, <2>2, <2>3, <2>5, SoundTaken DEF m
  <1>5. CASE UNCHANGED doc /\ StartsJob
    <2>1. /\ Take("startJob") /\ UNCHANGED <<prod, send>>
          /\ send.pc = "receive" /\ send'.pc = "receive"
      BY <1>5 DEF StartsJob, Take
    <2>2. /\ Sent # << >> /\ Sent' = Tail(Sent) /\ Sending(doc, told, prod, Line, m)
          /\ m.id = "startJob" /\ Grown(doc) /\ ~doc.ended
      BY <1>0, <2>1, SoundTakes
    <2> HIDE DEF m
    <2>3. DocInv(doc, told, prod, Tail(Line))
      <3>1. ~Makes(m, told)
        BY <2>2 DEF Makes
      <3> QED  BY <2>2, <3>1, DocSkips
    <2> QED  BY <1>0, <1>5, <2>1, <2>2, <2>3, SoundTaken DEF m
  <1>6. CASE UNCHANGED doc /\ BeginsSwath
    <2>1. /\ Take("send") /\ UNCHANGED <<prod, told, doc>>
          /\ send' = [pc |-> "swath", msg |-> Head(queue)] /\ send.pc = "receive"
      BY <1>6 DEF BeginsSwath, Take
    <2>2. Sent' = Sent
      BY <1>0, <2>1, SentTake
    <2>3. Line' = Line /\ send'.pc = "swath" /\ send.pc # "ended"
      BY <2>1, <2>2 DEF Line, LineOf
    <2>4. OrderInv'
      BY <2>1, <2>3 DEF SoundInv, OrderInv
    <2> QED  BY <2>1, <2>3, <2>4 DEF SoundInv
  <1> QED  BY <1>1, <1>2, <1>3, <1>4, <1>5, <1>6 DEF SendSide

(* Each step of the plugin with its generator. *)
LEMMA SoundStep ==
  ASSUME Inv, TypeOK', SoundInv, [DocNext]_<<vars, dvars>>
  PROVE  SoundInv'
  <1>0. TypeOK
    BY DEF Inv
  <1>1. CASE Cancel /\ UNCHANGED dvars
    BY <1>0, <1>1, SoundJob DEF dvars
  <1>2. CASE JobSide /\ UNCHANGED doc
    BY <1>0, <1>2, SoundJob
  <1>3. CASE SendSide /\ UNCHANGED told
    BY <1>3, SoundSend
  <1>4. CASE UNCHANGED <<vars, dvars>>
    <2>1. UNCHANGED <<queue, send, prod, told, doc>>
      BY <1>4 DEF vars, dvars
    <2>2. Line' = Line
      BY <2>1, SentSame DEF Line, LineOf
    <2> QED  BY <2>1, <2>2 DEF SoundInv, OrderInv
  <1> QED  BY <1>1, <1>2, <1>3, <1>4 DEF DocNext

-----------------------------------------------------------------------------
(***************************************************************************)
(* What this says of the file.                                             *)
(***************************************************************************)
(* The parts of the document have their kinds of values. *)
LEMMA SoundTypes ==
  ASSUME TypeOK, SoundInv
  PROVE  DocTypeOK
  <1>1. Docs(doc) /\ told \in Tolds
    BY DEF SoundInv, Grown, OrderInv, ToldInv
  <1>2. \A o \in Range(doc.items) : o \in Made
    BY <1>1, DocParts DEF Range
  <1>3. \A o \in Range(doc.items) :
          /\ o.kind \in {"page", "contents", "image", "transform", "catalog", "tree", "sheet"}
          /\ o.page \in Pages \cup {0}
          /\ o.num \in Nat /\ o.strip \in Nat /\ o.refs \in Seq(Nat)
    BY <1>2 DEF Made
  <1>4. doc.language = "PCLm" /\ ~doc.ended =>
          Len(doc.xRef) = Len(doc.items) /\ doc.objCounter = Len(doc.items) + Tree + 1
    <2> SUFFICES ASSUME doc.language = "PCLm", ~doc.ended
                 PROVE  Len(doc.xRef) = Len(doc.items)
                        /\ doc.objCounter = Len(doc.items) + Tree + 1
      OBVIOUS
    <2>1. Counted(doc)
      BY DEF SoundInv, Grown
    <2>2. Len(doc.items) \in Nat
      BY <1>1, DocParts
    <2>3. Len([i \in 1 .. Len(doc.items) |-> i]) = Len(doc.items)
      BY <2>2
    <2> QED  BY <2>1, <2>3 DEF Counted
  <1>5. told.strips \in [Pages -> {0} \cup Stripes] /\ told.lost \subseteq Pages
        /\ told.cut \subseteq Pages
    BY <1>1 DEF Tolds
  <1>6. doc.tickets \subseteq DOMAIN doc.items
    BY DEF SoundInv, Grown, Ticketed, PagesIn
  <1> QED  BY <1>1, <1>3, <1>4, <1>5, <1>6 DEF DocTypeOK, Docs

(* The table of a finished file falls short by its tickets. *)
LEMMA SoundXref ==
  ASSUME SoundInv
  PROVE  XrefIsShort
  <1> SUFFICES ASSUME doc.ended, doc.language = "PCLm" PROVE XrefIsShort
    BY DEF XrefIsShort
  <1> DEFINE n == Len(doc.items)
             t == doc.trailer
  <1>1. TrueXref(doc) /\ Docs(doc) /\ doc.tickets = PagesIn(doc.items)
    BY DEF SoundInv, Grown, Ticketed
  <1>2. n \in Nat /\ IsFiniteSet(PagesIn(doc.items)) /\ PagesIn(doc.items) = PagePlaces
    BY <1>1, DocParts, PagesFinite DEF PagesIn, PagePlaces
  <1>3. \A i \in 1 .. n + 1 : Offset(i) - Shortfall(i) = i
    <2> TAKE i \in 1 .. n + 1
    <2> DEFINE S == {j \in PagePlaces : j <= i}
    <2>1. IsFiniteSet(S)
      BY <1>2, FS_Subset
    <2>2. Cardinality(S) \in Nat
      BY <2>1, FS_CardinalityType
    <2>3. Shortfall(i) = Cardinality(S) /\ Offset(i) = i + Cardinality(S)
      BY <1>1, <1>2 DEF Offset, Shortfall
    <2> HIDE DEF S
    <2>4. i \in Int
      BY <1>2
    <2> QED  BY <2>2, <2>3, <2>4
  <1>4. \A k : place(k) = PlaceIn(doc, k)
    BY DEF place, PlaceIn
  <1>5. /\ t.size - 1 = n /\ Len(t.body) = t.size - t.first
        /\ {doc.items[i].num : i \in 1 .. n} = 1 .. n
        /\ (\A i \in 1 .. n : PlaceIn(doc, doc.items[i].num) = i)
        /\ t.start = n + 1
    BY <1>1 DEF TrueXref
  <1>6. /\ \A i \in 1 .. n : place(doc.items[i].num) = Offset(i) - Shortfall(i)
        /\ t.start = Offset(n + 1) - Shortfall(n + 1)
    <2>1. n + 1 \in 1 .. n + 1 /\ \A i \in 1 .. n : i \in 1 .. n + 1
      BY <1>2
    <2> QED  BY <1>3, <1>4, <1>5, <2>1
  <1>7. \A o \in Numbered(Catalog) : \A r \in Range(o.refs) : \A tree \in Numbered(r) :
          [i \in 1 .. Len(tree.refs) |-> (CHOOSE o2 \in Numbered(tree.refs[i]) : TRUE).page]
            = PageOrder
    BY <1>1 DEF TrueXref, NumberedIn, Numbered, Objects, OrderOf, PageOrder, PagesIn, PagePlaces
  <1> QED  BY <1>5, <1>6, <1>7 DEF XrefIsShort

(* The places of a page's images. *)
LEMMA DrawnImages ==
  ASSUME NEW d, NEW h \in Int, NEW n \in Nat, Drawn(d, h, n)
  PROVE  LET T == ImagesIn(d.items, d.items[h].page) IN
         /\ Cardinality(T) = n
         /\ \A i \in T : \E k \in 1 .. n :
              i = h + 2 * k /\ Rank(T, i) = k /\ d.items[i].strip = White(d, k)
  <1> DEFINE T == {h + 2 * k : k \in 1 .. n}
  <1>1. ImagesIn(d.items, d.items[h].page) = T
    BY DEF Drawn
  <1>2. Cardinality(T) = n /\ \A k \in 1 .. n : Rank(T, h + 2 * k) = k
    BY EveryOther
  <1>3. ASSUME NEW i \in T
        PROVE  \E k \in 1 .. n :
                 i = h + 2 * k /\ Rank(T, i) = k /\ d.items[i].strip = White(d, k)
    <2>1. PICK k \in 1 .. n : i = h + 2 * k
      OBVIOUS
    <2>2. d.items[h + 2 * k].strip = White(d, k)
      BY DEF Drawn
    <2> QED  BY <1>2, <2>1, <2>2
  <1> HIDE DEF T
  <1> QED  BY <1>1, <1>2, <1>3

(* The images a page refers to. *)
LEMMA SoundImages ==
  ASSUME TypeOK, SoundInv
  PROVE  ImagesAreFound
  <1> SUFFICES ASSUME doc.language = "PCLm", NEW o \in Objects, o.kind = "page",
                      NEW i \in Images(o.page)
               PROVE  LET k == Rank(Images(o.page), i) IN
                        /\ k <= Len(o.refs) /\ o.refs[k] = doc.items[i].num
                        /\ doc.items[i].strip = IF k <= doc.margin THEN 0 ELSE k - doc.margin
    BY DEF ImagesAreFound
  <1>1. Docs(doc) /\ ImageInv(doc, told)
    BY DEF SoundInv, Grown, DocInv
  <1>2. PICK h \in DOMAIN doc.items : o = doc.items[h]
    BY DEF Objects, Range
  <1>3. /\ DOMAIN doc.items = 1 .. Len(doc.items) /\ Len(doc.items) \in Nat
        /\ doc.margin \in Nat /\ o.strip \in Nat
    BY <1>1, <1>2, DocParts
  <1>4. h \in PagesIn(doc.items)
    BY <1>2 DEF PagesIn, IsPage
  <1>5. Refers(doc, h) /\ \E n \in 0 .. doc.margin + o.strip : Drawn(doc, h, n)
    BY <1>1, <1>2, <1>4 DEF ImageInv
  <1>6. PICK n \in 0 .. doc.margin + o.strip : Drawn(doc, h, n)
    BY <1>5
  <1> DEFINE T == Images(o.page)
  <1>7. T = ImagesIn(doc.items, doc.items[h].page)
    BY <1>2 DEF Images, ImagesIn
  <1>8. h \in Int /\ n \in Nat
    BY <1>3
  <1>9. PICK k \in 1 .. n :
          i = h + 2 * k /\ Rank(T, i) = k /\ doc.items[i].strip = White(doc, k)
    BY <1>6, <1>7, <1>8, DrawnImages
  <1>10. doc.items[i].num = i + Tree
    <2>1. i \in 1 .. Len(doc.items) /\ doc.items[i].kind = "image"
      BY <1>3 DEF Images
    <2> QED  BY <1>1, <2>1 DEF ImageInv
  <1> HIDE DEF T
  <1>11. k \in 1 .. doc.margin + o.strip /\ doc.margin + o.strip \in Nat
    BY <1>3, <1>9
  <1>12. o.refs = [j \in 1 .. doc.margin + o.strip |-> h + 2 + 2 * j]
    BY <1>2, <1>5 DEF Refers
  <1>13. Len(o.refs) = doc.margin + o.strip /\ o.refs[k] = h + 2 + 2 * k
    <2> DEFINE r == doc.margin + o.strip
    <2>1. r \in Nat /\ k \in 1 .. r /\ o.refs = [j \in 1 .. r |-> h + 2 + 2 * j]
      BY <1>11, <1>12
    <2> HIDE DEF r
    <2>2. Len(o.refs) = r /\ o.refs[k] = h + 2 + 2 * k
      BY <2>1
    <2> QED  BY <2>2 DEF r
  <1>14. h + 2 + 2 * k = i + Tree
    BY <1>8, <1>9 DEF Tree
  <1>15. k <= Len(o.refs) /\ o.refs[k] = doc.items[i].num
    BY <1>10, <1>11, <1>13, <1>14
  <1> QED  BY <1>9, <1>15 DEF White, T

(* When the file is finished nothing is on its way. *)
LEMMA SoundEnd ==
  ASSUME SoundInv, doc.ended
  PROVE  Line = << >> /\ prod.pc \in {"join", "gone"} /\ ~doc.undefined
  BY DEF SoundInv, OrderInv, Grown

(* The strips of a whole page. *)
LEMMA SoundWhole ==
  ASSUME TypeOK, SoundInv
  PROVE  PagesAreWhole
  <1> SUFFICES ASSUME doc.ended, NEW o \in Objects, IsPage(o), told.strips[o.page] > 0,
                      o.page \notin told.cut
               PROVE  IF o.kind = "sheet" THEN o.strip = o.num
                      ELSE Cardinality(Images(o.page)) = Len(o.refs)
    BY DEF PagesAreWhole
  <1>1. /\ Docs(doc) /\ PageInv(doc, told, prod, Line) /\ ImageInv(doc, told)
        /\ WholeInv(doc, told, Line) /\ Line = << >> /\ ~doc.undefined
    BY SoundEnd DEF SoundInv, Grown, DocInv
  <1>2. PICK h \in DOMAIN doc.items : o = doc.items[h]
    BY DEF Objects, Range
  <1>3. /\ DOMAIN doc.items = 1 .. Len(doc.items) /\ Len(doc.items) \in Nat
        /\ doc.margin \in Nat /\ o.strip \in Nat /\ doc.language \in {"PCLm", "PWG"}
    BY <1>1, <1>2, DocParts
  <1>4. h \in PagesIn(doc.items)
    BY <1>2 DEF PagesIn
  <1>5. o.kind = IF doc.language = "PWG" THEN "sheet" ELSE "page"
    BY <1>1, <1>2, <1>4 DEF PageInv, PageGood
  <1>6. Complete(doc, h)
    <2>1. told.strips[o.page] # 0
      <3>1. told.strips[o.page] \in Nat
        <4>1. told \in Tolds /\ o.page \in 1 .. prod.page
          BY <1>1, <1>2, <1>4 DEF SoundInv, OrderInv, ToldInv, PageInv, PageGood
        <4>2. o.page \in Pages
          BY <4>1, PclAssumption DEF TypeOK, Pages
        <4> QED  BY <4>1, <4>2, TellsNat
      <3> QED  BY <3>1
    <2> QED  BY <1>1, <1>2, <1>4, <2>1 DEF WholeInv
  <1>7. CASE doc.language = "PWG"
    BY <1>2, <1>5, <1>6, <1>7 DEF Complete
  <1>8. CASE doc.language = "PCLm"
    <2> DEFINE r == doc.margin + o.strip
    <2>1. r \in Nat /\ Drawn(doc, h, r) /\ h \in Int
      BY <1>2, <1>3, <1>6, <1>8 DEF Complete
    <2>2. o.refs = [j \in 1 .. r |-> h + 2 + 2 * j]
      BY <1>1, <1>2, <1>4, <1>8 DEF ImageInv, Refers
    <2> HIDE DEF r
    <2>3. Len(o.refs) = r
      BY <2>1, <2>2
    <2>4. Cardinality(ImagesIn(doc.items, doc.items[h].page)) = r
      BY <2>1, DrawnImages
    <2>5. Images(o.page) = ImagesIn(doc.items, doc.items[h].page)
      BY <1>2 DEF Images, ImagesIn
    <2> QED  BY <1>5, <1>8, <2>3, <2>4, <2>5
  <1> QED  BY <1>3, <1>7, <1>8

(* The references of a whole page. *)
LEMMA SoundHome ==
  ASSUME TypeOK, SoundInv
  PROVE  ReferencesLeadHome
  <1> SUFFICES ASSUME doc.ended, doc.language = "PCLm", NEW o \in Objects, o.kind = "page",
                      o.page \notin told.cut, told.strips[o.page] > 0 \/ doc.margin = 0,
                      NEW x \in Range(o.refs)
               PROVE  \E i \in Images(o.page) : doc.items[i].num = x
    BY DEF ReferencesLeadHome
  <1>1. /\ Docs(doc) /\ PageInv(doc, told, prod, Line) /\ ImageInv(doc, told)
        /\ WholeInv(doc, told, Line) /\ Line = << >> /\ ~doc.undefined
    BY SoundEnd DEF SoundInv, Grown, DocInv
  <1>2. PICK h \in DOMAIN doc.items : o = doc.items[h]
    BY DEF Objects, Range
  <1>3. /\ DOMAIN doc.items = 1 .. Len(doc.items) /\ Len(doc.items) \in Nat
        /\ doc.margin \in Nat /\ o.strip \in Nat
    BY <1>1, <1>2, DocParts
  <1>4. h \in PagesIn(doc.items)
    BY <1>2 DEF PagesIn, IsPage
  <1>5. PageGood(doc, o, told, prod, Line) /\ o.page \in 1 .. prod.page
    BY <1>1, <1>2, <1>4 DEF PageInv, PageGood
  <1> DEFINE r == doc.margin + o.strip
  <1>6. r \in Nat /\ h \in Int
    BY <1>3
  <1>7. o.refs = [j \in 1 .. r |-> h + 2 + 2 * j]
    BY <1>1, <1>2, <1>4 DEF ImageInv, Refers
  <1>8. PICK k \in 1 .. r : x = h + 2 + 2 * k
    BY <1>7 DEF Range
  <1>9. o.strip = told.strips[o.page] /\ told.strips[o.page] \in Nat
    <2>1. told \in Tolds /\ o.page \in Pages
      BY <1>5, PclAssumption DEF TypeOK, Pages, SoundInv, OrderInv, ToldInv
    <2>2. Announced(doc, o) = told.strips[o.page] /\ doc.language # "PWG"
      BY <1>5 DEF PageGood
    <2> QED  BY <2>1, <2>2, TellsNat DEF Announced
  <1>10. told.strips[o.page] # 0
    <2>1. ASSUME told.strips[o.page] = 0
          PROVE  FALSE
      <3>1. r = 0
        BY <1>3, <1>9, <2>1
      <3> QED  BY <1>8, <3>1
    <2> QED  BY <2>1
  <1>11. Complete(doc, h)
    BY <1>1, <1>2, <1>4, <1>10 DEF WholeInv
  <1>12. Drawn(doc, h, r)
    BY <1>2, <1>11 DEF Complete
  <1> HIDE DEF r
  <1>13. h + 2 * k \in Images(o.page)
    <2>1. Images(o.page) = ImagesIn(doc.items, doc.items[h].page)
      BY <1>2 DEF Images, ImagesIn
    <2>2. ImagesIn(doc.items, doc.items[h].page) = {h + 2 * j : j \in 1 .. r}
      BY <1>12 DEF Drawn
    <2> QED  BY <2>1, <2>2
  <1>14. doc.items[h + 2 * k].num = h + 2 * k + Tree
    <2>1. h + 2 * k \in 1 .. Len(doc.items) /\ doc.items[h + 2 * k].kind = "image"
      BY <1>3, <1>13 DEF Images
    <2> QED  BY <1>1, <2>1 DEF ImageInv
  <1>15. x = h + 2 * k + Tree
    BY <1>6, <1>8 DEF Tree
  <1> QED  BY <1>13, <1>14, <1>15

(* The order of the pages is that of their places. *)
LEMMA OrderKept ==
  ASSUME NEW I, PagesIn(I) \subseteq Int, IsFiniteSet(PagesIn(I)), DOMAIN I \subseteq Int
  PROVE  OrderOf(I) = Kept([h \in DOMAIN I |-> I[h].page], PagesIn(I))
  <1> DEFINE K == PagesIn(I)
             s == [h \in DOMAIN I |-> I[h].page]
             a(n) == CHOOSE k \in K : Rank(K, k) = n
             pages == Kept(I, K)
  <1>1. \A n \in 1 .. Cardinality(K) : a(n) \in K
    BY RankAll
  <1>2. K \subseteq DOMAIN I
    BY DEF PagesIn
  <1>3. \A n \in 1 .. Cardinality(K) : s[a(n)] = I[a(n)].page
    BY <1>1, <1>2
  <1>4. /\ DOMAIN pages = 1 .. Cardinality(K)
        /\ \A n \in 1 .. Cardinality(K) : pages[n] = I[a(n)]
    BY DEF Kept
  <1>5. OrderOf(I) = [n \in DOMAIN pages |-> pages[n].page]
    BY DEF OrderOf
  <1>6. Kept(s, K) = [n \in 1 .. Cardinality(K) |-> s[a(n)]]
    BY DEF Kept
  <1> HIDE DEF s, a, pages
  <1>7. [n \in DOMAIN pages |-> pages[n].page] = [n \in 1 .. Cardinality(K) |-> s[a(n)]]
    BY <1>3, <1>4
  <1> QED  BY <1>5, <1>6, <1>7 DEF s

(* The pages of a finished file. *)
LEMMA SoundOrder ==
  ASSUME TypeOK, SoundInv
  PROVE  PagesInOrder
  <1> DEFINE T == {p \in 1 .. prod.page : /\ p \notin told.lost
                                          /\ doc.language = "PWG" => told.strips[p] > 0}
             K == PagesIn(doc.items)
             f == [h \in DOMAIN doc.items |-> doc.items[h].page]
             all == [p \in 1 .. prod.page |-> p]
  <1> SUFFICES ASSUME doc.ended, ~doc.undefined PROVE PageOrder = Kept(all, T)
    BY DEF PagesInOrder
  <1>1. /\ Docs(doc) /\ PageInv(doc, told, prod, Line) /\ FoundInv(doc, told, prod, Line)
        /\ Line = << >> /\ prod.pc \in {"join", "gone"} /\ told \in Tolds
    BY SoundEnd DEF SoundInv, Grown, DocInv, OrderInv, ToldInv
  <1>2. prod.page \in Nat /\ \A p \in 1 .. prod.page : p \in Pages /\ told.strips[p] \in Nat
    <2>1. prod.page \in 0 .. MaxPages
      BY DEF TypeOK
    <2>2. prod.page \in Nat /\ \A p \in 1 .. prod.page : p \in Pages
      BY <2>1, PclAssumption DEF Pages
    <2> QED  BY <1>1, <2>2, TellsNat
  <1>3. K \subseteq DOMAIN doc.items /\ DOMAIN doc.items = 1 .. Len(doc.items)
        /\ Len(doc.items) \in Nat /\ IsFiniteSet(K) /\ K \subseteq Int
    <2>1. /\ DOMAIN doc.items = 1 .. Len(doc.items) /\ Len(doc.items) \in Nat
          /\ K \subseteq 1 .. Len(doc.items)
      BY <1>1, DocParts
    <2>2. IsFiniteSet(K)
      BY <1>1, PagesFinite
    <2> QED  BY <2>1, <2>2
  <1>4. \A h \in K : f[h] = doc.items[h].page
    BY <1>3
  <1>5. \A h \in K : f[h] \in T
    <2> SUFFICES ASSUME NEW h \in K PROVE f[h] \in T
      OBVIOUS
    <2>1. PageGood(doc, doc.items[h], told, prod, Line)
      BY <1>1 DEF PageInv
    <2> QED  BY <1>4, <2>1 DEF PageGood
  <1>6. \A p \in T : \E h \in K : f[h] = p
    <2> SUFFICES ASSUME NEW p \in T PROVE \E h \in K : f[h] = p
      OBVIOUS
    <2>1. /\ p \in 1 .. prod.page /\ p \notin told.lost
          /\ doc.language = "PWG" => told.strips[p] > 0
      OBVIOUS
    <2>2. Found(doc, told, prod, Line, p)
      BY <1>1, <2>1 DEF FoundInv
    <2>3. ~Untold(p, told, prod)
      BY <1>1 DEF Untold
    <2>4. ~(\E i \in 1 .. Len(Line) : Makes(Line[i], told) /\ Line[i].page = p)
      BY <1>1
    <2>5. ~(doc.language = "PWG" /\ told.strips[p] = 0)
      BY <1>2, <2>1
    <2>6. \E h \in K : doc.items[h].page = p
      BY <2>1, <2>2, <2>3, <2>4, <2>5 DEF Found
    <2> QED  BY <1>4, <2>6
  <1>7. \A h, g \in K : h < g => f[h] < f[g]
    BY <1>1, <1>4 DEF PageInv
  <1>8. T \subseteq 1 .. prod.page /\ \A p \in T : all[p] = p /\ p \in Int
    BY <1>2
  <1>9. PageOrder = Kept(f, K)
    <2>1. PageOrder = OrderOf(doc.items)
      BY DEF PageOrder, OrderOf, PagePlaces, PagesIn
    <2>2. DOMAIN doc.items \subseteq Int
      BY <1>3
    <2> QED  BY <1>3, <2>1, <2>2, OrderKept
  <1> HIDE DEF T, K, f, all
  <1>10. T = {f[h] : h \in K}
    BY <1>5, <1>6
  <1>11. Orderly(f, K, T)
    BY <1>3, <1>5, <1>7, <1>8, <1>10 DEF Orderly
  <1>12. \A h \in K : f[h] = all[f[h]]
    BY <1>5, <1>8
  <1> QED  BY <1>9, <1>11, <1>12, KeptMap

(* The document is sound, and the pages arrive. *)
LEMMA SoundFollows ==
  ASSUME TypeOK, SoundInv
  PROVE  DocumentIsSound /\ PagesArrive
  <1>1. StripsHavePages
    BY DEF SoundInv, DocInv, ImageInv, StripsHavePages
  <1> QED  BY <1>1, SoundTypes, SoundXref, SoundImages, SoundHome, SoundWhole, SoundOrder
           DEF DocumentIsSound, PagesArrive

(* All along a job. *)
LEMMA StaysSound == DocSpec => [](Inv /\ SoundInv)
  <1>1. DocInit => Inv /\ SoundInv
    BY InitPlugin, InitInv, SoundInit
  <1>2. Inv /\ SoundInv /\ [DocNext]_<<vars, dvars>> => (Inv /\ SoundInv)'
    <2> SUFFICES ASSUME Inv, SoundInv, [DocNext]_<<vars, dvars>> PROVE (Inv /\ SoundInv)'
      OBVIOUS
    <2>1. Inv'
      BY NextPlugin, NextInv
    <2>2. TypeOK'
      BY <2>1 DEF Inv
    <2> QED  BY <2>1, <2>2, SoundStep
  <1> QED  BY <1>1, <1>2, PTL DEF DocSpec

(* The parts of a document refer to each other, with any number of pages
   and strips and any margin, whole pages and broken ones, a queue of any
   capacity, printed to the end or cancelled: each entry of the cross-
   reference table of a PCLm file falls short of its object by the job
   tickets before it and by nothing else, the page tree names the pages in
   their order, the images of a page are those it refers to, although it
   was written before them, and there are such images for all its
   references unless it was cut or is blank below a margin. *)
THEOREM DocumentStaysSound == DocSpec => []DocumentIsSound
  <1>1. Inv /\ SoundInv => DocumentIsSound
    BY SoundFollows DEF Inv
  <1> QED  BY <1>1, StaysSound, PTL

(* What the job thread hands over arrives: a finished document has all the
   pages that were not lost, once and in their order, those that were not
   cut have all their strips, and a strip without a page comes only after
   a message met a full queue. *)
THEOREM PagesDoArrive == DocSpec => []PagesArrive
  <1>1. Inv /\ SoundInv => PagesArrive
    BY SoundFollows DEF Inv
  <1> QED  BY <1>1, StaysSound, PTL
=============================================================================
