------------------------ MODULE SchedulerCycleProofs ------------------------
(***************************************************************************)
(* Proofs about SchedulerCycle, for any candidates, markets, replies, caps *)
(* and bounds: one open trade per symbol, the day's cap and the charged    *)
(* cost of the vetoes, the rest of a symbol that was stopped out, and that *)
(* no trade opens on a fallback. The first part is about sequences and     *)
(* finite sets.                                                            *)
(***************************************************************************)
EXTENDS SchedulerCycle, SequenceTheorems, FiniteSetTheorems, WellFoundedInduction, TLAPS

-----------------------------------------------------------------------------
(* Numbers, finite sets and sequences. *)

LEMMA MinIs ==
  ASSUME NEW S \in SUBSET Nat, S # {}
  PROVE  Min(S) \in S /\ \A n \in S : Min(S) <= n
<1>1. IsWellFoundedOn(OpToRel(<, Nat), Nat)
  BY NatLessThanWellFounded
<1>2. PICK m \in S : \A n \in S : <<n, m>> \notin OpToRel(<, Nat)
  BY <1>1, WFMin
<1>3. \A n \in S : ~(n < m)
  BY <1>2 DEF OpToRel
<1>4. \E x \in S : \A y \in S : x =< y
  BY <1>3
<1> QED BY <1>4 DEF Min

\* The elements of a sequence that belong to a set, by their places.
Where(seq, set) == {n \in DOMAIN seq : seq[n] \in set}
Count(seq, set) == Cardinality(Where(seq, set))

LEMMA CountType ==
  ASSUME NEW T, NEW seq \in Seq(T), NEW set
  PROVE  /\ IsFiniteSet(Where(seq, set)) /\ Where(seq, set) \subseteq 1 .. Len(seq)
         /\ Count(seq, set) \in 0 .. Len(seq)
<1>1. Where(seq, set) \in SUBSET (1 .. Len(seq)) /\ Len(seq) \in Nat
  BY DEF Where
<1>2. IsFiniteSet(1 .. Len(seq)) /\ Cardinality(1 .. Len(seq)) = Len(seq)
  <2>1. 1 \in Int /\ Len(seq) \in Int /\ (1 > Len(seq) => Len(seq) = 0)
    BY <1>1
  <2>2. /\ IsFiniteSet(1 .. Len(seq))
        /\ Cardinality(1 .. Len(seq)) = IF 1 > Len(seq) THEN 0 ELSE Len(seq) - 1 + 1
    BY <2>1, FS_Interval
  <2> QED BY <2>1, <2>2
<1>3. /\ IsFiniteSet(Where(seq, set))
      /\ Cardinality(Where(seq, set)) <= Len(seq)
  BY <1>1, <1>2, FS_Subset
<1>4. Cardinality(Where(seq, set)) \in Nat
  BY <1>3, FS_CardinalityType
<1> QED BY <1>1, <1>3, <1>4 DEF Count

LEMMA CountEmpty == \A set : Count(<<>>, set) = 0
BY FS_EmptySet DEF Count, Where

LEMMA CountNone ==
  ASSUME NEW T, NEW seq \in Seq(T), NEW set, \A n \in DOMAIN seq : seq[n] \notin set
  PROVE  Count(seq, set) = 0
BY FS_EmptySet DEF Count, Where

LEMMA CountSubset ==
  ASSUME NEW T, NEW seq \in Seq(T), NEW small, NEW large,
         \A n \in DOMAIN seq : seq[n] \in small => seq[n] \in large
  PROVE  Count(seq, small) <= Count(seq, large)
<1>1. Where(seq, small) \in SUBSET Where(seq, large)
  BY DEF Where
<1> QED BY <1>1, CountType, FS_Subset DEF Count

LEMMA CountAppend ==
  ASSUME NEW T, NEW seq \in Seq(T), NEW x \in T, NEW set
  PROVE  Count(Append(seq, x), set) = Count(seq, set) + (IF x \in set THEN 1 ELSE 0)
<1> DEFINE a == Append(seq, x)
           n == Len(seq) + 1
<1>1. /\ DOMAIN a = DOMAIN seq \cup {n} /\ n \notin DOMAIN seq
      /\ a[n] = x /\ \A i \in DOMAIN seq : a[i] = seq[i]
  OBVIOUS
<1> HIDE DEF a, n
<1>2. Where(a, set) = IF x \in set THEN Where(seq, set) \cup {n} ELSE Where(seq, set)
  BY <1>1 DEF Where
<1>3. n \notin Where(seq, set)
  BY <1>1 DEF Where
<1>4. IsFiniteSet(Where(seq, set)) /\ Cardinality(Where(seq, set)) \in Nat
  BY CountType DEF Count
<1>5. Cardinality(Where(seq, set) \cup {n}) = Cardinality(Where(seq, set)) + 1
  BY <1>3, <1>4, FS_AddElement
<1>6. Count(a, set) = Count(seq, set) + (IF x \in set THEN 1 ELSE 0)
  BY <1>2, <1>4, <1>5 DEF Count
<1> QED BY <1>6 DEF a

LEMMA CountUpdate ==
  ASSUME NEW T, NEW seq \in Seq(T), NEW n \in DOMAIN seq, NEW x \in T, NEW set
  PROVE  Count([seq EXCEPT ![n] = x], set)
           = Count(seq, set) - (IF seq[n] \in set THEN 1 ELSE 0) + (IF x \in set THEN 1 ELSE 0)
<1> DEFINE a == [seq EXCEPT ![n] = x]
           rest == Where(seq, set) \ {n}
<1>1. DOMAIN a = DOMAIN seq /\ a[n] = x /\ \A i \in DOMAIN seq : i # n => a[i] = seq[i]
  OBVIOUS
<1> HIDE DEF a
<1>2. Where(a, set) = (IF x \in set THEN rest \cup {n} ELSE rest)
  BY <1>1 DEF Where
<1>3. IsFiniteSet(Where(seq, set)) /\ Cardinality(Where(seq, set)) \in Nat
  BY CountType DEF Count
<1>4. /\ IsFiniteSet(rest)
      /\ Cardinality(rest) = IF n \in Where(seq, set) THEN Cardinality(Where(seq, set)) - 1
                                                      ELSE Cardinality(Where(seq, set))
  BY <1>3, FS_RemoveElement
<1>5. n \in Where(seq, set) <=> seq[n] \in set
  BY DEF Where
<1>6. Cardinality(rest) \in Nat
  BY <1>4, FS_CardinalityType
<1> HIDE DEF rest
<1>7. n \notin rest
  BY DEF rest
<1>8. Cardinality(rest \cup {n}) = Cardinality(rest) + 1
  BY <1>4, <1>7, FS_AddElement
<1>9. Count(a, set)
        = Count(seq, set) - (IF seq[n] \in set THEN 1 ELSE 0) + (IF x \in set THEN 1 ELSE 0)
  BY <1>2, <1>3, <1>4, <1>5, <1>6, <1>8 DEF Count
<1> QED BY <1>9 DEF a

LEMMA CountTail ==
  ASSUME NEW T, NEW seq \in Seq(T), seq # <<>>, NEW set
  PROVE  Count(Tail(seq), set) = Count(seq, set) - (IF Head(seq) \in set THEN 1 ELSE 0)
<1> DEFINE t == Tail(seq)
           rest == Where(seq, set) \ {1}
           f == [n \in Where(t, set) |-> n + 1]
<1>1. /\ t \in Seq(T) /\ Len(seq) \in Nat \ {0} /\ Len(t) = Len(seq) - 1
      /\ DOMAIN t = 1 .. Len(t) /\ DOMAIN seq = 1 .. Len(seq)
      /\ \A n \in DOMAIN t : t[n] = seq[n + 1]
      /\ Head(seq) = seq[1]
  OBVIOUS
<1> HIDE DEF t
<1>2. f \in Bijection(Where(t, set), rest)
  <2>1. \A n \in Where(t, set) : n \in Int /\ n + 1 \in rest
    BY <1>1 DEF Where
  <2>2. \A m \in rest : m - 1 \in Where(t, set) /\ m = (m - 1) + 1
    BY <1>1 DEF Where
  <2>3. \A m \in rest : \E n \in Where(t, set) : f[n] = m
    BY <2>2
  <2> HIDE DEF rest
  <2>4. f \in [Where(t, set) -> rest]
    BY <2>1
  <2>5. \A a, b \in Where(t, set) : f[a] = f[b] => a = b
    BY <2>1
  <2> HIDE DEF f
  <2>6. f \in Injection(Where(t, set), rest) /\ f \in Surjection(Where(t, set), rest)
    BY <2>3, <2>4, <2>5 DEF Injection, Surjection, IsInjective
  <2> QED BY <2>6 DEF Bijection
<1>3. IsFiniteSet(Where(t, set)) /\ IsFiniteSet(Where(seq, set)) /\ Count(seq, set) \in Nat
  BY <1>1, CountType
<1>4. Cardinality(rest) = Cardinality(Where(t, set))
  BY <1>2, <1>3, FS_Bijection DEF ExistsBijection
<1>5. Cardinality(rest) = IF 1 \in Where(seq, set) THEN Cardinality(Where(seq, set)) - 1
                                                    ELSE Cardinality(Where(seq, set))
  BY <1>3, FS_RemoveElement
<1>6. 1 \in Where(seq, set) <=> Head(seq) \in set
  BY <1>1 DEF Where
<1>7. Count(t, set) = Count(seq, set) - (IF Head(seq) \in set THEN 1 ELSE 0)
  BY <1>3, <1>4, <1>5, <1>6 DEF Count
<1> QED BY <1>7 DEF t
-----------------------------------------------------------------------------
(* The operators of the cycle. *)

\* q takes each of its elements from another place of seq.
Permutes(q, seq) ==
  \E p \in [DOMAIN seq -> DOMAIN seq] :
    /\ \A i, j \in DOMAIN seq : p[i] = p[j] => i = j
    /\ \A k \in DOMAIN seq : q[k] = seq[p[k]]

\* Ranked permutes: how many are ahead of an element is different for each.
LEMMA RankedIs ==
  ASSUME NEW T, NEW seq \in Seq(T), NEW scores \in [DOMAIN seq -> Int]
  PROVE  /\ Ranked(seq, scores) \in Seq(T) /\ Len(Ranked(seq, scores)) = Len(seq)
         /\ Permutes(Ranked(seq, scores), seq)
<1> DEFINE D == DOMAIN seq
           N == Len(seq)
           r == [i \in D |-> Cardinality(Ahead(scores, i)) + 1]
<1>1. N \in Nat /\ D = 1 .. N /\ D \subseteq Nat /\ DOMAIN scores = D
  OBVIOUS
<1>2. IsFiniteSet(D) /\ Cardinality(D) = N
  <2>1. CASE N = 0
    BY <1>1, <2>1, FS_EmptySet
  <2>2. CASE N # 0
    BY <1>1, <2>2, FS_Interval
  <2> QED BY <2>1, <2>2
<1> HIDE DEF D, N
<1>3. \A i \in D : /\ Ahead(scores, i) \subseteq D /\ i \notin Ahead(scores, i)
                   /\ IsFiniteSet(Ahead(scores, i)) /\ Cardinality(Ahead(scores, i)) \in Nat
  <2> SUFFICES ASSUME NEW i \in D
               PROVE  /\ Ahead(scores, i) \subseteq D /\ i \notin Ahead(scores, i)
                      /\ IsFiniteSet(Ahead(scores, i)) /\ Cardinality(Ahead(scores, i)) \in Nat
    OBVIOUS
  <2>1. scores \in [D -> Int]
    BY DEF D
  <2>2. Ahead(scores, i) \subseteq D /\ i \notin Ahead(scores, i)
    BY <1>1, <2>1 DEF Ahead
  <2>3. IsFiniteSet(Ahead(scores, i))
    BY <1>2, <2>2, FS_Subset
  <2> QED BY <2>2, <2>3, FS_CardinalityType
<1>4. r \in [D -> D]
  <2> SUFFICES ASSUME NEW i \in D PROVE Cardinality(Ahead(scores, i)) + 1 \in D
    OBVIOUS
  <2> DEFINE A == Ahead(scores, i)
  <2>1. A \subseteq D /\ i \notin A /\ IsFiniteSet(A) /\ Cardinality(A) \in Nat
    BY <1>3
  <2> HIDE DEF A
  <2>2. /\ Cardinality(A) <= Cardinality(D)
        /\ Cardinality(D) = Cardinality(A) => D = A
    BY <1>2, <2>1, FS_Subset
  <2>3. Cardinality(A) # Cardinality(D)
    BY <2>1, <2>2
  <2>4. Cardinality(A) + 1 \in 1 .. N
    BY <1>1, <1>2, <2>1, <2>2, <2>3
  <2> QED BY <1>1, <2>4 DEF A
<1>5. \A i, j \in D : j \in Ahead(scores, i) => r[j] < r[i]
  <2> SUFFICES ASSUME NEW i \in D, NEW j \in D, j \in Ahead(scores, i) PROVE r[j] < r[i]
    OBVIOUS
  <2>1. scores \in [D -> Int]
    BY DEF D
  <2>2. Ahead(scores, j) \cup {j} \subseteq Ahead(scores, i)
    BY <1>1, <2>1 DEF Ahead
  <2>3. Cardinality(Ahead(scores, j) \cup {j}) = Cardinality(Ahead(scores, j)) + 1
    BY <1>3, FS_AddElement
  <2>4. Cardinality(Ahead(scores, j) \cup {j}) <= Cardinality(Ahead(scores, i))
    BY <1>3, <2>2, FS_Subset
  <2>5. /\ Cardinality(Ahead(scores, i)) \in Nat /\ Cardinality(Ahead(scores, j)) \in Nat
        /\ r[i] = Cardinality(Ahead(scores, i)) + 1 /\ r[j] = Cardinality(Ahead(scores, j)) + 1
    BY <1>3
  <2> HIDE DEF r
  <2> QED BY <2>3, <2>4, <2>5
<1>6. \A i, j \in D : r[i] = r[j] => i = j
  <2> SUFFICES ASSUME NEW i \in D, NEW j \in D, i # j PROVE r[i] # r[j]
    OBVIOUS
  <2>1. scores \in [D -> Int]
    BY DEF D
  <2>2. j \in Ahead(scores, i) \/ i \in Ahead(scores, j)
    BY <1>1, <2>1 DEF Ahead
  <2>3. r[i] \in Nat /\ r[j] \in Nat
    BY <1>1, <1>4
  <2> HIDE DEF r
  <2> QED BY <1>5, <2>2, <2>3
<1>7. \A k \in D : \E i \in D : Cardinality(Ahead(scores, i)) = k - 1
  <2>1. r \in Injection(D, D)
    BY <1>4, <1>6 DEF Injection, IsInjective
  <2>2. r \in Surjection(D, D)
    BY <1>2, <2>1, FS_Injection
  <2>3. \A k \in D : \E i \in D : r[i] = k
    BY <2>2 DEF Surjection
  <2>4. \A i \in D : Cardinality(Ahead(scores, i)) \in Nat /\ r[i] = Cardinality(Ahead(scores, i)) + 1
    BY <1>3
  <2> HIDE DEF r
  <2> SUFFICES ASSUME NEW k \in D PROVE \E i \in D : Cardinality(Ahead(scores, i)) = k - 1
    OBVIOUS
  <2>5. PICK i \in D : r[i] = k
    BY <2>3
  <2>6. Cardinality(Ahead(scores, i)) = k - 1
    BY <2>4, <2>5
  <2> QED BY <2>6
<1> DEFINE P(k) == CHOOSE i \in D : Cardinality(Ahead(scores, i)) = k - 1
           p == [k \in D |-> P(k)]
           s == Ranked(seq, scores)
<1>8. \A k \in D : P(k) \in D /\ Cardinality(Ahead(scores, P(k))) = k - 1
  BY <1>7
<1>9. s = [k \in D |-> seq[P(k)]]
  BY DEF Ranked, D
<1> HIDE DEF P, s, r
<1>10. p \in [D -> D] /\ \A i, j \in D : p[i] = p[j] => i = j
  <2>1. \A k \in D : k \in Int
    BY <1>1
  <2>2. \A i, j \in D : P(i) = P(j) => i - 1 = j - 1
    BY <1>8
  <2> QED BY <1>8, <2>1, <2>2
<1>11. \A k \in D : s[k] = seq[p[k]]
  BY <1>9
<1>12. s \in Seq(T) /\ Len(s) = N
  <2>1. \A k \in D : seq[P(k)] \in T
    BY <1>8 DEF D
  <2> QED BY <1>1, <1>9, <2>1
<1>13. Permutes(s, seq)
  BY <1>10, <1>11 DEF Permutes, D
<1> QED BY <1>12, <1>13 DEF s, N

\* The screener's list has each candidate once.
LEMMA ListIs ==
  ASSUME NEW offered \in SUBSET Offers
  PROVE  /\ SetToSeq(offered) \in Seq(Offers)
         /\ \A i, j \in DOMAIN SetToSeq(offered) :
              SetToSeq(offered)[i].symbol = SetToSeq(offered)[j].symbol => i = j
<1> DEFINE s == SetToSeq(offered)
           n == Cardinality(offered)
<1>1. IsFiniteSet(offered)
  BY CycleAssumption, FS_Subset
<1>2. n \in Nat /\ ExistsBijection(1 .. n, offered)
  BY <1>1, FS_CardinalityType
<1>3. \E f \in [1 .. n -> offered] : IsInjective(f)
  BY <1>2 DEF ExistsBijection, Bijection, Injection
<1>4. s \in [1 .. n -> offered] /\ IsInjective(s)
  BY <1>3 DEF SetToSeq
<1> HIDE DEF s, n
<1>5. s \in Seq(Offers)
  BY <1>2, <1>4
<1>6. \A i, j \in DOMAIN s : s[i] = s[j] => i = j
  BY <1>4 DEF IsInjective
<1>7. \A i, j \in DOMAIN s : s[i].symbol = s[j].symbol => i = j
  BY <1>5, <1>6, CycleAssumption
<1> QED BY <1>5, <1>7 DEF s

LEMMA CutIs ==
  ASSUME NEW T, NEW seq \in Seq(T), NEW m \in 0 .. Len(seq)
  PROVE  /\ SubSeq(seq, 1, m) \in Seq(T) /\ Len(SubSeq(seq, 1, m)) = m
         /\ \A i \in 1 .. m : i \in DOMAIN seq /\ SubSeq(seq, 1, m)[i] = seq[i]
OBVIOUS

\* The caps keep the symbols apart and leave no more than the day's.
LEMMA CapsKeep ==
  ASSUME NEW offered \in Seq(Offers), NEW sorted \in Sortings(offered), NEW calls \in Nat,
         \A i, j \in DOMAIN offered : offered[i].symbol = offered[j].symbol => i = j
  PROVE  LET r == applyLLMCaps(offered, sorted, calls) IN
         /\ r \in Seq(Offers)
         /\ \A i, j \in DOMAIN r : r[i].symbol = r[j].symbol => i = j
         /\ MaxCallsPerDay > 0 => r = <<>> \/ Len(r) + calls <= MaxCallsPerDay
<1> DEFINE day == IF MaxCallsPerDay = 0 THEN 0 ELSE MaxCallsPerDay - calls
           caps == {HardCap, MaxCallsPerCycle, day} \ {0}
           m == Min(caps \cup {Len(sorted)})
           r == applyLLMCaps(offered, sorted, calls)
<1>1. CASE MaxCallsPerDay > 0 /\ calls >= MaxCallsPerDay
  <2>1. r = <<>>
    BY <1>1 DEF applyLLMCaps
  <2> QED BY <2>1
<1>2. CASE ~(MaxCallsPerDay > 0 /\ calls >= MaxCallsPerDay) /\ caps = {}
  <2>1. r = offered
    BY <1>2 DEF applyLLMCaps
  <2>2. ~(MaxCallsPerDay > 0)
    <3>1. day \notin {HardCap, MaxCallsPerCycle, day} \ {0}
      BY <1>2
    <3>2. day = 0
      BY <3>1
    <3> QED BY <1>2, <3>2, CycleAssumption
  <2> QED BY <2>1, <2>2
<1>3. CASE ~(MaxCallsPerDay > 0 /\ calls >= MaxCallsPerDay) /\ caps # {}
  <2>1. r = SubSeq(sorted, 1, m)
    BY <1>3 DEF applyLLMCaps
  <2>3. /\ sorted \in Seq(Offers) /\ Len(sorted) = Len(offered)
        /\ Permutes(sorted, offered)
    <3>1. PICK p \in [DOMAIN offered -> DOMAIN offered] :
               IsInjective(p) /\ sorted = [k \in DOMAIN offered |-> offered[p[k]]]
      BY DEF Sortings
    <3>2. DOMAIN offered = 1 .. Len(offered) /\ Len(offered) \in Nat
      OBVIOUS
    <3>3. sorted \in [1 .. Len(offered) -> Offers]
      BY <3>1, <3>2
    <3>4. sorted \in Seq(Offers) /\ Len(sorted) = Len(offered)
      BY <3>2, <3>3
    <3>5. Permutes(sorted, offered)
      BY <3>1 DEF Permutes, IsInjective
    <3> QED BY <3>4, <3>5
  <2>4. caps \cup {Len(sorted)} \in SUBSET Nat /\ caps \cup {Len(sorted)} # {}
    BY <1>3, <2>3, CycleAssumption
  <2>5. /\ m \in caps \cup {Len(sorted)}
        /\ \A n \in caps \cup {Len(sorted)} : m <= n
    BY <2>4, MinIs
  <2>6. m \in 0 .. Len(sorted) /\ (MaxCallsPerDay > 0 => m + calls <= MaxCallsPerDay)
    <3>1. m \in Nat /\ m <= Len(sorted)
      BY <2>4, <2>5
    <3>2. ASSUME MaxCallsPerDay > 0 PROVE day \in caps /\ m <= day /\ day = MaxCallsPerDay - calls
      <4>1. day = MaxCallsPerDay - calls /\ day # 0
        BY <1>3, <3>2, CycleAssumption
      <4>2. day \in caps
        BY <4>1
      <4> QED BY <2>5, <4>1, <4>2
    <3> QED BY <2>3, <3>1, <3>2, CycleAssumption
  <2> HIDE DEF m
  <2>7. /\ r \in Seq(Offers) /\ Len(r) = m
        /\ \A i \in 1 .. m : i \in DOMAIN sorted /\ r[i] = sorted[i]
    BY <2>1, <2>3, <2>6, CutIs
  <2>8. ASSUME NEW i \in DOMAIN r, NEW j \in DOMAIN r, r[i].symbol = r[j].symbol PROVE i = j
    <3>1. PICK p \in [DOMAIN offered -> DOMAIN offered] :
               /\ \A x, y \in DOMAIN offered : p[x] = p[y] => x = y
               /\ \A k \in DOMAIN offered : sorted[k] = offered[p[k]]
      BY <2>3 DEF Permutes
    <3>2. i \in 1 .. m /\ j \in 1 .. m
      BY <2>7
    <3>3. i \in DOMAIN offered /\ j \in DOMAIN offered
      BY <2>3, <2>7, <3>2
    <3>4. offered[p[i]].symbol = offered[p[j]].symbol
      BY <2>7, <2>8, <3>1, <3>2, <3>3
    <3>5. p[i] = p[j]
      BY <3>1, <3>3, <3>4
    <3> QED BY <3>1, <3>3, <3>5
  <2> QED BY <2>6, <2>7, <2>8
<1> QED BY <1>1, <1>2, <1>3

LEMMA DearestIs ==
  /\ DearestCall \in Nat
  /\ \A r \in VetoReplies : r.cost <= DearestCall
<1> DEFINE costs == {r.cost : r \in VetoReplies}
<1>1. costs \subseteq Nat /\ \E x \in costs : \A y \in costs : x >= y
  <2>1. PICK dear \in VetoReplies : \A r \in VetoReplies : r.cost <= dear.cost
    BY CycleAssumption
  <2>2. \A r \in VetoReplies : r.cost \in Nat
    BY CycleAssumption
  <2>3. dear.cost \in costs /\ \A y \in costs : dear.cost >= y
    BY <2>1, <2>2
  <2> QED BY <2>2, <2>3
<1> HIDE DEF costs
<1>2. Max(costs) \in costs /\ \A y \in costs : Max(costs) >= y
  BY <1>1 DEF Max
<1>3. \A r \in VetoReplies : r.cost \in costs
  BY DEF costs
<1>4. DearestCall = Max(costs)
  BY DEF DearestCall, costs
<1> QED BY <1>1, <1>2, <1>3, <1>4

\* A chain of early returns without a hit has no link that holds, as long as
\* every failure has a name.
LEMMA NoFailure ==
  ASSUME NEW chain, DOMAIN chain \in SUBSET Nat, FirstFailure(chain) = "",
         \A n \in DOMAIN chain : chain[n][2] => chain[n][1] # ""
  PROVE  \A n \in DOMAIN chain : ~chain[n][2]
<1> DEFINE hit == {n \in DOMAIN chain : chain[n][2]}
<1> SUFFICES ASSUME hit # {} PROVE FALSE
  OBVIOUS
<1>1. Min(hit) \in hit
  BY MinIs
<1>2. chain[Min(hit)][1] = ""
  BY DEF FirstFailure
<1> QED BY <1>1, <1>2

LEMMA VetoPays ==
  ASSUME NEW seen \in Nat, NEW r \in VetoReplies
  PROVE  /\ VetoCost(seen, r) \in 0 .. DearestCall
         /\ VetoBudget > 0 /\ seen >= VetoBudget => VetoCost(seen, r) = 0
         /\ \/ VetoRequest(seen, r).status = "answered"
            \/ VetoRequest(seen, r).decision = "BLOCK"
<1>1. r.cost \in Nat /\ r.cost <= DearestCall /\ DearestCall \in Nat
  BY DearestIs, CycleAssumption
<1>2. ASSUME VetoBudget > 0, seen >= VetoBudget PROVE VetoFailure(seen, r) # ""
  <2> DEFINE over == <<"LLM_BUDGET_EXCEEDED", VetoBudget > 0 /\ seen >= VetoBudget>>
             key == <<"MISSING_API_KEY", ~r.key>>
             call == <<CallFailure(r), CallFailure(r) # "">>
             body == <<"INVALID_DECISION_JSON", r.body = "not_json">>
             valid == <<"VALIDATION_FAILED", ~ValidVeto(r)>>
             sure == <<"LOW_CONFIDENCE", r.confidence < 75>>
             chain == <<over, key, call, body, valid, sure>>
  <2>1. VetoFailure(seen, r) = FirstFailure(chain)
    BY DEF VetoFailure
  <2>2. /\ over[2] /\ over[1] # "" /\ key[1] # "" /\ body[1] # "" /\ valid[1] # "" /\ sure[1] # ""
        /\ call[2] => call[1] # ""
    BY <1>2, Zenon
  <2> HIDE DEF over, key, call, body, valid, sure
  <2>3. /\ DOMAIN chain = 1 .. 6
        /\ chain[1] = over /\ chain[2] = key /\ chain[3] = call
        /\ chain[4] = body /\ chain[5] = valid /\ chain[6] = sure
    OBVIOUS
  <2> HIDE DEF chain
  <2>4. \A n \in DOMAIN chain : chain[n][2] => chain[n][1] # ""
    <3> SUFFICES ASSUME NEW n \in 1 .. 6, chain[n][2] PROVE chain[n][1] # ""
      BY <2>3
    <3>1. n = 1 \/ n = 2 \/ n = 3 \/ n = 4 \/ n = 5 \/ n = 6
      OBVIOUS
    <3> QED BY <2>2, <2>3, <3>1, Zenon
  <2>5. 1 \in DOMAIN chain /\ DOMAIN chain \in SUBSET Nat
    BY <2>3
  <2>6. FirstFailure(chain) # ""
    BY <2>2, <2>3, <2>4, <2>5, NoFailure
  <2> QED BY <2>1, <2>6
<1>3. VetoCost(seen, r) = 0 \/ (VetoCost(seen, r) = r.cost /\ VetoFailure(seen, r) = "")
  BY DEF VetoCost
<1>4. \/ VetoRequest(seen, r).status = "answered"
      \/ VetoRequest(seen, r).decision = "BLOCK"
  BY DEF VetoRequest, fallbackDecision
<1>5. VetoCost(seen, r) \in 0 .. DearestCall
  <2>1. CASE VetoCost(seen, r) = 0
    BY <1>1, <2>1
  <2>2. CASE VetoCost(seen, r) = r.cost
    BY <1>1, <2>2
  <2> QED BY <1>3, <2>1, <2>2
<1>6. VetoBudget > 0 /\ seen >= VetoBudget => VetoCost(seen, r) = 0
  BY <1>2, <1>3
<1> QED BY <1>4, <1>5, <1>6
-----------------------------------------------------------------------------
(* The invariants: types and the shape of the cycle record, what each       *)
(* candidate at hand has met, the symbols, the books, and the counts.       *)

Decisions == {HighScoreDecision(c) : c \in Offers}
               \cup {VetoRequest(seen, r) : seen \in Nat, r \in VetoReplies}

Tasks == [c : Offers, m : Markets, route : {"SKIP_LLM_HIGH_SCORE", "LLM_VETO_REQUIRED"},
          seen : Nat, veto : {"none", "due", "sent", "answered", "cancelled"}, decision : Decisions]

\* What a task has met: no veto was needed, or one was asked and, when there is
\* an answer, it says so or blocks.
Heard(t) ==
  /\ t.veto = "none" <=> t.route = "SKIP_LLM_HIGH_SCORE"
  /\ t.veto = "none" => /\ t.decision.status = "skip" /\ t.c.score >= Cfg.min_score_skip_llm
                        /\ ~cyc.ranging /\ ~cyc.btcStale
  /\ t.veto \in {"answered", "cancelled"} =>
       t.decision.status = "answered" \/ t.decision.decision = "BLOCK"

CycleInv ==
  /\ DOMAIN cyc = DOMAIN Idle
  /\ cyc.pc \in {"idle", "screen", "books", "caps", "snapshot", "gate", "place"}
  /\ cyc.todo \in Seq(Offers) /\ cyc.tasks \in Seq(Tasks) /\ cyc.approved \in Seq(Tasks)
  /\ cyc.ranging \in BOOLEAN /\ cyc.btcStale \in BOOLEAN /\ cyc.executed \in Nat
  /\ cyc.pc \in {"idle", "screen", "place"} => cyc.todo = <<>>
  /\ cyc.pc # "gate" => cyc.tasks = <<>>
  /\ cyc.pc \notin {"gate", "place"} => cyc.approved = <<>>
  /\ cyc.pc # "place" => cyc.executed = 0

StateInv ==
  /\ streak \in Nat /\ losses \in Nat /\ stops \subseteq Symbols
  /\ \A t \in trades : t.symbol \in Symbols
  /\ stale \in 0 .. Critical /\ cooldown \in Timers /\ blackout \in [Symbols -> Timers]
  /\ usage \in [today : Nat, old : BOOLEAN, row : Nat]
  /\ spent \in Nat /\ reviewed \in Nat /\ resetDue \in BOOLEAN
  /\ made \in Nat /\ faulty \in BOOLEAN /\ resting \subseteq Symbols

HeardInv ==
  /\ \A n \in DOMAIN cyc.tasks : Heard(cyc.tasks[n])
  /\ \A n \in DOMAIN cyc.approved :
       /\ Heard(cyc.approved[n])
       /\ cyc.approved[n].veto \in {"none", "answered", "cancelled"}
       /\ cyc.approved[n].decision.decision # "BLOCK"

\* No two of the candidates at hand, wherever they are, have the same symbol.
Distinct ==
  /\ \A i, j \in DOMAIN cyc.todo : cyc.todo[i].symbol = cyc.todo[j].symbol => i = j
  /\ \A i, j \in DOMAIN cyc.tasks : cyc.tasks[i].c.symbol = cyc.tasks[j].c.symbol => i = j
  /\ \A i, j \in DOMAIN cyc.approved :
       cyc.approved[i].c.symbol = cyc.approved[j].c.symbol => i = j
  /\ \A i \in DOMAIN cyc.todo, j \in DOMAIN cyc.tasks :
       cyc.todo[i].symbol # cyc.tasks[j].c.symbol
  /\ \A i \in DOMAIN cyc.todo, j \in DOMAIN cyc.approved :
       cyc.todo[i].symbol # cyc.approved[j].c.symbol
  /\ \A i \in DOMAIN cyc.tasks, j \in DOMAIN cyc.approved :
       cyc.tasks[i].c.symbol # cyc.approved[j].c.symbol

\* The books: until the first order of the cycle every open trade is in the
\* snapshot, and no candidate that has passed the gate is.
BooksInv ==
  /\ OneTradePerSymbol
  /\ cyc.pc = "gate" => \A t \in trades : \E p \in cyc.snap : p.symbol = t.symbol
  /\ \A n \in DOMAIN cyc.tasks, p \in cyc.snap : p.symbol # cyc.tasks[n].c.symbol
  /\ \A n \in DOMAIN cyc.approved :
       /\ \A p \in cyc.snap : p.symbol # cyc.approved[n].c.symbol
       /\ \A t \in trades : t.symbol # cyc.approved[n].c.symbol

\* A symbol that rests is blacked out.
RestInv == \A s \in resting : Cfg.sl_cooldown /\ blackout[s] = "running"

\* What is to be asked, what was asked and is not in usage yet, what may cost.
Due == {t \in Tasks : t.veto = "due"}
Uncounted == {t \in Tasks : t.veto \in {"sent", "answered", "cancelled"}}
Asked == {t \in Tasks : t.route = "LLM_VETO_REQUIRED"}
Underway == {t \in Tasks : t.veto = "sent" /\ t.seen < VetoBudget}

\* The calls sent are counted or still to be counted, and with those to come
\* they stay within the day's cap.
DayInv ==
  /\ ~faulty => made <= usage.row + Count(cyc.tasks, Uncounted)
  /\ MaxCallsPerDay > 0 =>
       /\ ~faulty => made <= MaxCallsPerDay
       /\ cyc.pc \in {"snapshot", "gate"} =>
            LET asking == Count(cyc.tasks, Due) + Len(cyc.todo)
            IN  asking <= MaxCallsPerDay /\ (~faulty => made + asking <= MaxCallsPerDay)

\* A call under way has seen the budget unspent: what it will cost is reserved.
SpendInv ==
  VetoBudget > 0 /\ MaxCallsPerCycle > 0 =>
    /\ cyc.todo # <<>> \/ ~AllAnswered => Count(cyc.tasks, Asked) <= MaxCallsPerCycle
    /\ spent <= VetoBudget - 1
                  + (MaxCallsPerCycle - Count(cyc.tasks, Underway)) * DearestCall

-----------------------------------------------------------------------------
(* What each step does to the cycle record. *)

LEMMA IdleIs ==
  /\ Idle.pc = "idle" /\ Idle.todo = <<>> /\ Idle.tasks = <<>> /\ Idle.approved = <<>>
  /\ Idle.snap = {} /\ Idle.ranging = FALSE /\ Idle.btcStale = FALSE /\ Idle.executed = 0
BY DEF Idle

LEMMA BeginStep ==
  ASSUME CycleInv, Begin
  PROVE  /\ CycleInv' /\ cyc.pc = "idle" /\ cyc'.pc = "screen"
         /\ cyc'.todo = <<>> /\ cyc'.tasks = <<>> /\ cyc'.approved = <<>> /\ cyc'.snap = {}
         /\ cyc'.executed = 0
BY DEF Begin, CycleInv, Idle

LEMMA ScreenStep ==
  ASSUME CycleInv, Screen
  PROVE  /\ CycleInv' /\ cyc.pc = "screen" /\ cyc'.pc = "books"
         /\ \E offered \in SUBSET Offers : cyc'.todo = SetToSeq(offered)
         /\ cyc'.tasks = <<>> /\ cyc'.approved = <<>> /\ cyc'.snap = cyc.snap /\ cyc'.executed = 0
<1>1. PICK offered \in UNION {kSubset(n, Offers) : n \in 1 .. MaxOffered}, ranging \in BOOLEAN :
        cyc' = [cyc EXCEPT !.pc = "books", !.ranging = ranging, !.btcStale = stale > 0,
                           !.todo = SetToSeq(offered)]
  BY DEF Screen
<1>2. offered \in SUBSET Offers
  BY DEF kSubset
<1> DEFINE s == SetToSeq(offered)
<1>3. s \in Seq(Offers)
  BY <1>2, ListIs
<1>4. cyc.pc = "screen"
  BY DEF Screen
<1> DEFINE b == stale > 0
<1>5. b \in BOOLEAN
  OBVIOUS
<1>6. cyc' = [cyc EXCEPT !.pc = "books", !.ranging = ranging, !.btcStale = b, !.todo = s]
  BY <1>1
<1> HIDE DEF s, b
<1>7. /\ DOMAIN cyc' = DOMAIN Idle /\ cyc'.pc = "books" /\ cyc'.todo = s
      /\ cyc'.ranging = ranging /\ cyc'.btcStale = b /\ cyc'.tasks = cyc.tasks
      /\ cyc'.approved = cyc.approved /\ cyc'.executed = cyc.executed /\ cyc'.snap = cyc.snap
  BY <1>6 DEF CycleInv, Idle
<1>8. CycleInv'
  BY <1>3, <1>4, <1>5, <1>7 DEF CycleInv
<1> QED BY <1>2, <1>4, <1>7, <1>8 DEF CycleInv, s

LEMMA UpdateStep ==
  ASSUME CycleInv, updatePostTradeState
  PROVE  /\ CycleInv' /\ cyc.pc = "books" /\ cyc'.pc = "caps"
         /\ cyc'.todo = cyc.todo /\ cyc'.tasks = <<>> /\ cyc'.approved = <<>>
         /\ cyc'.snap = cyc.snap /\ cyc'.executed = 0
<1>1. cyc.pc = "books" /\ cyc' = [cyc EXCEPT !.pc = "caps"]
  BY DEF updatePostTradeState
<1> QED BY <1>1 DEF CycleInv, Idle

LEMMA CapStep ==
  ASSUME CycleInv, Distinct, usage \in [today : Nat, old : BOOLEAN, row : Nat], CapCandidates
  PROVE  /\ CycleInv' /\ cyc.pc = "caps" /\ cyc'.pc = "snapshot"
         /\ cyc'.tasks = <<>> /\ cyc'.approved = <<>> /\ cyc'.snap = cyc.snap /\ cyc'.executed = 0
         /\ usage' \in [today : Nat, old : BOOLEAN, row : Nat] /\ usage'.row = usage.row
         /\ faulty' = (faulty \/ usage'.today < usage.row)
         /\ \A i, j \in DOMAIN cyc'.todo : cyc'.todo[i].symbol = cyc'.todo[j].symbol => i = j
         /\ MaxCallsPerDay > 0 =>
              cyc'.todo = <<>> \/ Len(cyc'.todo) + usage'.today <= MaxCallsPerDay
<1>1. PICK readable \in BOOLEAN, sorted \in Sortings(cyc.todo) :
        /\ usage' = LoadedUsage(readable)
        /\ cyc' = [cyc EXCEPT !.pc = "snapshot",
                     !.todo = applyLLMCaps(cyc.todo, sorted, LoadedUsage(readable).today)]
        /\ faulty' = (faulty \/ LoadedUsage(readable).today < usage.row)
  BY DEF CapCandidates
<1>2. cyc.pc = "caps"
  BY DEF CapCandidates
<1>3. usage' \in [today : Nat, old : BOOLEAN, row : Nat] /\ usage'.row = usage.row
  BY <1>1 DEF LoadedUsage
<1> DEFINE calls == usage'.today
           s == applyLLMCaps(cyc.todo, sorted, calls)
<1>4. cyc' = [cyc EXCEPT !.pc = "snapshot", !.todo = s]
  BY <1>1
<1>5. calls \in Nat
  BY <1>3
<1> HIDE DEF calls
<1>6. /\ s \in Seq(Offers)
      /\ \A i, j \in DOMAIN s : s[i].symbol = s[j].symbol => i = j
      /\ MaxCallsPerDay > 0 => s = <<>> \/ Len(s) + calls <= MaxCallsPerDay
  BY <1>5, CapsKeep DEF CycleInv, Distinct
<1> HIDE DEF s
<1>7. /\ DOMAIN cyc' = DOMAIN Idle /\ cyc'.pc = "snapshot" /\ cyc'.todo = s
      /\ cyc'.ranging = cyc.ranging /\ cyc'.btcStale = cyc.btcStale /\ cyc'.tasks = cyc.tasks
      /\ cyc'.approved = cyc.approved /\ cyc'.executed = cyc.executed /\ cyc'.snap = cyc.snap
  BY <1>4 DEF CycleInv, Idle
<1>8. CycleInv'
  BY <1>2, <1>6, <1>7 DEF CycleInv
<1>9. faulty' = (faulty \/ usage'.today < usage.row)
  BY <1>1
<1> QED BY <1>2, <1>3, <1>6, <1>7, <1>8, <1>9 DEF CycleInv, calls

LEMMA SnapshotStep ==
  ASSUME CycleInv, Snapshot
  PROVE  /\ CycleInv' /\ cyc.pc = "snapshot"
         /\ \/ cyc' = Idle
            \/ cyc'.pc = "gate" /\ cyc'.todo = cyc.todo /\ cyc'.snap = OpenPositions
         /\ cyc'.tasks = <<>> /\ cyc'.approved = <<>> /\ cyc'.executed = 0
<1>1. cyc.pc = "snapshot"
  BY DEF Snapshot
<1>2. CASE cyc' = [cyc EXCEPT !.pc = "gate", !.snap = OpenPositions]
  BY <1>1, <1>2 DEF CycleInv, Idle
<1>3. CASE cyc' = Idle
  BY <1>1, <1>3 DEF CycleInv, Idle
<1> QED BY <1>2, <1>3 DEF Snapshot

LEMMA Unblocked ==
  ASSUME NEW in, EvaluateHardBlocks(in) = {}
  PROVE  ~BlockIfPositionAlreadyOpen(in)
BY DEF EvaluateHardBlocks, Hits

\* A candidate the gate lets through is not in the snapshot, was routed and,
\* when it is to be asked about, is one of at most so many.
LEMMA AdmittedIs ==
  ASSUME CycleInv, NEW c \in Offers, NEW m \in Markets, NEW btc, Admitted(c, m, btc)
  PROVE  /\ \A p \in cyc.snap : p.symbol # c.symbol
         /\ Task(c, m) \in Tasks /\ Heard(Task(c, m)) /\ Task(c, m).c = c
         /\ Task(c, m).veto \in {"none", "due"}
         /\ Task(c, m).route = "LLM_VETO_REQUIRED" /\ MaxCallsPerCycle > 0
              => Count(cyc.tasks, Asked) < MaxCallsPerCycle
<1>1. \A p \in cyc.snap : p.symbol # c.symbol
  <2>1. Blocks(c, m, btc) = {}
    BY DEF Admitted
  <2>2. PICK in : /\ Blocks(c, m, btc) = EvaluateHardBlocks(in)
                  /\ in.positions = cyc.snap /\ in.symbol = c.symbol
    BY DEF Blocks
  <2> QED BY <2>1, <2>2, Unblocked DEF BlockIfPositionAlreadyOpen
<1>2. Route(c) \in {"SKIP_LLM_HIGH_SCORE", "LLM_VETO_REQUIRED"}
  BY DEF Admitted
<1>3. HighScoreDecision(c) \in Decisions /\ HighScoreDecision(c).status = "skip"
  BY DEF Decisions, HighScoreDecision
<1>4. Route(c) = "SKIP_LLM_HIGH_SCORE"
        => c.score >= Cfg.min_score_skip_llm /\ ~cyc.ranging /\ ~cyc.btcStale
  BY DEF Route, RouteCandidate, CycleInv
<1> DEFINE v == IF Route(c) = "LLM_VETO_REQUIRED" THEN "due" ELSE "none"
           d == HighScoreDecision(c)
           r == Route(c)
           t == Task(c, m)
<1>5. t = [c |-> c, m |-> m, route |-> r, seen |-> 0, veto |-> v, decision |-> d]
  BY DEF Task
<1>6. /\ r \in {"SKIP_LLM_HIGH_SCORE", "LLM_VETO_REQUIRED"} /\ v \in {"none", "due"}
      /\ v = "none" <=> r = "SKIP_LLM_HIGH_SCORE"
  BY <1>2
<1> HIDE DEF v, d, r, t
<1>7. t \in Tasks /\ t.c = c /\ t.veto = v /\ t.route = r /\ t.decision = d
  BY <1>3, <1>5, <1>6 DEF Tasks, d
<1>8. Heard(t)
  BY <1>3, <1>4, <1>6, <1>7 DEF Heard, d, r
<1>9. ASSUME r = "LLM_VETO_REQUIRED", MaxCallsPerCycle > 0
      PROVE  Count(cyc.tasks, Asked) < MaxCallsPerCycle
  <2>1. VetoTasks = Where(cyc.tasks, Asked)
    BY DEF VetoTasks, Where, Asked, CycleInv
  <2>2. Cardinality(VetoTasks) < MaxCallsPerCycle
    BY <1>9 DEF Admitted, r
  <2> QED BY <2>1, <2>2 DEF Count
<1> QED BY <1>1, <1>6, <1>7, <1>8, <1>9 DEF t

LEMMA GateStep ==
  ASSUME CycleInv, Gate
  PROVE  /\ CycleInv' /\ cyc.pc = "gate" /\ cyc'.pc = "gate"
         /\ cyc.todo # <<>> /\ cyc'.todo = Tail(cyc.todo)
         /\ cyc'.snap = cyc.snap /\ cyc'.approved = cyc.approved
         /\ cyc'.ranging = cyc.ranging /\ cyc'.btcStale = cyc.btcStale
         /\ \/ cyc'.tasks = cyc.tasks
            \/ \E t \in Tasks : /\ cyc'.tasks = Append(cyc.tasks, t)
                                /\ t.c = Head(cyc.todo) /\ Heard(t) /\ t.veto \in {"none", "due"}
                                /\ \A p \in cyc.snap : p.symbol # t.c.symbol
                                /\ t.route = "LLM_VETO_REQUIRED" /\ MaxCallsPerCycle > 0
                                     => Count(cyc.tasks, Asked) < MaxCallsPerCycle
<1>1. cyc.pc = "gate" /\ cyc.todo # <<>>
  BY DEF Gate
<1> DEFINE c == Head(cyc.todo)
<1>2. c \in Offers /\ Tail(cyc.todo) \in Seq(Offers)
  BY <1>1 DEF CycleInv
<1>3. PICK m \in Markets, btc \in {NotANumber, 0, Cfg.btc_crash} : cyc' = Gated(c, m, btc)
  BY DEF Gate
<1> DEFINE s == IF Admitted(c, m, btc) THEN Append(cyc.tasks, Task(c, m)) ELSE cyc.tasks
           rest == Tail(cyc.todo)
<1>4. cyc' = [cyc EXCEPT !.todo = rest, !.tasks = s]
  BY <1>3 DEF Gated
<1>5. \/ s = cyc.tasks
      \/ \E t \in Tasks : /\ s = Append(cyc.tasks, t)
                          /\ t.c = c /\ Heard(t) /\ t.veto \in {"none", "due"}
                          /\ \A p \in cyc.snap : p.symbol # t.c.symbol
                          /\ t.route = "LLM_VETO_REQUIRED" /\ MaxCallsPerCycle > 0
                               => Count(cyc.tasks, Asked) < MaxCallsPerCycle
  <2>1. CASE ~Admitted(c, m, btc)
    BY <2>1
  <2>2. CASE Admitted(c, m, btc)
    <3> DEFINE t == Task(c, m)
    <3>1. /\ \A p \in cyc.snap : p.symbol # c.symbol
          /\ t \in Tasks /\ Heard(t) /\ t.c = c /\ t.veto \in {"none", "due"}
          /\ t.route = "LLM_VETO_REQUIRED" /\ MaxCallsPerCycle > 0
               => Count(cyc.tasks, Asked) < MaxCallsPerCycle
      BY <1>2, <2>2, AdmittedIs
    <3>2. s = Append(cyc.tasks, t)
      BY <2>2
    <3> HIDE DEF t, s, c
    <3> QED BY <3>1, <3>2
  <2> QED BY <2>1, <2>2
<1> HIDE DEF s, rest
<1>6. s \in Seq(Tasks)
  <2>1. cyc.tasks \in Seq(Tasks)
    BY DEF CycleInv
  <2>2. ASSUME NEW t \in Tasks, s = Append(cyc.tasks, t) PROVE s \in Seq(Tasks)
    BY <2>1, <2>2
  <2> QED BY <1>5, <2>1, <2>2
<1>7. /\ DOMAIN cyc' = DOMAIN Idle /\ cyc'.pc = "gate" /\ cyc'.todo = rest /\ cyc'.tasks = s
      /\ cyc'.ranging = cyc.ranging /\ cyc'.btcStale = cyc.btcStale
      /\ cyc'.approved = cyc.approved /\ cyc'.executed = cyc.executed /\ cyc'.snap = cyc.snap
  BY <1>1, <1>4 DEF CycleInv, Idle
<1>8. CycleInv'
  BY <1>1, <1>2, <1>6, <1>7 DEF CycleInv, rest
<1> QED BY <1>1, <1>5, <1>7, <1>8 DEF rest

\* The two steps of a veto. Nothing is left to gate.
\* The call for the n-th task is sent or answered, which leaves the task t.
VetoTurns(n, t) ==
  /\ cyc'.tasks = [cyc.tasks EXCEPT ![n] = t]
  /\ t.c = cyc.tasks[n].c /\ t.route = cyc.tasks[n].route
  /\ \/ /\ SendVeto(n) /\ cyc.tasks[n].veto = "due"
        /\ t.veto = "sent" /\ t.seen = spent
     \/ /\ ReceiveVeto(n) /\ cyc.tasks[n].veto = "sent"
        /\ t.veto \in {"answered", "cancelled"}
        /\ t.seen = cyc.tasks[n].seen
        /\ t.decision.status = "answered" \/ t.decision.decision = "BLOCK"
        /\ \E r \in VetoReplies : spent' = spent + VetoCost(t.seen, r)

LEMMA VetoStep ==
  ASSUME CycleInv, HeardInv, spent \in Nat, NEW n \in DOMAIN cyc.tasks, SendVeto(n) \/ ReceiveVeto(n)
  PROVE  /\ CycleInv' /\ cyc.pc = "gate" /\ cyc'.pc = "gate" /\ cyc.todo = <<>> /\ cyc'.todo = <<>>
         /\ cyc'.snap = cyc.snap /\ cyc'.approved = cyc.approved
         /\ cyc'.ranging = cyc.ranging /\ cyc'.btcStale = cyc.btcStale
         /\ cyc.tasks[n] \in Tasks /\ ~AllAnswered
         /\ \E t \in Tasks : VetoTurns(n, t)
<1> DEFINE old == cyc.tasks[n]
<1>1. cyc.pc = "gate" /\ cyc.todo = <<>> /\ old.veto \in {"due", "sent"}
  BY DEF SendVeto, ReceiveVeto
<1>2. old \in Tasks /\ ~AllAnswered
  BY <1>1 DEF CycleInv, AllAnswered
<1>3. PICK t \in Tasks :
        /\ cyc' = [cyc EXCEPT !.tasks[n] = t]
        /\ t.c = old.c /\ t.route = old.route
        /\ \/ SendVeto(n) /\ old.veto = "due" /\ t.veto = "sent" /\ t.seen = spent
           \/ /\ ReceiveVeto(n) /\ old.veto = "sent" /\ t.veto \in {"answered", "cancelled"}
              /\ t.seen = old.seen
              /\ t.decision.status = "answered" \/ t.decision.decision = "BLOCK"
              /\ \E r \in VetoReplies : spent' = spent + VetoCost(t.seen, r)
  <2>1. CASE SendVeto(n)
    <3> DEFINE t == [old EXCEPT !.veto = "sent", !.seen = spent]
    <3>1. /\ t \in Tasks /\ t.c = old.c /\ t.route = old.route /\ t.veto = "sent"
          /\ t.seen = spent
      BY <1>2 DEF Tasks
    <3>2. cyc' = [cyc EXCEPT !.tasks[n] = t] /\ old.veto = "due"
      BY <2>1 DEF SendVeto
    <3> HIDE DEF t, old
    <3> QED BY <2>1, <3>1, <3>2
  <2>2. CASE ReceiveVeto(n)
    <3>1. PICK r \in VetoReplies :
            /\ cyc' = [cyc EXCEPT !.tasks[n] =
                 [@ EXCEPT !.veto = Outcome(cyc.tasks[n].seen, r),
                           !.decision = VetoRequest(cyc.tasks[n].seen, r)]]
            /\ spent' = spent + VetoCost(old.seen, r)
      BY <2>2 DEF ReceiveVeto
    <3> DEFINE d == VetoRequest(old.seen, r)
               o == Outcome(old.seen, r)
               t == [old EXCEPT !.veto = o, !.decision = d]
    <3>2. old.seen \in Nat /\ old.veto = "sent"
      BY <1>2, <2>2 DEF Tasks, ReceiveVeto
    <3>3. d \in Decisions /\ (d.status = "answered" \/ d.decision = "BLOCK")
      BY <3>2, VetoPays DEF Decisions
    <3>4. cyc' = [cyc EXCEPT !.tasks[n] = t]
      BY <3>1
    <3>o. o \in {"answered", "cancelled"}
      BY DEF Outcome
    <3> HIDE DEF d, o
    <3>5. /\ t \in Tasks /\ t.c = old.c /\ t.route = old.route /\ t.veto = o
          /\ t.seen = old.seen /\ t.decision = d
      BY <1>2, <3>3, <3>o DEF Tasks
    <3> HIDE DEF t, old
    <3>6. spent' = spent + VetoCost(t.seen, r)
      BY <3>1, <3>5
    <3> QED BY <2>2, <3>2, <3>3, <3>4, <3>5, <3>6, <3>o
  <2> QED BY <2>1, <2>2
<1> DEFINE s == [cyc.tasks EXCEPT ![n] = t]
<1>4. s \in Seq(Tasks)
  BY DEF CycleInv
<1>5. cyc' = [cyc EXCEPT !.tasks = s]
  BY <1>3
<1> HIDE DEF s
<1>6. /\ DOMAIN cyc' = DOMAIN Idle /\ cyc'.pc = "gate" /\ cyc'.todo = cyc.todo /\ cyc'.tasks = s
      /\ cyc'.ranging = cyc.ranging /\ cyc'.btcStale = cyc.btcStale
      /\ cyc'.approved = cyc.approved /\ cyc'.executed = cyc.executed /\ cyc'.snap = cyc.snap
  BY <1>1, <1>5 DEF CycleInv, Idle
<1>7. CycleInv'
  BY <1>1, <1>4, <1>6 DEF CycleInv
<1>8. VetoTurns(n, t)
  BY <1>3, <1>6 DEF s, VetoTurns
<1> HIDE DEF old
<1> QED BY <1>1, <1>2, <1>6, <1>7, <1>8 DEF old

LEMMA JudgeStep ==
  ASSUME CycleInv, HeardInv, reviewed \in Nat, usage \in [today : Nat, old : BOOLEAN, row : Nat],
         faulty \in BOOLEAN, Judge
  PROVE  /\ CycleInv' /\ cyc.pc = "gate" /\ cyc'.pc = "gate" /\ cyc.todo = <<>> /\ cyc'.todo = <<>>
         /\ cyc.tasks # <<>> /\ AllAnswered /\ cyc'.tasks = Tail(cyc.tasks)
         /\ cyc'.snap = cyc.snap
         /\ cyc'.ranging = cyc.ranging /\ cyc'.btcStale = cyc.btcStale
         /\ Head(cyc.tasks) \in Tasks /\ Heard(Head(cyc.tasks))
         /\ Head(cyc.tasks).veto \in {"none", "answered", "cancelled"}
         /\ \/ cyc'.approved = cyc.approved
            \/ /\ cyc'.approved = Append(cyc.approved, Head(cyc.tasks))
               /\ Head(cyc.tasks).decision.decision # "BLOCK"
         /\ reviewed' \in Nat
         /\ usage' \in [today : Nat, old : BOOLEAN, row : Nat]
         /\ faulty' \in BOOLEAN /\ (faulty => faulty')
         /\ ~faulty' =>
              /\ Head(cyc.tasks).veto # "cancelled"
              /\ usage'.row = usage.row + (IF Head(cyc.tasks).veto = "answered" THEN 1 ELSE 0)
<1> DEFINE task == Head(cyc.tasks)
<1>1. cyc.pc = "gate" /\ cyc.todo = <<>> /\ cyc.tasks # <<>> /\ AllAnswered
  BY DEF Judge
<1>2. PICK written \in IF task.veto = "answered" THEN BOOLEAN ELSE {task.veto = "none"},
           reply \in IF ToReview(task) THEN ReviewReplies ELSE {CHOOSE r \in ReviewReplies : TRUE} :
        /\ usage' = IF task.veto = "answered" THEN trackLLMCall(written) ELSE usage
        /\ faulty' = (faulty \/ ~written)
        /\ reviewed' = IF ToReview(task)
                       THEN reviewed + ReviewCost(ReviewMode, reviewed, reply) ELSE reviewed
        /\ cyc' = [cyc EXCEPT
             !.tasks = Tail(cyc.tasks),
             !.approved = IF ToReview(task) /\ Review(ReviewMode, reviewed, reply) # "REJECT"
                          THEN Append(cyc.approved, task) ELSE cyc.approved]
  BY DEF Judge
<1>3. /\ 1 \in DOMAIN cyc.tasks /\ task = cyc.tasks[1] /\ task \in Tasks
      /\ Tail(cyc.tasks) \in Seq(Tasks)
  BY <1>1 DEF CycleInv
<1>4. task.veto \in {"none", "answered", "cancelled"} /\ Heard(task)
  BY <1>1, <1>3 DEF AllAnswered, HeardInv
<1> HIDE DEF task
<1> DEFINE rest == Tail(cyc.tasks)
           a == IF ToReview(task) /\ Review(ReviewMode, reviewed, reply) # "REJECT"
                THEN Append(cyc.approved, task) ELSE cyc.approved
<1>5. a = cyc.approved \/ (a = Append(cyc.approved, task) /\ task.decision.decision # "BLOCK")
  BY DEF ToReview
<1>6. cyc' = [cyc EXCEPT !.tasks = rest, !.approved = a]
  BY <1>2
<1> HIDE DEF a, rest
<1>7. a \in Seq(Tasks)
  <2>1. cyc.approved \in Seq(Tasks)
    BY DEF CycleInv
  <2>2. ASSUME a = Append(cyc.approved, task) PROVE a \in Seq(Tasks)
    BY <1>3, <2>1, <2>2
  <2> QED BY <1>5, <2>1, <2>2
<1>8. /\ DOMAIN cyc' = DOMAIN Idle /\ cyc'.pc = "gate" /\ cyc'.todo = cyc.todo
      /\ cyc'.tasks = rest /\ cyc'.approved = a
      /\ cyc'.ranging = cyc.ranging /\ cyc'.btcStale = cyc.btcStale
      /\ cyc'.executed = cyc.executed /\ cyc'.snap = cyc.snap
  BY <1>1, <1>6 DEF CycleInv, Idle
<1>9. CycleInv'
  BY <1>1, <1>3, <1>7, <1>8 DEF CycleInv, rest
<1>10. reviewed' \in Nat
  <2>1. CASE ToReview(task)
    <3>1. reply \in ReviewReplies /\ reply.cost \in Nat
      BY <1>2, <2>1, CycleAssumption
    <3>2. ReviewCost(ReviewMode, reviewed, reply) \in Nat
      BY <3>1 DEF ReviewCost, ReviewCall
    <3> QED BY <1>2, <2>1, <3>2
  <2> QED BY <1>2, <2>1
<1>11. written \in BOOLEAN /\ (written => task.veto # "cancelled")
  BY <1>2
<1>12. usage' \in [today : Nat, old : BOOLEAN, row : Nat]
  BY <1>2, <1>11 DEF trackLLMCall
<1>13. faulty' \in BOOLEAN /\ (faulty => faulty') /\ (~written => faulty')
  BY <1>2, <1>11
<1>14. ~faulty' => /\ task.veto # "cancelled"
                   /\ usage'.row = usage.row + (IF task.veto = "answered" THEN 1 ELSE 0)
  <2> SUFFICES ASSUME written PROVE usage'.row = usage.row + (IF task.veto = "answered" THEN 1 ELSE 0)
    BY <1>11, <1>13
  <2>1. CASE task.veto = "answered"
    BY <1>2, <2>1 DEF trackLLMCall
  <2>2. CASE task.veto # "answered"
    BY <1>2, <2>2
  <2> QED BY <2>1, <2>2
<1> QED BY <1>1, <1>3, <1>4, <1>5, <1>8, <1>9, <1>10, <1>12, <1>13, <1>14 DEF task, rest

LEMMA MaxNewIs ==
  ASSUME CycleInv
  PROVE  MaxNewPositions \in Nat
<1> DEFINE n == Cfg.max_new_positions_per_cycle
<1>1. n \in Nat \ {0}
  BY CycleAssumption
<1>2. MaxNewPositions = ComputeReduceNewPositions(n, 1, cyc.ranging)
  BY <1>1 DEF MaxNewPositions
<1> HIDE DEF n
<1>3. Max({n - 1, 1}) \in Nat
  <2>1. \E x \in {n - 1, 1} : \A y \in {n - 1, 1} : x >= y
    BY <1>1
  <2>2. Max({n - 1, 1}) \in {n - 1, 1}
    BY <2>1 DEF Max
  <2> QED BY <1>1, <2>2
<1> QED BY <1>1, <1>2, <1>3 DEF ComputeReduceNewPositions

\* The ranking keeps some of the approved tasks, each once.
LEMMA RankStep ==
  ASSUME CycleInv, Rank
  PROVE  /\ CycleInv' /\ cyc.pc = "gate" /\ cyc'.pc = "place"
         /\ cyc.todo = <<>> /\ cyc'.todo = <<>> /\ cyc.tasks = <<>> /\ cyc'.tasks = <<>>
         /\ cyc'.snap = cyc.snap /\ cyc'.executed = 0
         /\ cyc'.ranging = cyc.ranging /\ cyc'.btcStale = cyc.btcStale
         /\ \E p \in [DOMAIN cyc.approved -> DOMAIN cyc.approved] :
              /\ \A i, j \in DOMAIN cyc.approved : p[i] = p[j] => i = j
              /\ \A i \in DOMAIN cyc'.approved : /\ i \in DOMAIN cyc.approved
                                                 /\ cyc'.approved[i] = cyc.approved[p[i]]
<1> DEFINE scores == [n \in DOMAIN cyc.approved |-> cyc.approved[n].c.score]
           ranked == Ranked(cyc.approved, scores)
           m == Min({MaxNewPositions, Len(ranked)})
           a == SubSeq(ranked, 1, m)
<1>1. /\ cyc.pc = "gate" /\ cyc.todo = <<>> /\ cyc.tasks = <<>>
      /\ cyc' = [cyc EXCEPT !.pc = "place", !.approved = a]
  BY DEF Rank
<1>2. scores \in [DOMAIN cyc.approved -> Int]
  <2>1. \A t \in Tasks : t.c \in Offers
    BY DEF Tasks
  <2>2. \A n \in DOMAIN cyc.approved : cyc.approved[n] \in Tasks
    BY DEF CycleInv
  <2>3. \A n \in DOMAIN cyc.approved : cyc.approved[n].c.score \in Int
    BY <2>1, <2>2, CycleAssumption
  <2> QED BY <2>3
<1> HIDE DEF scores
<1>3. cyc.approved \in Seq(Tasks)
  BY DEF CycleInv
<1>4. ranked \in Seq(Tasks) /\ Len(ranked) = Len(cyc.approved) /\ Permutes(ranked, cyc.approved)
  BY <1>2, <1>3, RankedIs
<1> HIDE DEF ranked
<1>5. m \in 0 .. Len(ranked)
  <2>1. MaxNewPositions \in Nat /\ Len(ranked) \in Nat
    BY <1>4, MaxNewIs
  <2>2. {MaxNewPositions, Len(ranked)} \in SUBSET Nat /\ {MaxNewPositions, Len(ranked)} # {}
    BY <2>1
  <2>3. m \in {MaxNewPositions, Len(ranked)} /\ \A n \in {MaxNewPositions, Len(ranked)} : m <= n
    BY <2>2, MinIs
  <2> HIDE DEF m
  <2> QED BY <2>1, <2>3
<1> HIDE DEF m
<1>6. a \in Seq(Tasks) /\ Len(a) = m /\ \A i \in 1 .. m : i \in DOMAIN ranked /\ a[i] = ranked[i]
  BY <1>4, <1>5, CutIs
<1> HIDE DEF a
<1>7. /\ DOMAIN cyc' = DOMAIN Idle /\ cyc'.pc = "place" /\ cyc'.todo = cyc.todo
      /\ cyc'.tasks = cyc.tasks /\ cyc'.approved = a
      /\ cyc'.ranging = cyc.ranging /\ cyc'.btcStale = cyc.btcStale
      /\ cyc'.executed = cyc.executed /\ cyc'.snap = cyc.snap
  BY <1>1 DEF CycleInv, Idle
<1>8. CycleInv'
  BY <1>1, <1>6, <1>7 DEF CycleInv
<1>9. PICK p \in [DOMAIN cyc.approved -> DOMAIN cyc.approved] :
        /\ \A i, j \in DOMAIN cyc.approved : p[i] = p[j] => i = j
        /\ \A k \in DOMAIN cyc.approved : ranked[k] = cyc.approved[p[k]]
  BY <1>4 DEF Permutes
<1>10. DOMAIN ranked = DOMAIN cyc.approved /\ DOMAIN a = 1 .. m
  BY <1>3, <1>4, <1>6
<1>11. \A i \in DOMAIN a : i \in DOMAIN cyc.approved /\ a[i] = cyc.approved[p[i]]
  BY <1>6, <1>9, <1>10
<1>12. cyc.executed = 0
  BY <1>1 DEF CycleInv
<1> QED BY <1>1, <1>5, <1>6, <1>7, <1>8, <1>9, <1>11, <1>12

LEMMA PlaceStep ==
  ASSUME CycleInv, Place
  PROVE  /\ CycleInv' /\ cyc.pc = "place" /\ cyc'.pc = "place"
         /\ cyc'.todo = <<>> /\ cyc'.tasks = <<>> /\ cyc'.snap = cyc.snap
         /\ cyc.approved # <<>> /\ cyc'.approved = Tail(cyc.approved)
         /\ Head(cyc.approved) \in Tasks /\ Head(cyc.approved) = cyc.approved[1]
         /\ cyc'.ranging = cyc.ranging /\ cyc'.btcStale = cyc.btcStale
         /\ \/ trades' = trades
            \/ /\ Placeable(Head(cyc.approved))
               /\ \E t : /\ trades' = trades \cup {t}
                         /\ t.symbol = Head(cyc.approved).c.symbol
                         /\ t.score = Head(cyc.approved).c.score
<1> DEFINE task == Head(cyc.approved)
           rest == Tail(cyc.approved)
           trade == [symbol |-> task.c.symbol, side |-> task.c.side, score |-> task.c.score,
                     opened |-> cycles, notional |-> FinalNotional(task.c, task.decision, Books)]
<1>1. cyc.pc = "place" /\ cyc.approved # <<>>
  BY DEF Place
<1>2. task \in Tasks /\ task = cyc.approved[1] /\ rest \in Seq(Tasks)
  BY <1>1 DEF CycleInv
<1>3. trade.symbol = task.c.symbol /\ trade.score = task.c.score
  OBVIOUS
<1>4. PICK x \in {cyc.executed, cyc.executed + 1} :
        /\ cyc' = [cyc EXCEPT !.approved = rest, !.executed = x]
        /\ trades' = trades \/ (Placeable(task) /\ trades' = trades \cup {trade})
  <2> DEFINE s == [cyc EXCEPT !.approved = rest]
  <2>1. /\ s = [cyc EXCEPT !.approved = rest, !.executed = cyc.executed]
        /\ [s EXCEPT !.executed = cyc.executed + 1]
             = [cyc EXCEPT !.approved = rest, !.executed = cyc.executed + 1]
    BY DEF CycleInv, Idle
  <2>2. \/ cyc' = s /\ trades' = trades
        \/ /\ cyc' = [s EXCEPT !.executed = cyc.executed + 1]
           /\ Placeable(task) /\ trades' = trades \cup {trade}
    BY DEF Place
  <2> HIDE DEF s, trade, task, rest
  <2> QED BY <2>1, <2>2
<1> HIDE DEF trade, task, rest
<1>5. /\ DOMAIN cyc' = DOMAIN Idle /\ cyc'.pc = "place" /\ cyc'.todo = cyc.todo
      /\ cyc'.tasks = cyc.tasks /\ cyc'.approved = rest
      /\ cyc'.ranging = cyc.ranging /\ cyc'.btcStale = cyc.btcStale
      /\ cyc'.executed = x /\ cyc'.snap = cyc.snap
  BY <1>1, <1>4 DEF CycleInv, Idle
<1>6. CycleInv'
  BY <1>1, <1>2, <1>4, <1>5 DEF CycleInv
<1>7. \/ trades' = trades
      \/ /\ Placeable(task)
         /\ \E t : trades' = trades \cup {t} /\ t.symbol = task.c.symbol /\ t.score = task.c.score
  BY <1>3, <1>4
<1>8. cyc.todo = <<>> /\ cyc.tasks = <<>>
  BY <1>1 DEF CycleInv
<1> QED BY <1>1, <1>2, <1>5, <1>6, <1>7, <1>8 DEF task, rest

\* The steps that end a cycle, and those that leave it alone.
LEMMA EndStep ==
  ASSUME cyc' = Idle
  PROVE  /\ CycleInv' /\ cyc'.pc = "idle" /\ cyc'.todo = <<>> /\ cyc'.tasks = <<>>
         /\ cyc'.approved = <<>> /\ cyc'.snap = {} /\ cyc'.executed = 0
BY DEF CycleInv, Idle

LEMMA SameStep ==
  ASSUME CycleInv, cyc' = cyc
  PROVE  CycleInv'
BY DEF CycleInv

-----------------------------------------------------------------------------
(* Type correctness. *)

LEMMA SymbolOf == \A c \in Offers : c.symbol \in Symbols
BY DEF Symbols

LEMMA StateKept ==
  ASSUME CycleInv, HeardInv, Distinct, StateInv, [Next]_vars
  PROVE  StateInv'
<1> USE DEF simulator, memory, llm, history
<1>1. CASE Begin
  BY <1>1 DEF Begin, StateInv
<1>2. CASE EndEarly \/ Screen \/ Snapshot \/ Rank \/ Finish
  BY <1>2 DEF EndEarly, Screen, Snapshot, Rank, Finish, StateInv
<1>3. CASE updatePostTradeState
  <2>1. losses' = streak /\ cooldown' \in Timers /\ blackout' \in [Symbols -> Timers]
    BY <1>3 DEF updatePostTradeState, BlackoutAfter, StateInv, Timers
  <2>2. resting' \subseteq Symbols
    BY <1>3 DEF updatePostTradeState, StateInv
  <2> QED BY <1>3, <2>1, <2>2 DEF updatePostTradeState, StateInv
<1>4. CASE CapCandidates
  <2>1. /\ usage' \in [today : Nat, old : BOOLEAN, row : Nat]
        /\ faulty' \in BOOLEAN
    BY <1>4, CapStep DEF StateInv
  <2> QED BY <1>4, <2>1 DEF CapCandidates, StateInv
<1>5. CASE Gate
  <2>1. stale' \in 0 .. Critical
    <3>1. PICK btc : stale' = StaleAfter(btc)
      BY <1>5 DEF Gate
    <3>2. stale + 1 \in Nat /\ Critical \in Nat
      BY CycleAssumption DEF StateInv
    <3>3. /\ Min({stale + 1, Critical}) \in {stale + 1, Critical}
          /\ \A n \in {stale + 1, Critical} : Min({stale + 1, Critical}) <= n
      BY <3>2, MinIs
    <3>4. StaleAfter(btc) \in {Min({stale + 1, Critical}), 0}
      BY DEF StaleAfter
    <3> QED BY <3>1, <3>2, <3>3, <3>4
  <2> QED BY <1>5, <2>1 DEF Gate, StateInv
<1>6. CASE Veto
  <2>1. PICK n \in DOMAIN cyc.tasks : SendVeto(n) \/ ReceiveVeto(n)
    BY <1>6 DEF Veto
  <2>2. CASE SendVeto(n)
    BY <2>2 DEF SendVeto, StateInv
  <2>3. CASE ReceiveVeto(n)
    <3>1. PICK r \in VetoReplies : spent' = spent + VetoCost(cyc.tasks[n].seen, r)
      BY <2>3 DEF ReceiveVeto
    <3>2. cyc.tasks[n].seen \in Nat
      <4>1. cyc.tasks[n] \in Tasks
        BY DEF CycleInv
      <4> QED BY <4>1 DEF Tasks
    <3>3. spent' \in Nat
      BY <3>1, <3>2, VetoPays, DearestIs DEF StateInv
    <3> QED BY <2>3, <3>3 DEF ReceiveVeto, StateInv
  <2> QED BY <2>1, <2>2, <2>3
<1>7. CASE Judge
  <2>1. /\ usage' \in [today : Nat, old : BOOLEAN, row : Nat]
        /\ faulty' \in BOOLEAN /\ reviewed' \in Nat
    BY <1>7, JudgeStep DEF StateInv
  <2> QED BY <1>7, <2>1 DEF Judge, StateInv
<1>8. CASE Place
  <2>1. \A x \in trades' : x.symbol \in Symbols
    <3>1. Head(cyc.approved).c \in Offers
      BY <1>8, PlaceStep DEF Tasks
    <3>2. CASE trades' = trades
      BY <3>2 DEF StateInv
    <3>3. ASSUME NEW t, trades' = trades \cup {t}, t.symbol = Head(cyc.approved).c.symbol
          PROVE  \A x \in trades' : x.symbol \in Symbols
      BY <3>1, <3>3, SymbolOf DEF StateInv
    <3> QED BY <1>8, <3>2, <3>3, PlaceStep
  <2> QED BY <1>8, <2>1 DEF Place, StateInv
<1>9. CASE Environment
  <2>1. CASE \E t \in trades, reason \in {"sl", "tp1"} : Close(t, reason)
    <3>1. PICK t \in trades, reason \in {"sl", "tp1"} : Close(t, reason)
      BY <2>1
    <3>2. streak' \in Nat /\ stops' \subseteq Symbols /\ trades' \subseteq trades
      BY <3>1 DEF Close, StateInv
    <3> QED BY <3>1, <3>2 DEF Close, StateInv
  <2>2. CASE CooldownEnds \/ UTCMidnight
    BY <2>2 DEF CooldownEnds, UTCMidnight, StateInv, Timers
  <2>6. CASE LocalMidnight
    <3>1. usage' \in [today : Nat, old : BOOLEAN, row : Nat] /\ made' = 0 /\ faulty' = FALSE
      BY <2>6 DEF LocalMidnight, StateInv
    <3> QED BY <2>6, <3>1 DEF LocalMidnight, StateInv
  <2>3. CASE \E s \in Symbols : BlackoutEnds(s) \/ StopAges(s)
    BY <2>3 DEF BlackoutEnds, StopAges, StateInv, Timers
  <2>4. CASE Crash
    <3>1. usage' \in [today : Nat, old : BOOLEAN, row : Nat]
      BY <2>4 DEF Crash, StateInv
    <3>2. blackout' \in [Symbols -> Timers] /\ cooldown' \in Timers
      BY <2>4 DEF Crash, Timers
    <3>3. stale' \in 0 .. Critical
      BY <2>4, CycleAssumption DEF Crash
    <3> DEFINE lost == \E n \in DOMAIN cyc.tasks :
                         cyc.tasks[n].veto \in {"sent", "answered", "cancelled"}
    <3>4. faulty' = (faulty \/ lost)
      BY <2>4 DEF Crash
    <3> HIDE DEF lost
    <3>5. faulty' \in BOOLEAN
      BY <3>4
    <3> QED BY <2>4, <3>1, <3>2, <3>3, <3>5 DEF Crash, StateInv
  <2> QED BY <1>9, <2>1, <2>2, <2>3, <2>4, <2>6 DEF Environment
<1>10. CASE UNCHANGED vars
  BY <1>10 DEF vars, StateInv
<1> QED BY <1>1, <1>2, <1>3, <1>4, <1>5, <1>6, <1>7, <1>8, <1>9, <1>10 DEF Next, Cycle

\* The steps around the cycle leave its record alone, but for the crash.
LEMMA Around ==
  ASSUME Environment \/ UNCHANGED vars
  PROVE  cyc' = cyc \/ (Crash /\ cyc' = Idle)
BY DEF Environment, Close, BlackoutEnds, StopAges, CooldownEnds, LocalMidnight,
       UTCMidnight, Crash, vars

LEMMA CycleKept ==
  ASSUME CycleInv, HeardInv, Distinct, StateInv, [Next]_vars
  PROVE  CycleInv'
<1>1. CASE EndEarly \/ Finish
  BY <1>1, EndStep DEF EndEarly, Finish
<1>2. CASE Veto
  BY <1>2, VetoStep DEF Veto, StateInv
<1>3. CASE CapCandidates \/ Judge
  BY <1>3, CapStep, JudgeStep DEF StateInv
<1>4. CASE Environment \/ UNCHANGED vars
  BY <1>4, Around, EndStep, SameStep
<1> QED BY <1>1, <1>2, <1>3, <1>4, BeginStep, ScreenStep, UpdateStep, SnapshotStep, GateStep,
           RankStep, PlaceStep DEF Next, Cycle

-----------------------------------------------------------------------------
(* What each candidate at hand has met. *)

LEMMA HeardKept ==
  ASSUME CycleInv, HeardInv, Distinct, StateInv, [Next]_vars
  PROVE  HeardInv'
<1>1. CASE cyc'.tasks = <<>> /\ cyc'.approved = <<>>
  BY <1>1 DEF HeardInv
<1>2. CASE cyc' = cyc
  BY <1>2 DEF HeardInv, Heard
<1> DEFINE Same == cyc'.ranging = cyc.ranging /\ cyc'.btcStale = cyc.btcStale
<1>3. ASSUME Same PROVE \A t : Heard(t)' <=> Heard(t)
  BY <1>3 DEF Heard
<1>4. CASE Gate
  <2>1. Same /\ cyc'.approved = cyc.approved
    BY <1>4, GateStep
  <2>2. \A n \in DOMAIN cyc'.tasks : Heard(cyc'.tasks[n])
    <3>1. CASE cyc'.tasks = cyc.tasks
      BY <3>1 DEF HeardInv
    <3>2. ASSUME NEW t \in Tasks, cyc'.tasks = Append(cyc.tasks, t), Heard(t)
          PROVE  \A n \in DOMAIN cyc'.tasks : Heard(cyc'.tasks[n])
      BY <3>2 DEF HeardInv, CycleInv
    <3> QED BY <1>4, <3>1, <3>2, GateStep
  <2> QED BY <1>3, <2>1, <2>2 DEF HeardInv
<1>5. CASE Veto
  <2>1. PICK n \in DOMAIN cyc.tasks : SendVeto(n) \/ ReceiveVeto(n)
    BY <1>5 DEF Veto
  <2>2. Same /\ cyc'.approved = cyc.approved
    BY <2>1, VetoStep DEF StateInv
  <2>3. PICK t \in Tasks :
          /\ cyc'.tasks = [cyc.tasks EXCEPT ![n] = t] /\ t.route = cyc.tasks[n].route
          /\ cyc.tasks[n].veto \in {"due", "sent"} /\ t.veto \in {"sent", "answered", "cancelled"}
          /\ \/ t.veto = "sent"
             \/ t.decision.status = "answered"
             \/ t.decision.decision = "BLOCK"
    <3>1. PICK t \in Tasks : VetoTurns(n, t)
      BY <2>1, VetoStep DEF StateInv
    <3> QED BY <3>1 DEF VetoTurns
  <2>4. Heard(t)
    BY <2>3 DEF Heard, HeardInv
  <2>5. \A i \in DOMAIN cyc'.tasks : i \in DOMAIN cyc.tasks /\ cyc'.tasks[i] \in {t, cyc.tasks[i]}
    BY <2>3
  <2> QED BY <1>3, <2>2, <2>4, <2>5 DEF HeardInv
<1>6. CASE Judge
  <2> DEFINE task == Head(cyc.tasks)
  <2>1. /\ Same /\ cyc'.tasks = Tail(cyc.tasks) /\ cyc.tasks # <<>>
        /\ Heard(task) /\ task.veto \in {"none", "answered", "cancelled"} /\ task \in Tasks
        /\ \/ cyc'.approved = cyc.approved
           \/ cyc'.approved = Append(cyc.approved, task) /\ task.decision.decision # "BLOCK"
    BY <1>6, JudgeStep DEF StateInv
  <2> HIDE DEF task
  <2>2. \A n \in DOMAIN cyc'.tasks : Heard(cyc'.tasks[n])
    BY <2>1 DEF HeardInv, CycleInv
  <2>3. \A n \in DOMAIN cyc'.approved :
          \/ cyc'.approved[n] = task /\ task.decision.decision # "BLOCK"
          \/ n \in DOMAIN cyc.approved /\ cyc'.approved[n] = cyc.approved[n]
    <3>1. cyc.approved \in Seq(Tasks)
      BY DEF CycleInv
    <3>2. CASE cyc'.approved = cyc.approved
      BY <3>2
    <3>3. CASE cyc'.approved = Append(cyc.approved, task) /\ task.decision.decision # "BLOCK"
      BY <3>1, <3>3
    <3> QED BY <2>1, <3>2, <3>3
  <2> QED BY <1>3, <2>1, <2>2, <2>3 DEF HeardInv
<1>7. CASE Rank
  <2>1. Same /\ cyc'.tasks = <<>>
    BY <1>7, RankStep
  <2>2. \A i \in DOMAIN cyc'.approved : \E j \in DOMAIN cyc.approved :
          cyc'.approved[i] = cyc.approved[j]
    BY <1>7, RankStep
  <2> QED BY <1>3, <2>1, <2>2 DEF HeardInv
<1>8. CASE Place
  <2>1. Same /\ cyc'.tasks = <<>> /\ cyc.approved # <<>> /\ cyc'.approved = Tail(cyc.approved)
    BY <1>8, PlaceStep
  <2>2. \A i \in DOMAIN cyc'.approved : \E j \in DOMAIN cyc.approved :
          cyc'.approved[i] = cyc.approved[j]
    <3>1. \A i \in DOMAIN Tail(cyc.approved) : /\ i + 1 \in DOMAIN cyc.approved
                                               /\ Tail(cyc.approved)[i] = cyc.approved[i + 1]
      BY <2>1 DEF CycleInv
    <3> QED BY <2>1, <3>1
  <2> QED BY <1>3, <2>1, <2>2 DEF HeardInv
<1>9. CASE EndEarly \/ Finish
  BY <1>1, <1>9, EndStep DEF EndEarly, Finish
<1>10. CASE CapCandidates
  BY <1>1, <1>10, CapStep DEF StateInv
<1>11. CASE Environment \/ UNCHANGED vars
  BY <1>1, <1>2, <1>11, Around, EndStep
<1>12. CASE Begin \/ Screen \/ updatePostTradeState \/ Snapshot
  BY <1>1, <1>12, BeginStep, ScreenStep, UpdateStep, SnapshotStep
<1> QED BY <1>4, <1>5, <1>6, <1>7, <1>8, <1>9, <1>10, <1>11, <1>12 DEF Next, Cycle

-----------------------------------------------------------------------------
(* The symbols. *)

\* What a veto and the ranking leave of the sequences of tasks.
LEMMA VetoTasksIs ==
  ASSUME CycleInv, HeardInv, StateInv, Veto
  PROVE  /\ cyc'.todo = cyc.todo /\ cyc'.approved = cyc.approved
         /\ cyc'.snap = cyc.snap /\ cyc.pc = "gate" /\ cyc'.pc = "gate"
         /\ DOMAIN cyc'.tasks = DOMAIN cyc.tasks
         /\ \A i \in DOMAIN cyc.tasks : cyc'.tasks[i].c = cyc.tasks[i].c
<1>1. PICK n \in DOMAIN cyc.tasks : SendVeto(n) \/ ReceiveVeto(n)
  BY DEF Veto
<1>t. PICK t \in Tasks : VetoTurns(n, t)
  BY <1>1, VetoStep DEF StateInv
<1>2. cyc'.tasks = [cyc.tasks EXCEPT ![n] = t] /\ t.c = cyc.tasks[n].c
  BY <1>t DEF VetoTurns
<1>3. /\ cyc'.todo = cyc.todo /\ cyc'.approved = cyc.approved
      /\ cyc'.snap = cyc.snap /\ cyc.pc = "gate" /\ cyc'.pc = "gate"
  BY <1>1, VetoStep DEF StateInv
<1> QED BY <1>2, <1>3

LEMMA TailIs ==
  ASSUME NEW T, NEW seq \in Seq(T), seq # <<>>
  PROVE  /\ 1 \in DOMAIN seq /\ Head(seq) = seq[1] /\ Head(seq) \in T
         /\ \A i \in DOMAIN Tail(seq) : /\ i + 1 \in DOMAIN seq /\ i + 1 # 1
                                        /\ Tail(seq)[i] = seq[i + 1]
         /\ \A i, j \in DOMAIN Tail(seq) : i + 1 = j + 1 => i = j
OBVIOUS

LEMMA AppendIs ==
  ASSUME NEW T, NEW seq \in Seq(T), NEW x
  PROVE  /\ DOMAIN Append(seq, x) = DOMAIN seq \cup {Len(seq) + 1}
         /\ Len(seq) + 1 \notin DOMAIN seq
         /\ Append(seq, x)[Len(seq) + 1] = x
         /\ \A i \in DOMAIN seq : Append(seq, x)[i] = seq[i]
OBVIOUS

LEMMA DistinctKept ==
  ASSUME CycleInv, HeardInv, Distinct, StateInv, [Next]_vars
  PROVE  Distinct'
<1>1. CASE cyc'.tasks = <<>> /\ cyc'.approved = <<>> /\ cyc'.todo \in {<<>>, cyc.todo}
  BY <1>1 DEF Distinct
<1>2. CASE cyc' = cyc
  BY <1>2 DEF Distinct
<1>3. CASE Screen
  <2>1. PICK offered \in SUBSET Offers : cyc'.todo = SetToSeq(offered)
    BY <1>3, ScreenStep
  <2>2. \A i, j \in DOMAIN cyc'.todo : cyc'.todo[i].symbol = cyc'.todo[j].symbol => i = j
    BY <2>1, ListIs
  <2>3. cyc'.tasks = <<>> /\ cyc'.approved = <<>>
    BY <1>3, ScreenStep
  <2> QED BY <2>2, <2>3 DEF Distinct
<1>4. CASE CapCandidates
  <2>1. /\ \A i, j \in DOMAIN cyc'.todo : cyc'.todo[i].symbol = cyc'.todo[j].symbol => i = j
        /\ cyc'.tasks = <<>> /\ cyc'.approved = <<>>
    BY <1>4, CapStep DEF StateInv
  <2> QED BY <2>1 DEF Distinct
<1>5. CASE Gate
  <2>1. /\ cyc.todo \in Seq(Offers) /\ cyc.todo # <<>> /\ cyc'.todo = Tail(cyc.todo)
        /\ cyc.tasks \in Seq(Tasks) /\ cyc'.approved = cyc.approved
    BY <1>5, GateStep DEF CycleInv
  <2>2. /\ 1 \in DOMAIN cyc.todo /\ Head(cyc.todo) = cyc.todo[1]
        /\ \A i \in DOMAIN cyc'.todo : /\ i + 1 \in DOMAIN cyc.todo /\ i + 1 # 1
                                       /\ cyc'.todo[i] = cyc.todo[i + 1]
        /\ \A i, j \in DOMAIN cyc'.todo : i + 1 = j + 1 => i = j
    BY <2>1, TailIs
  <2>3. CASE cyc'.tasks = cyc.tasks
    BY <2>1, <2>2, <2>3 DEF Distinct
  <2>4. ASSUME NEW t, cyc'.tasks = Append(cyc.tasks, t), t.c = Head(cyc.todo)
        PROVE  Distinct'
    <3> DEFINE n == Len(cyc.tasks) + 1
    <3>1. /\ DOMAIN cyc'.tasks = DOMAIN cyc.tasks \cup {n} /\ n \notin DOMAIN cyc.tasks
          /\ cyc'.tasks[n].c = cyc.todo[1]
          /\ \A i \in DOMAIN cyc.tasks : cyc'.tasks[i] = cyc.tasks[i]
      BY <2>1, <2>2, <2>4, AppendIs
    <3> HIDE DEF n
    <3>2. /\ \A i, j \in DOMAIN cyc'.todo : cyc'.todo[i].symbol = cyc'.todo[j].symbol => i = j
          /\ \A i \in DOMAIN cyc'.todo, j \in DOMAIN cyc'.approved :
               cyc'.todo[i].symbol # cyc'.approved[j].c.symbol
      BY <2>1, <2>2 DEF Distinct
    <3>3. \A i \in DOMAIN cyc'.todo, j \in DOMAIN cyc'.tasks :
            cyc'.todo[i].symbol # cyc'.tasks[j].c.symbol
      BY <2>2, <3>1 DEF Distinct
    <3>4. \A i, j \in DOMAIN cyc'.tasks :
            cyc'.tasks[i].c.symbol = cyc'.tasks[j].c.symbol => i = j
      BY <2>2, <3>1 DEF Distinct
    <3>5. \A i \in DOMAIN cyc'.tasks, j \in DOMAIN cyc'.approved :
            cyc'.tasks[i].c.symbol # cyc'.approved[j].c.symbol
      BY <2>1, <2>2, <3>1 DEF Distinct
    <3> QED BY <2>1, <3>2, <3>3, <3>4, <3>5 DEF Distinct
  <2> QED BY <1>5, <2>3, <2>4, GateStep
<1>6. CASE Veto
  BY <1>6, VetoTasksIs DEF Distinct
<1>7. CASE Judge
  <2>1. /\ cyc.tasks \in Seq(Tasks) /\ cyc.tasks # <<>> /\ cyc'.tasks = Tail(cyc.tasks)
        /\ cyc.approved \in Seq(Tasks) /\ cyc'.todo = <<>>
        /\ cyc'.approved = cyc.approved \/ cyc'.approved = Append(cyc.approved, Head(cyc.tasks))
    BY <1>7, JudgeStep DEF CycleInv, StateInv
  <2>2. /\ 1 \in DOMAIN cyc.tasks /\ Head(cyc.tasks) = cyc.tasks[1]
        /\ \A i \in DOMAIN cyc'.tasks : /\ i + 1 \in DOMAIN cyc.tasks /\ i + 1 # 1
                                        /\ cyc'.tasks[i] = cyc.tasks[i + 1]
        /\ \A i, j \in DOMAIN cyc'.tasks : i + 1 = j + 1 => i = j
    BY <2>1, TailIs
  <2>3. CASE cyc'.approved = cyc.approved
    BY <2>1, <2>2, <2>3 DEF Distinct
  <2>4. CASE cyc'.approved = Append(cyc.approved, Head(cyc.tasks))
    <3> DEFINE n == Len(cyc.approved) + 1
    <3>1. /\ DOMAIN cyc'.approved = DOMAIN cyc.approved \cup {n} /\ n \notin DOMAIN cyc.approved
          /\ cyc'.approved[n] = cyc.tasks[1]
          /\ \A i \in DOMAIN cyc.approved : cyc'.approved[i] = cyc.approved[i]
      BY <2>1, <2>2, <2>4, AppendIs
    <3> HIDE DEF n
    <3>2. \A i, j \in DOMAIN cyc'.tasks :
            cyc'.tasks[i].c.symbol = cyc'.tasks[j].c.symbol => i = j
      BY <2>2 DEF Distinct
    <3>3. \A i, j \in DOMAIN cyc'.approved :
            cyc'.approved[i].c.symbol = cyc'.approved[j].c.symbol => i = j
      BY <2>2, <3>1 DEF Distinct
    <3>4. \A i \in DOMAIN cyc'.tasks, j \in DOMAIN cyc'.approved :
            cyc'.tasks[i].c.symbol # cyc'.approved[j].c.symbol
      BY <2>2, <3>1 DEF Distinct
    <3> QED BY <2>1, <3>2, <3>3, <3>4 DEF Distinct
  <2> QED BY <2>1, <2>3, <2>4
<1>8. CASE Rank
  <2>1. PICK p \in [DOMAIN cyc.approved -> DOMAIN cyc.approved] :
          /\ \A i, j \in DOMAIN cyc.approved : p[i] = p[j] => i = j
          /\ \A i \in DOMAIN cyc'.approved : /\ i \in DOMAIN cyc.approved
                                             /\ cyc'.approved[i] = cyc.approved[p[i]]
    BY <1>8, RankStep
  <2>2. cyc'.todo = <<>> /\ cyc'.tasks = <<>>
    BY <1>8, RankStep
  <2> QED BY <2>1, <2>2 DEF Distinct
<1>9. CASE Place
  <2>1. /\ cyc'.todo = <<>> /\ cyc'.tasks = <<>> /\ cyc.approved \in Seq(Tasks)
        /\ cyc.approved # <<>> /\ cyc'.approved = Tail(cyc.approved)
    BY <1>9, PlaceStep DEF CycleInv
  <2>2. /\ \A i \in DOMAIN cyc'.approved : /\ i + 1 \in DOMAIN cyc.approved
                                           /\ cyc'.approved[i] = cyc.approved[i + 1]
        /\ \A i, j \in DOMAIN cyc'.approved : i + 1 = j + 1 => i = j
    BY <2>1, TailIs
  <2> QED BY <2>1, <2>2 DEF Distinct
<1>10. CASE EndEarly \/ Finish
  BY <1>1, <1>10, EndStep DEF EndEarly, Finish
<1>11. CASE Environment \/ UNCHANGED vars
  BY <1>1, <1>2, <1>11, Around, EndStep
<1>12. CASE Begin \/ updatePostTradeState
  BY <1>1, <1>12, BeginStep, UpdateStep
<1>13. CASE Snapshot
  <2>1. /\ cyc'.tasks = <<>> /\ cyc'.approved = <<>>
        /\ cyc'.todo = cyc.todo \/ cyc' = Idle
    BY <1>13, SnapshotStep
  <2> QED BY <1>1, <2>1, EndStep
<1> QED BY <1>3, <1>4, <1>5, <1>6, <1>7, <1>8, <1>9, <1>10, <1>11, <1>12, <1>13 DEF Next, Cycle

-----------------------------------------------------------------------------
(* The books. *)

\* The snapshot has every trade.
LEMMA OpenIs == \A t \in trades : \E p \in OpenPositions : p.symbol = t.symbol
<1> DEFINE Rec(t) == [symbol |-> t.symbol, side |-> t.side, size |-> 1, notional |-> t.notional]
<1>1. \A t \in trades : Rec(t) \in OpenPositions /\ Rec(t).symbol = t.symbol
  BY DEF OpenPositions
<1> HIDE DEF Rec
<1> QED BY <1>1

LEMMA BooksKept ==
  ASSUME CycleInv, HeardInv, Distinct, StateInv, BooksInv, [Next]_vars
  PROVE  BooksInv'
<1> USE DEF simulator
<1> DEFINE Same == trades' = trades
           NoneLeft == cyc'.tasks = <<>> /\ cyc'.approved = <<>>
\* The symbols, whatever the step leaves of the trades.
<1>1. ASSUME NoneLeft, Same, cyc'.pc \notin {"gate", "place"} PROVE BooksInv'
  BY <1>1 DEF BooksInv, OneTradePerSymbol
<1>2. ASSUME cyc' = cyc, trades' \subseteq trades PROVE BooksInv'
  BY <1>2 DEF BooksInv, OneTradePerSymbol
<1>3. CASE EndEarly \/ Finish
  <2>1. Same /\ cyc' = Idle
    BY <1>3 DEF EndEarly, Finish
  <2> QED BY <1>1, <2>1, EndStep
<1>4. CASE Begin \/ Screen \/ updatePostTradeState
  <2>1. Same
    BY <1>4 DEF Begin, Screen, updatePostTradeState
  <2> QED BY <1>1, <1>4, <2>1, BeginStep, ScreenStep, UpdateStep
<1>5. CASE CapCandidates
  <2>1. Same
    BY <1>5 DEF CapCandidates
  <2> QED BY <1>1, <1>5, <2>1, CapStep DEF StateInv
<1>6. CASE Snapshot
  <2>1. Same /\ NoneLeft
    BY <1>6, SnapshotStep DEF Snapshot
  <2>2. CASE cyc' = Idle
    BY <1>1, <2>1, <2>2, EndStep
  <2>3. CASE cyc'.pc = "gate" /\ cyc'.snap = OpenPositions
    BY <2>1, <2>3, OpenIs DEF BooksInv, OneTradePerSymbol
  <2> QED BY <1>6, <2>2, <2>3, SnapshotStep
<1>7. CASE Gate
  <2>1. /\ Same /\ cyc'.snap = cyc.snap /\ cyc'.approved = cyc.approved
        /\ cyc.pc = "gate" /\ cyc'.pc = "gate"
    BY <1>7, GateStep DEF Gate
  <2>2. \A n \in DOMAIN cyc'.tasks, p \in cyc.snap : p.symbol # cyc'.tasks[n].c.symbol
    <3>1. CASE cyc'.tasks = cyc.tasks
      BY <3>1 DEF BooksInv
    <3>2. ASSUME NEW t, cyc'.tasks = Append(cyc.tasks, t),
                 \A p \in cyc.snap : p.symbol # t.c.symbol
          PROVE  \A n \in DOMAIN cyc'.tasks, p \in cyc.snap : p.symbol # cyc'.tasks[n].c.symbol
      <4>1. \A n \in DOMAIN cyc'.tasks :
              cyc'.tasks[n] = t \/ (n \in DOMAIN cyc.tasks /\ cyc'.tasks[n] = cyc.tasks[n])
        BY <3>2, AppendIs DEF CycleInv
      <4> QED BY <3>2, <4>1 DEF BooksInv
    <3> QED BY <1>7, <3>1, <3>2, GateStep
  <2> QED BY <2>1, <2>2 DEF BooksInv, OneTradePerSymbol
<1>8. CASE Veto
  <2>1. Same
    BY <1>8 DEF Veto, SendVeto, ReceiveVeto
  <2> QED BY <1>8, <2>1, VetoTasksIs DEF BooksInv, OneTradePerSymbol
<1>9. CASE Judge
  <2>1. /\ Same /\ cyc'.snap = cyc.snap /\ cyc.pc = "gate" /\ cyc'.pc = "gate"
        /\ cyc.tasks # <<>> /\ cyc'.tasks = Tail(cyc.tasks)
        /\ cyc'.approved = cyc.approved \/ cyc'.approved = Append(cyc.approved, Head(cyc.tasks))
    BY <1>9, JudgeStep DEF Judge, StateInv
  <2>3. /\ 1 \in DOMAIN cyc.tasks /\ Head(cyc.tasks) = cyc.tasks[1]
        /\ \A i \in DOMAIN cyc'.tasks : i + 1 \in DOMAIN cyc.tasks /\ cyc'.tasks[i] = cyc.tasks[i + 1]
    BY <2>1, TailIs DEF CycleInv
  <2>4. \A n \in DOMAIN cyc'.approved :
          cyc'.approved[n] = cyc.tasks[1]
            \/ (n \in DOMAIN cyc.approved /\ cyc'.approved[n] = cyc.approved[n])
    <3>1. CASE cyc'.approved = cyc.approved
      BY <3>1
    <3>2. CASE cyc'.approved = Append(cyc.approved, Head(cyc.tasks))
      BY <2>3, <3>2, AppendIs DEF CycleInv
    <3> QED BY <2>1, <3>1, <3>2
  <2>5. /\ \A p \in cyc.snap : p.symbol # cyc.tasks[1].c.symbol
        /\ \A t \in trades : t.symbol # cyc.tasks[1].c.symbol
    BY <2>1, <2>3 DEF BooksInv
  <2>6. /\ \A n \in DOMAIN cyc'.tasks, p \in cyc.snap : p.symbol # cyc'.tasks[n].c.symbol
        /\ \A n \in DOMAIN cyc'.approved :
             /\ \A p \in cyc.snap : p.symbol # cyc'.approved[n].c.symbol
             /\ \A t \in trades : t.symbol # cyc'.approved[n].c.symbol
    BY <2>3, <2>4, <2>5 DEF BooksInv
  <2> QED BY <2>1, <2>6 DEF BooksInv, OneTradePerSymbol
<1>10. CASE Rank
  <2>1. /\ Same /\ cyc'.snap = cyc.snap /\ cyc'.pc = "place" /\ cyc'.tasks = <<>>
    BY <1>10, RankStep DEF Rank
  <2>2. \A i \in DOMAIN cyc'.approved : \E j \in DOMAIN cyc.approved :
          cyc'.approved[i] = cyc.approved[j]
    BY <1>10, RankStep
  <2>3. \A n \in DOMAIN cyc'.approved :
          /\ \A p \in cyc.snap : p.symbol # cyc'.approved[n].c.symbol
          /\ \A t \in trades : t.symbol # cyc'.approved[n].c.symbol
    BY <2>2 DEF BooksInv
  <2> QED BY <2>1, <2>3 DEF BooksInv, OneTradePerSymbol
<1>11. CASE Place
  <2> DEFINE task == Head(cyc.approved)
  <2>1. /\ cyc'.snap = cyc.snap /\ cyc.pc = "place" /\ cyc'.pc = "place"
        /\ cyc'.tasks = <<>> /\ cyc.approved # <<>> /\ cyc'.approved = Tail(cyc.approved)
        /\ cyc.approved \in Seq(Tasks)
    BY <1>11, PlaceStep DEF CycleInv
  <2>2. /\ 1 \in DOMAIN cyc.approved /\ task = cyc.approved[1]
        /\ \A i \in DOMAIN cyc'.approved : /\ i + 1 \in DOMAIN cyc.approved /\ i + 1 # 1
                                           /\ cyc'.approved[i] = cyc.approved[i + 1]
    BY <2>1, TailIs
  <2>3. \A n \in DOMAIN cyc'.approved :
          /\ \A p \in cyc.snap : p.symbol # cyc'.approved[n].c.symbol
          /\ \A t \in trades : t.symbol # cyc'.approved[n].c.symbol
          /\ task.c.symbol # cyc'.approved[n].c.symbol
    BY <2>2 DEF BooksInv, Distinct
  <2>4. CASE trades' = trades
    BY <2>1, <2>3, <2>4 DEF BooksInv, OneTradePerSymbol
  <2>5. ASSUME NEW t, trades' = trades \cup {t}, t.symbol = task.c.symbol
        PROVE  BooksInv'
    <3>1. \A u \in trades : u.symbol # t.symbol
      BY <2>1, <2>2, <2>5 DEF BooksInv
    <3>2. OneTradePerSymbol'
      BY <2>5, <3>1 DEF BooksInv, OneTradePerSymbol
    <3>3. \A n \in DOMAIN cyc'.approved, u \in trades' : u.symbol # cyc'.approved[n].c.symbol
      BY <2>3, <2>5
    <3> QED BY <2>1, <2>3, <3>2, <3>3 DEF BooksInv
  <2> QED BY <1>11, <2>4, <2>5, PlaceStep
<1>12. CASE Environment
  <2>1. CASE ~Crash
    <3>1. cyc' = cyc
      BY <1>12, <2>1, Around
    <3>2. trades' \subseteq trades
      BY <1>12, <2>1 DEF Environment, Close, BlackoutEnds, StopAges, CooldownEnds,
        LocalMidnight, UTCMidnight
    <3> QED BY <1>2, <3>1, <3>2
  <2>2. CASE Crash
    <3>1. Same /\ cyc' = Idle
      BY <2>2 DEF Crash
    <3> QED BY <1>1, <3>1, EndStep
  <2> QED BY <2>1, <2>2
<1>13. CASE UNCHANGED vars
  BY <1>2, <1>13 DEF vars
<1> QED BY <1>3, <1>4, <1>5, <1>6, <1>7, <1>8, <1>9, <1>10, <1>11, <1>12, <1>13 DEF Next, Cycle

-----------------------------------------------------------------------------
(* The blackouts: only time ends them, and a restart. *)

LEMMA RestKept ==
  ASSUME StateInv, RestInv, [Next]_vars
  PROVE  RestInv'
<1> USE DEF memory, history
<1>1. ASSUME resting' = resting, blackout' = blackout PROVE RestInv'
  BY <1>1 DEF RestInv
<1>2. CASE updatePostTradeState
  <2>1. CASE blackout' = blackout /\ resting' = resting
    BY <1>1, <2>1
  <2>2. ASSUME blackout' = [s \in Symbols |-> BlackoutAfter(s)],
               resting' = IF Cfg.sl_cooldown THEN resting \cup stops ELSE resting
        PROVE  RestInv'
    <3> SUFFICES ASSUME NEW s \in resting' PROVE Cfg.sl_cooldown /\ blackout'[s] = "running"
      BY DEF RestInv
    <3>1. s \in Symbols
      BY <2>2 DEF StateInv
    <3>2. /\ Cfg.sl_cooldown
          /\ blackout[s] = "running" \/ (s \in stops /\ Cfg.sl_cooldown)
      BY <2>2 DEF RestInv
    <3> DEFINE found == s \in stops /\ Cfg.sl_cooldown
    <3>3. BlackoutAfter(s) = "running"
      <4>1. found \/ blackout[s] = "running"
        BY <3>2
      <4>2. BlackoutAfter(s) = IF found THEN "running"
                               ELSE IF blackout[s] = "over" THEN "none" ELSE blackout[s]
        BY Zenon DEF BlackoutAfter
      <4> HIDE DEF found
      <4> QED BY <4>1, <4>2
    <3> QED BY <2>2, <3>1, <3>2, <3>3
  <2> QED BY <1>2, <2>1, <2>2 DEF updatePostTradeState
<1>3. ASSUME NEW s \in Symbols, BlackoutEnds(s) PROVE RestInv'
  <2> SUFFICES ASSUME NEW r \in resting' PROVE Cfg.sl_cooldown /\ blackout'[r] = "running"
    BY DEF RestInv
  <2>1. r \in resting /\ r # s
    BY <1>3 DEF BlackoutEnds
  <2>2. blackout' = [blackout EXCEPT ![s] = "over"]
    BY <1>3 DEF BlackoutEnds
  <2>3. blackout \in [Symbols -> Timers]
    BY DEF StateInv
  <2> QED BY <2>1, <2>2, <2>3 DEF RestInv, StateInv
<1>4. CASE Crash
  BY <1>4 DEF Crash, RestInv
<1>5. CASE Begin \/ (Cycle /\ ~updatePostTradeState)
  BY <1>1, <1>5 DEF Begin, Cycle, EndEarly, Screen, CapCandidates, Snapshot, Gate, Veto,
    SendVeto, ReceiveVeto, Judge, Rank, Place, Finish
<1>6. CASE \/ \E t \in trades, reason \in {"sl", "tp1"} : Close(t, reason)
           \/ \E s \in Symbols : StopAges(s)
           \/ CooldownEnds \/ LocalMidnight \/ UTCMidnight \/ UNCHANGED vars
  BY <1>1, <1>6 DEF Close, StopAges, CooldownEnds, LocalMidnight, UTCMidnight, vars
<1> QED BY <1>2, <1>3, <1>4, <1>5, <1>6 DEF Next, Environment

-----------------------------------------------------------------------------
(* The day's calls. *)

LEMMA CountsAre ==
  ASSUME CycleInv
  PROVE  /\ \A set : Count(cyc.tasks, set) \in Nat
         /\ Len(cyc.todo) \in Nat
         /\ cyc.tasks \in Seq(Tasks)
<1>1. cyc.tasks \in Seq(Tasks) /\ cyc.todo \in Seq(Offers)
  BY DEF CycleInv
<1>2. ASSUME NEW set PROVE Count(cyc.tasks, set) \in Nat
  <2>1. Count(cyc.tasks, set) \in 0 .. Len(cyc.tasks)
    BY <1>1, CountType
  <2> QED BY <2>1
<1>3. Len(cyc.todo) \in Nat
  BY <1>1
<1> QED BY <1>1, <1>2, <1>3

LEMMA DayKept ==
  ASSUME CycleInv, HeardInv, Distinct, StateInv, DayInv, [Next]_vars
  PROVE  DayInv'
<1> USE DEF llm, history
<1> DEFINE d == Count(cyc.tasks, Due)
           u == Count(cyc.tasks, Uncounted)
<1>0. /\ usage.row \in Nat /\ made \in Nat /\ MaxCallsPerDay \in Nat /\ faulty \in BOOLEAN
      /\ d \in Nat /\ u \in Nat /\ Len(cyc.todo) \in Nat /\ cyc.tasks \in Seq(Tasks)
  BY CycleAssumption, CountsAre DEF StateInv
<1>1. ASSUME cyc.tasks = <<>>, cyc'.tasks = <<>>, usage'.row = usage.row, made' = made,
             faulty' = faulty,
             cyc'.pc \in {"snapshot", "gate"} =>
               (cyc.pc \in {"snapshot", "gate"} /\ cyc'.todo = cyc.todo)
      PROVE  DayInv'
  BY <1>0, <1>1 DEF DayInv
<1>2. ASSUME cyc' = cyc, usage'.row = usage.row, made' = made, faulty' = faulty PROVE DayInv'
  BY <1>2 DEF DayInv
<1>3. CASE EndEarly \/ Finish
  BY <1>1, <1>3, EndStep DEF EndEarly, Finish, CycleInv
<1>4. CASE Begin
  <2>1. usage' = usage /\ made' = made /\ faulty' = faulty
    BY <1>4 DEF Begin
  <2>2. cyc.tasks = <<>> /\ cyc'.tasks = <<>> /\ cyc'.pc \notin {"snapshot", "gate"}
    BY <1>4, BeginStep DEF CycleInv
  <2> QED BY <1>1, <2>1, <2>2
<1>5. CASE Screen \/ updatePostTradeState
  <2>1. usage' = usage /\ made' = made /\ faulty' = faulty
    BY <1>5 DEF Screen, updatePostTradeState
  <2>2. cyc.tasks = <<>> /\ cyc'.tasks = <<>> /\ cyc'.pc \notin {"snapshot", "gate"}
    BY <1>5, ScreenStep, UpdateStep DEF CycleInv
  <2> QED BY <1>1, <2>1, <2>2
<1>6. CASE CapCandidates
  <2>1. /\ cyc.tasks = <<>> /\ cyc'.tasks = <<>> /\ cyc'.todo \in Seq(Offers)
        /\ usage'.today \in Nat /\ usage'.row = usage.row
        /\ faulty' = (faulty \/ usage'.today < usage.row)
        /\ MaxCallsPerDay > 0 =>
              cyc'.todo = <<>> \/ Len(cyc'.todo) + usage'.today <= MaxCallsPerDay
    BY <1>6, CapStep DEF StateInv, CycleInv
  <2>2. made' = made
    BY <1>6 DEF CapCandidates
  <2>3. Count(<<>>, Due) = 0 /\ Count(<<>>, Uncounted) = 0
    BY CountEmpty
  <2>4. /\ Len(cyc'.todo) \in Nat
        /\ cyc'.todo = <<>> => Len(cyc'.todo) = 0
    BY <2>1
  <2>5. Count(cyc'.tasks, Due') = 0 /\ Count(cyc'.tasks, Uncounted') = 0 /\ u = 0
    BY <2>1, <2>3
  <2>6. ~faulty' => (~faulty /\ made <= usage'.today /\ made <= usage.row)
    <3> SUFFICES ASSUME ~faulty' PROVE ~faulty /\ made <= usage'.today /\ made <= usage.row
      OBVIOUS
    <3>1. ~faulty /\ ~(usage'.today < usage.row)
      BY <2>1
    <3>2. made <= usage.row + u
      BY <3>1 DEF DayInv
    <3> HIDE DEF u
    <3> QED BY <1>0, <2>1, <2>5, <3>1, <3>2
  <2>7. MaxCallsPerDay > 0 /\ ~faulty' => made <= MaxCallsPerDay
    BY <2>6 DEF DayInv
  <2>8. MaxCallsPerDay > 0 =>
          /\ 0 + Len(cyc'.todo) <= MaxCallsPerDay
          /\ ~faulty' => made + (0 + Len(cyc'.todo)) <= MaxCallsPerDay
    BY <1>0, <2>1, <2>4, <2>6, <2>7
  <2> QED BY <1>0, <2>1, <2>2, <2>5, <2>6, <2>7, <2>8 DEF DayInv
<1>7. CASE Snapshot
  <2>1. usage' = usage /\ made' = made /\ faulty' = faulty
    BY <1>7 DEF Snapshot
  <2>2. cyc.tasks = <<>> /\ cyc'.tasks = <<>> /\ cyc.pc = "snapshot"
    BY <1>7, SnapshotStep DEF CycleInv
  <2>3. cyc'.pc = "gate" => cyc'.todo = cyc.todo
    BY <1>7, SnapshotStep, EndStep
  <2>4. cyc'.pc # "snapshot"
    BY <1>7, SnapshotStep, EndStep
  <2> QED BY <1>1, <2>1, <2>2, <2>3, <2>4
<1>8. CASE Gate
  <2>1. usage' = usage /\ made' = made /\ faulty' = faulty
    BY <1>8 DEF Gate
  <2>2. /\ cyc.pc = "gate" /\ cyc'.pc = "gate" /\ Len(cyc'.todo) = Len(cyc.todo) - 1
    <3>1. cyc.todo # <<>> /\ cyc'.todo = Tail(cyc.todo) /\ cyc.todo \in Seq(Offers)
      BY <1>8, GateStep DEF CycleInv
    <3>2. Len(cyc'.todo) = Len(cyc.todo) - 1
      BY <3>1
    <3> QED BY <1>8, <3>2, GateStep
  <2>3. /\ Count(cyc'.tasks, Due) \in {d, d + 1}
        /\ Count(cyc'.tasks, Uncounted) = u
    <3>1. CASE cyc'.tasks = cyc.tasks
      BY <3>1
    <3>2. ASSUME NEW t \in Tasks, cyc'.tasks = Append(cyc.tasks, t), t.veto \in {"none", "due"}
          PROVE  /\ Count(cyc'.tasks, Due) \in {d, d + 1}
                 /\ Count(cyc'.tasks, Uncounted) = u
      <4>1. /\ Count(cyc'.tasks, Due) = d + (IF t \in Due THEN 1 ELSE 0)
            /\ Count(cyc'.tasks, Uncounted) = u + (IF t \in Uncounted THEN 1 ELSE 0)
        BY <1>0, <3>2, CountAppend
      <4>2. t \notin Uncounted
        BY <3>2 DEF Uncounted
      <4> HIDE DEF d, u
      <4> QED BY <1>0, <4>1, <4>2
    <3> QED BY <1>8, <3>1, <3>2, GateStep
  <2>4. Due' = Due /\ Uncounted' = Uncounted
    BY DEF Due, Uncounted
  <2>5. /\ ~faulty => made <= usage.row + u
        /\ MaxCallsPerDay > 0 =>
             /\ ~faulty => made <= MaxCallsPerDay
             /\ d + Len(cyc.todo) <= MaxCallsPerDay
             /\ ~faulty => made + (d + Len(cyc.todo)) <= MaxCallsPerDay
    BY <2>2 DEF DayInv
  <2> DEFINE d1 == Count(cyc'.tasks, Due)
             l1 == Len(cyc'.todo)
  <2>6. d1 \in Nat /\ l1 = Len(cyc.todo) - 1 /\ d1 <= d + 1
    <3> HIDE DEF d, u
    <3> QED BY <1>0, <2>2, <2>3
  <2>7. MaxCallsPerDay > 0 =>
             /\ d1 + l1 <= MaxCallsPerDay
             /\ ~faulty => made + (d1 + l1) <= MaxCallsPerDay
    <3> HIDE DEF d, u, d1, l1
    <3> QED BY <1>0, <2>5, <2>6
  <2> QED BY <2>1, <2>2, <2>3, <2>4, <2>5, <2>7 DEF DayInv
<1>9. CASE Veto
  <2>1. PICK n \in DOMAIN cyc.tasks : SendVeto(n) \/ ReceiveVeto(n)
    BY <1>9 DEF Veto
  <2>2. /\ cyc.pc = "gate" /\ cyc'.pc = "gate" /\ cyc.todo = <<>> /\ cyc'.todo = <<>>
        /\ cyc.tasks[n] \in Tasks
    BY <2>1, VetoStep DEF StateInv
  <2>3. /\ usage' = usage /\ faulty' = faulty
        /\ SendVeto(n) => made' \in {made, made + 1}
        /\ ReceiveVeto(n) => made' = made
    BY <2>1 DEF SendVeto, ReceiveVeto
  <2>t. PICK t \in Tasks : VetoTurns(n, t)
    BY <2>1, VetoStep DEF StateInv
  <2>4. /\ cyc'.tasks = [cyc.tasks EXCEPT ![n] = t]
        /\ \/ SendVeto(n) /\ cyc.tasks[n].veto = "due" /\ t.veto = "sent"
           \/ ReceiveVeto(n) /\ cyc.tasks[n].veto = "sent" /\ t.veto \in {"answered", "cancelled"}
    BY <2>t DEF VetoTurns
  <2> DEFINE d1 == Count(cyc'.tasks, Due)
             u1 == Count(cyc'.tasks, Uncounted)
  <2>5. /\ d1 = d - (IF cyc.tasks[n] \in Due THEN 1 ELSE 0) + (IF t \in Due THEN 1 ELSE 0)
        /\ u1 = u - (IF cyc.tasks[n] \in Uncounted THEN 1 ELSE 0)
                  + (IF t \in Uncounted THEN 1 ELSE 0)
    BY <1>0, <2>4, CountUpdate
  <2>6. t \notin Due /\ t \in Uncounted
    BY <2>4 DEF Due, Uncounted
  <2>7. /\ (cyc.tasks[n].veto = "due" => cyc.tasks[n] \in Due /\ cyc.tasks[n] \notin Uncounted)
        /\ (cyc.tasks[n].veto = "sent" => cyc.tasks[n] \notin Due /\ cyc.tasks[n] \in Uncounted)
    BY <2>2 DEF Due, Uncounted
  <2>8. /\ d1 \in Nat /\ u1 \in Nat
    <3>1. cyc'.tasks \in Seq(Tasks)
      BY <2>1, VetoStep DEF StateInv, CycleInv
    <3>2. d1 \in 0 .. Len(cyc'.tasks) /\ u1 \in 0 .. Len(cyc'.tasks)
      BY <3>1, CountType
    <3> QED BY <3>1, <3>2
  <2>9. \/ made' \in {made, made + 1} /\ d1 = d - 1 /\ u1 = u + 1
        \/ made' = made /\ d1 = d /\ u1 = u
    <3> HIDE DEF d, u, d1, u1
    <3>1. CASE SendVeto(n) /\ cyc.tasks[n].veto = "due"
      BY <1>0, <2>3, <2>5, <2>6, <2>7, <3>1
    <3>2. CASE ReceiveVeto(n) /\ cyc.tasks[n].veto = "sent"
      BY <1>0, <2>3, <2>5, <2>6, <2>7, <3>2
    <3> QED BY <2>4, <3>1, <3>2
  <2>10. Due' = Due /\ Uncounted' = Uncounted
    BY DEF Due, Uncounted
  <2>11. Len(cyc.todo) = 0 /\ Len(cyc'.todo) = 0
    BY <2>2
  <2>12. /\ ~faulty => made <= usage.row + u
         /\ MaxCallsPerDay > 0 =>
              /\ ~faulty => made <= MaxCallsPerDay
              /\ d + 0 <= MaxCallsPerDay
              /\ ~faulty => made + (d + 0) <= MaxCallsPerDay
    BY <2>2, <2>11 DEF DayInv
  <2>13. /\ ~faulty => made' <= usage.row + u1
         /\ MaxCallsPerDay > 0 =>
              /\ ~faulty => made' <= MaxCallsPerDay
              /\ d1 + 0 <= MaxCallsPerDay
              /\ ~faulty => made' + (d1 + 0) <= MaxCallsPerDay
    <3> HIDE DEF d, u, d1, u1
    <3> QED BY <1>0, <2>8, <2>9, <2>12
  <2> QED BY <2>2, <2>3, <2>10, <2>11, <2>13 DEF DayInv
<1>10. CASE Judge
  <2> DEFINE h == Head(cyc.tasks)
             d1 == Count(cyc'.tasks, Due)
             u1 == Count(cyc'.tasks, Uncounted)
  <2>1. /\ cyc.pc = "gate" /\ cyc'.pc = "gate" /\ cyc.todo = <<>> /\ cyc'.todo = <<>>
        /\ cyc.tasks # <<>> /\ cyc'.tasks = Tail(cyc.tasks)
        /\ h \in Tasks /\ h.veto \in {"none", "answered", "cancelled"}
        /\ faulty => faulty'
        /\ ~faulty' => /\ h.veto # "cancelled"
                       /\ usage'.row = usage.row + (IF h.veto = "answered" THEN 1 ELSE 0)
    BY <1>10, JudgeStep DEF StateInv
  <2>2. made' = made
    BY <1>10 DEF Judge
  <2>3. /\ d1 = d - (IF h \in Due THEN 1 ELSE 0)
        /\ u1 = u - (IF h \in Uncounted THEN 1 ELSE 0)
    BY <1>0, <2>1, CountTail
  <2>4. h \notin Due /\ (h \in Uncounted <=> h.veto # "none")
    BY <2>1 DEF Due, Uncounted
  <2>5. d1 = d /\ u1 = u - (IF h.veto # "none" THEN 1 ELSE 0)
    <3> HIDE DEF d, u, d1, u1
    <3> QED BY <1>0, <2>3, <2>4
  <2>6. /\ ~faulty => made <= usage.row + u
        /\ MaxCallsPerDay > 0 =>
             /\ ~faulty => made <= MaxCallsPerDay
             /\ d + Len(cyc.todo) <= MaxCallsPerDay
             /\ ~faulty => made + (d + Len(cyc.todo)) <= MaxCallsPerDay
    BY <2>1 DEF DayInv
  <2>7. ~faulty' => made <= usage'.row + u1
    <3> HIDE DEF d, u, d1, u1
    <3> QED BY <1>0, <2>1, <2>5, <2>6
  <2>8. Due' = Due /\ Uncounted' = Uncounted
    BY DEF Due, Uncounted
  <2>9. MaxCallsPerDay > 0 =>
             /\ ~faulty' => made <= MaxCallsPerDay
             /\ d1 + Len(cyc.todo) <= MaxCallsPerDay
             /\ ~faulty' => made + (d1 + Len(cyc.todo)) <= MaxCallsPerDay
    <3> HIDE DEF d, u, d1, u1
    <3> QED BY <2>1, <2>5, <2>6
  <2> QED BY <2>1, <2>2, <2>7, <2>8, <2>9 DEF DayInv
<1>11. CASE Rank
  <2>1. usage' = usage /\ made' = made /\ faulty' = faulty
    BY <1>11 DEF Rank
  <2>2. cyc.tasks = <<>> /\ cyc'.tasks = <<>> /\ cyc'.pc \notin {"snapshot", "gate"}
    BY <1>11, RankStep
  <2> QED BY <1>1, <2>1, <2>2
<1>12. CASE Place
  <2>1. usage' = usage /\ made' = made /\ faulty' = faulty
    BY <1>12 DEF Place
  <2>2. cyc.tasks = <<>> /\ cyc'.tasks = <<>> /\ cyc'.pc \notin {"snapshot", "gate"}
    BY <1>12, PlaceStep DEF CycleInv
  <2> QED BY <1>1, <2>1, <2>2
<1>13. CASE Environment
  <2>1. CASE \/ \E t \in trades, reason \in {"sl", "tp1"} : Close(t, reason)
             \/ \E s \in Symbols : BlackoutEnds(s) \/ StopAges(s)
             \/ CooldownEnds \/ UTCMidnight
    BY <1>2, <2>1 DEF Close, BlackoutEnds, StopAges, CooldownEnds, UTCMidnight
  <2>2. CASE LocalMidnight
    <3>1. cyc' = cyc /\ usage'.row = 0 /\ made' = 0 /\ faulty' = FALSE
      BY <2>2 DEF LocalMidnight, StateInv
    <3>2. /\ Due' = Due /\ Uncounted' = Uncounted
          /\ 0 <= 0 + u /\ 0 <= MaxCallsPerDay
      BY <1>0 DEF Due, Uncounted
    <3>3. MaxCallsPerDay > 0 /\ cyc.pc \in {"snapshot", "gate"} =>
            /\ d + Len(cyc.todo) <= MaxCallsPerDay
            /\ 0 + (d + Len(cyc.todo)) <= MaxCallsPerDay
      BY <1>0 DEF DayInv
    <3> QED BY <3>1, <3>2, <3>3 DEF DayInv
  <2>3. CASE Crash
    <3>1. /\ cyc'.pc = "idle" /\ cyc'.tasks = <<>> /\ made' = made /\ usage'.row = usage.row
          /\ ~faulty' => /\ ~faulty
                         /\ \A n \in DOMAIN cyc.tasks :
                              cyc.tasks[n].veto \notin {"sent", "answered", "cancelled"}
      BY <2>3, EndStep DEF Crash
    <3>2. ~faulty' => u = 0
      <4> SUFFICES ASSUME ~faulty' PROVE u = 0
        OBVIOUS
      <4>1. \A n \in DOMAIN cyc.tasks : cyc.tasks[n] \notin Uncounted
        BY <3>1 DEF Uncounted
      <4> QED BY <1>0, <4>1, CountNone
    <3>3. Count(cyc'.tasks, Uncounted') = 0
      BY <3>1, CountEmpty
    <3>4. ~faulty' => made' <= usage'.row + 0
      BY <1>0, <3>1, <3>2 DEF DayInv
    <3>5. MaxCallsPerDay > 0 /\ ~faulty' => made <= MaxCallsPerDay
      BY <3>1 DEF DayInv
    <3> QED BY <3>1, <3>3, <3>4, <3>5 DEF DayInv
  <2> QED BY <1>13, <2>1, <2>2, <2>3 DEF Environment
<1>14. CASE UNCHANGED vars
  BY <1>2, <1>14 DEF vars
<1> QED BY <1>3, <1>4, <1>5, <1>6, <1>7, <1>8, <1>9, <1>10, <1>11, <1>12, <1>13, <1>14
        DEF Next, Cycle

-----------------------------------------------------------------------------
(* The vetoes' cost. *)

LEMMA OneMore ==
  ASSUME NEW k \in Int, NEW price \in Nat
  PROVE  /\ (k + 1) * price = k * price + price
         /\ k * price \in Int
         /\ k >= 0 => k * price >= 0
OBVIOUS

LEMMA NoneUnderway ==
  ASSUME CycleInv, AllAnswered
  PROVE  Count(cyc.tasks, Underway) = 0
<1>1. \A n \in DOMAIN cyc.tasks : cyc.tasks[n] \notin Underway
  BY DEF AllAnswered, Underway
<1> QED BY <1>1, CountsAre, CountNone

LEMMA SpendKept ==
  ASSUME CycleInv, HeardInv, Distinct, StateInv, SpendInv, [Next]_vars
  PROVE  SpendInv'
<1> USE DEF llm
<1> DEFINE M == MaxCallsPerCycle
           D == DearestCall
           a == Count(cyc.tasks, Asked)
           u == Count(cyc.tasks, Underway)
           a1 == Count(cyc'.tasks, Asked)
           u1 == Count(cyc'.tasks, Underway)
           low == VetoBudget - 1
<1>a. SUFFICES ASSUME VetoBudget > 0, M > 0
               PROVE  /\ cyc'.todo # <<>> \/ ~AllAnswered' => a1 <= M
                      /\ spent' <= low + (M - u1) * D
  <2>1. Asked' = Asked /\ Underway' = Underway
    BY DEF Asked, Underway
  <2> QED BY <2>1 DEF SpendInv
<1>0. /\ spent \in Nat /\ M \in Nat \ {0} /\ D \in Nat /\ VetoBudget \in Nat \ {0} /\ low \in Nat
      /\ a \in Nat /\ u \in Nat /\ cyc.tasks \in Seq(Tasks)
  <2>1. /\ spent \in Nat /\ M \in Nat \ {0} /\ D \in Nat /\ VetoBudget \in Nat \ {0}
        /\ a \in Nat /\ u \in Nat /\ cyc.tasks \in Seq(Tasks)
    BY <1>a, CycleAssumption, AdviceAssumption, DearestIs, CountsAre DEF StateInv
  <2> QED BY <2>1
<1>s. /\ (cyc.todo # <<>> \/ ~AllAnswered) => a <= M
      /\ spent <= low + (M - u) * D
  BY <1>a DEF SpendInv
<1> DEFINE Goal == /\ cyc'.todo # <<>> \/ ~AllAnswered' => a1 <= M
                   /\ spent' <= low + (M - u1) * D
<1>1. ASSUME cyc.tasks = <<>>, cyc'.tasks = <<>>, spent' = spent PROVE Goal
  <2>1. Count(<<>>, Asked) = 0
    BY CountEmpty
  <2>2. a1 = 0 /\ u1 = u
    BY <1>1, <2>1
  <2> HIDE DEF a, u, a1, u1, M, D, low
  <2> QED BY <1>0, <1>1, <1>s, <2>2
<1>2. ASSUME cyc' = cyc, spent' = spent PROVE Goal
  BY <1>2, <1>s DEF AllAnswered
<1>3. CASE EndEarly \/ Finish
  BY <1>1, <1>3, EndStep DEF EndEarly, Finish, CycleInv
<1>4. CASE Begin
  <2>1. spent' = spent
    BY <1>4 DEF Begin
  <2>2. cyc.tasks = <<>> /\ cyc'.tasks = <<>>
    BY <1>4, BeginStep DEF CycleInv
  <2> QED BY <1>1, <2>1, <2>2
<1>5. CASE Screen \/ updatePostTradeState
  <2>1. spent' = spent
    BY <1>5 DEF Screen, updatePostTradeState
  <2>2. cyc.tasks = <<>> /\ cyc'.tasks = <<>>
    BY <1>5, ScreenStep, UpdateStep DEF CycleInv
  <2> QED BY <1>1, <2>1, <2>2
<1>6. CASE CapCandidates \/ Snapshot
  <2>1. spent' = spent
    BY <1>6 DEF CapCandidates, Snapshot
  <2>2. cyc.tasks = <<>> /\ cyc'.tasks = <<>>
    BY <1>6, CapStep, SnapshotStep DEF CycleInv, StateInv
  <2> QED BY <1>1, <2>1, <2>2
<1>7. CASE Gate
  <2>1. spent' = spent /\ cyc.todo # <<>>
    BY <1>7 DEF Gate
  <2>2. a <= M
    BY <1>s, <2>1
  <2>3. CASE cyc'.tasks = cyc.tasks
    BY <1>s, <2>1, <2>2, <2>3
  <2>4. ASSUME NEW t \in Tasks, cyc'.tasks = Append(cyc.tasks, t), t.veto \in {"none", "due"},
               t.route = "LLM_VETO_REQUIRED" => a < M
        PROVE  Goal
    <3>1. /\ a1 = a + (IF t \in Asked THEN 1 ELSE 0)
          /\ u1 = u + (IF t \in Underway THEN 1 ELSE 0)
      BY <1>0, <2>4, CountAppend
    <3>2. t \notin Underway /\ (t \in Asked => a < M)
      BY <2>4 DEF Underway, Asked
    <3>3. u1 = u /\ a1 <= M
      <4> HIDE DEF a, u, a1, u1, M, D, low
      <4> QED BY <1>0, <2>2, <3>1, <3>2
    <3> HIDE DEF a, u, a1, u1, M, D, low
    <3> QED BY <1>s, <2>1, <3>3
  <2> QED BY <1>a, <1>7, <2>3, <2>4, GateStep
<1>8. CASE Veto
  <2>1. PICK n \in DOMAIN cyc.tasks : SendVeto(n) \/ ReceiveVeto(n)
    BY <1>8 DEF Veto
  <2>2. cyc.tasks[n] \in Tasks /\ ~AllAnswered /\ Heard(cyc.tasks[n]) /\ cyc'.tasks \in Seq(Tasks)
    BY <2>1, VetoStep DEF StateInv, HeardInv, CycleInv
  <2>3. a <= M
    BY <1>s, <2>2
  <2>t. PICK t \in Tasks : VetoTurns(n, t)
    BY <2>1, VetoStep DEF StateInv
  <2>4. /\ cyc'.tasks = [cyc.tasks EXCEPT ![n] = t]
        /\ t.route = cyc.tasks[n].route
        /\ \/ /\ SendVeto(n) /\ cyc.tasks[n].veto = "due" /\ t.veto = "sent" /\ t.seen = spent
           \/ /\ ReceiveVeto(n) /\ cyc.tasks[n].veto = "sent"
              /\ t.veto \in {"answered", "cancelled"} /\ t.seen = cyc.tasks[n].seen
              /\ \E r \in VetoReplies : spent' = spent + VetoCost(t.seen, r)
    BY <2>t DEF VetoTurns
  <2>5. /\ a1 = a - (IF cyc.tasks[n] \in Asked THEN 1 ELSE 0) + (IF t \in Asked THEN 1 ELSE 0)
        /\ u1 = u - (IF cyc.tasks[n] \in Underway THEN 1 ELSE 0)
                  + (IF t \in Underway THEN 1 ELSE 0)
    <3>1. cyc'.tasks = [cyc.tasks EXCEPT ![n] = t]
      BY <2>4
    <3>2. ASSUME NEW set
          PROVE  Count(cyc'.tasks, set) = Count(cyc.tasks, set)
                   - (IF cyc.tasks[n] \in set THEN 1 ELSE 0) + (IF t \in set THEN 1 ELSE 0)
      BY <1>0, <3>1, CountUpdate
    <3> QED BY <3>2
  <2>6. cyc.tasks[n] \in Asked <=> t \in Asked
    BY <2>2, <2>4 DEF Asked
  <2>7. a1 = a
    <3> HIDE DEF a, u, a1, u1, M, D, low
    <3> QED BY <1>0, <2>5, <2>6
  <2>8. u1 \in Nat
    <3>1. u1 \in 0 .. Len(cyc'.tasks)
      BY <2>2, CountType
    <3> QED BY <2>2, <3>1
  <2>9. spent' <= low + (M - u1) * D
    <3>1. CASE SendVeto(n) /\ cyc.tasks[n].veto = "due" /\ t.veto = "sent" /\ t.seen = spent
      <4>1. spent' = spent
        BY <3>1 DEF SendVeto
      <4>2. cyc.tasks[n] \notin Underway /\ (t \in Underway <=> spent < VetoBudget)
        BY <3>1 DEF Underway
      <4>3. CASE spent < VetoBudget
        <5>1. u1 <= a1
          <6>1. \A i \in DOMAIN cyc'.tasks : cyc'.tasks[i] \in Underway => cyc'.tasks[i] \in Asked
            <7>1. \A i \in DOMAIN cyc.tasks : Heard(cyc.tasks[i])
              BY DEF HeardInv
            <7>2. \A i \in DOMAIN cyc.tasks : cyc.tasks[i] \in Underway => cyc.tasks[i] \in Asked
              BY <1>0, <7>1 DEF Underway, Asked, Heard, Tasks
            <7>3. t \in Asked
              BY <2>2, <2>4, <3>1 DEF Asked, Heard, Tasks
            <7>4. \A i \in DOMAIN cyc'.tasks :
                    /\ i \in DOMAIN cyc.tasks
                    /\ cyc'.tasks[i] = t \/ cyc'.tasks[i] = cyc.tasks[i]
              BY <1>0, <2>4
            <7> QED BY <7>2, <7>3, <7>4
          <6> QED BY <2>2, <6>1, CountSubset
        <5>2. M - u1 \in Int /\ M - u1 >= 0
          <6> HIDE DEF a, u, a1, u1, M, D, low
          <6> QED BY <1>0, <2>3, <2>7, <2>8, <5>1
        <5>3. (M - u1) * D \in Int /\ (M - u1) * D >= 0
          <6> HIDE DEF a, u, a1, u1, M, D, low
          <6> QED BY <1>0, <5>2, OneMore
        <5>4. spent <= low
          BY <1>0, <4>3
        <5> HIDE DEF a, u, a1, u1, M, D, low
        <5> QED BY <1>0, <4>1, <5>3, <5>4
      <4>4. CASE ~(spent < VetoBudget)
        <5>1. u1 = u
          <6>1. t \notin Underway
            BY <4>2, <4>4
          <6> HIDE DEF a, u, a1, u1, M, D, low
          <6> QED BY <1>0, <2>5, <4>2, <6>1
        <5> HIDE DEF a, u, a1, u1, M, D, low
        <5> QED BY <1>s, <4>1, <5>1
      <4> QED BY <4>3, <4>4
    <3>2. ASSUME cyc.tasks[n].veto = "sent", t.veto \in {"answered", "cancelled"},
                 t.seen = cyc.tasks[n].seen, NEW r \in VetoReplies, spent' = spent + VetoCost(t.seen, r)
          PROVE  spent' <= low + (M - u1) * D
      <4> DEFINE cost == VetoCost(t.seen, r)
      <4>1. t.seen \in Nat
        BY DEF Tasks
      <4>2. cost \in 0 .. D /\ (VetoBudget > 0 /\ t.seen >= VetoBudget => cost = 0)
        BY <4>1, VetoPays
      <4>3. t \notin Underway /\ (cyc.tasks[n] \in Underway <=> t.seen < VetoBudget)
        BY <2>2, <3>2 DEF Underway
      <4>4. (M - u) + 1 \in Int /\ ((M - u) + 1) * D = (M - u) * D + D /\ (M - u) * D \in Int
        <5>1. M - u \in Int
          BY <1>0
        <5> HIDE DEF a, u, a1, u1, M, D, low
        <5> QED BY <1>0, <5>1, OneMore
      <4>5. CASE t.seen < VetoBudget
        <5>1. u1 = u - 1
          <6> HIDE DEF a, u, a1, u1, M, D, low
          <6> QED BY <1>0, <2>5, <4>3, <4>5
        <5>2. M - u1 = (M - u) + 1
          <6> HIDE DEF a, u, a1, u1, M, D, low
          <6> QED BY <1>0, <5>1
        <5> HIDE DEF a, u, a1, u1, M, D, low, cost
        <5>3. (M - u1) * D = (M - u) * D + D
          BY <4>4, <5>2
        <5>4. spent' = spent + cost
          BY <3>2 DEF cost
        <5> QED BY <1>0, <1>s, <4>2, <4>4, <5>3, <5>4
      <4>6. CASE ~(t.seen < VetoBudget)
        <5>1. u1 = u /\ cost = 0
          <6>1. cost = 0
            BY <1>0, <4>1, <4>2, <4>6
          <6>2. cyc.tasks[n] \notin Underway
            BY <4>3, <4>6
          <6> HIDE DEF a, u, a1, u1, M, D, low, cost
          <6>3. u1 = u
            BY <1>0, <2>5, <4>3, <6>2
          <6> QED BY <6>1, <6>3
        <5>2. spent' = spent
          <6>1. spent' = spent + cost
            BY <3>2
          <6> HIDE DEF cost
          <6> QED BY <1>0, <5>1, <6>1
        <5> HIDE DEF a, u, a1, u1, M, D, low, cost
        <5> QED BY <1>s, <5>1, <5>2
      <4> QED BY <4>5, <4>6
    <3> QED BY <2>4, <3>1, <3>2
  <2> HIDE DEF a, u, a1, u1, M, D, low
  <2> QED BY <2>3, <2>7, <2>9
<1>9. CASE Judge
  <2>1. /\ AllAnswered /\ cyc'.todo = <<>> /\ cyc.tasks # <<>> /\ cyc'.tasks = Tail(cyc.tasks)
        /\ Head(cyc.tasks) = cyc.tasks[1]
        /\ Head(cyc.tasks).veto \in {"none", "answered", "cancelled"}
    BY <1>0, <1>9, JudgeStep, TailIs DEF StateInv
  <2>2. spent' = spent
    BY <1>9 DEF Judge
  <2>3. AllAnswered'
    BY <1>0, <2>1, TailIs DEF AllAnswered
  <2>4. u1 = u
    <3>1. u1 = u - (IF Head(cyc.tasks) \in Underway THEN 1 ELSE 0)
      BY <1>0, <2>1, CountTail
    <3>2. Head(cyc.tasks) \notin Underway
      BY <2>1 DEF Underway
    <3> HIDE DEF a, u, a1, u1, M, D, low
    <3> QED BY <1>0, <3>1, <3>2
  <2> HIDE DEF a, u, a1, u1, M, D, low
  <2> QED BY <1>s, <2>1, <2>2, <2>3, <2>4
<1>10. CASE Rank \/ Place
  <2>1. spent' = spent
    BY <1>10 DEF Rank, Place
  <2>2. cyc.tasks = <<>> /\ cyc'.tasks = <<>>
    BY <1>10, RankStep, PlaceStep DEF CycleInv
  <2> QED BY <1>1, <2>1, <2>2
<1>11. CASE Environment
  <2>1. CASE ~Crash
    <3>1. cyc' = cyc
      BY <1>11, <2>1, Around
    <3>2. spent' = spent
      BY <1>11, <2>1 DEF Environment, Close, BlackoutEnds, StopAges, CooldownEnds,
        LocalMidnight, UTCMidnight
    <3> QED BY <1>2, <3>1, <3>2
  <2>2. CASE Crash
    <3>1. /\ cyc'.tasks = <<>> /\ cyc'.todo = <<>> /\ spent' = 0
      BY <2>2, EndStep DEF Crash
    <3>2. Count(<<>>, Asked) = 0 /\ Count(<<>>, Underway) = 0
      BY CountEmpty
    <3>3. a1 = 0 /\ u1 = 0
      BY <3>1, <3>2
    <3>4. (M - 0) * D >= 0 /\ (M - 0) * D \in Int
      <4> HIDE DEF a, u, a1, u1, M, D, low
      <4>1. M - 0 \in Int /\ M - 0 >= 0
        BY <1>0
      <4> QED BY <1>0, <4>1, OneMore
    <3> HIDE DEF a, u, a1, u1, M, D, low
    <3> QED BY <1>0, <3>1, <3>3, <3>4
  <2> QED BY <2>1, <2>2
<1>12. CASE UNCHANGED vars
  BY <1>2, <1>12 DEF vars
<1>13. Goal
  BY <1>3, <1>4, <1>5, <1>6, <1>7, <1>8, <1>9, <1>10, <1>11, <1>12 DEF Next, Cycle
<1> QED BY <1>13

-----------------------------------------------------------------------------
(* The theorems. *)

Inv ==
  /\ CycleInv /\ HeardInv /\ Distinct /\ StateInv
  /\ BooksInv /\ RestInv /\ DayInv /\ SpendInv

LEMMA InitInv == Init => Inv
<1> SUFFICES ASSUME Init PROVE Inv
  OBVIOUS
<1>1. cyc.pc = "idle" /\ cyc.todo = <<>> /\ cyc.tasks = <<>> /\ cyc.approved = <<>>
      /\ cyc.snap = {} /\ cyc.ranging = FALSE /\ cyc.btcStale = FALSE /\ cyc.executed = 0
      /\ DOMAIN cyc = DOMAIN Idle
  BY IdleIs DEF Init
<1>2. CycleInv /\ HeardInv /\ Distinct
  <2>1. <<>> \in Seq(Offers) /\ <<>> \in Seq(Tasks) /\ DOMAIN <<>> = {} /\ 0 \in Nat
    OBVIOUS
  <2>2. CycleInv
    BY <1>1, <2>1 DEF CycleInv
  <2>3. HeardInv
    BY <1>1, <2>1 DEF HeardInv
  <2>4. Distinct
    BY <1>1, <2>1 DEF Distinct
  <2> QED BY <2>2, <2>3, <2>4
<1>3. StateInv
  <2>1. /\ streak \in Nat /\ losses \in Nat /\ stops \subseteq Symbols
        /\ \A t \in trades : t.symbol \in Symbols
        /\ spent \in Nat /\ reviewed \in Nat /\ resetDue \in BOOLEAN
        /\ made \in Nat /\ faulty \in BOOLEAN /\ resting \subseteq Symbols
        /\ cooldown \in Timers
    BY DEF Init, Timers
  <2>2. stale \in 0 .. Critical
    BY CycleAssumption DEF Init
  <2>3. blackout \in [Symbols -> Timers]
    BY DEF Init, Timers
  <2>4. usage \in [today : Nat, old : BOOLEAN, row : Nat]
    BY DEF Init
  <2> QED BY <2>1, <2>2, <2>3, <2>4 DEF StateInv
<1>4. BooksInv
  BY <1>1 DEF Init, BooksInv, OneTradePerSymbol
<1>5. RestInv
  BY DEF Init, RestInv
<1>6. Count(cyc.tasks, Uncounted) = 0 /\ Count(cyc.tasks, Underway) = 0
  BY <1>1, CountEmpty
<1>7. DayInv
  BY <1>1, <1>6, CycleAssumption DEF Init, DayInv
<1>8. SpendInv
  <2> SUFFICES ASSUME VetoBudget > 0, MaxCallsPerCycle > 0
               PROVE  spent <= VetoBudget - 1 + (MaxCallsPerCycle - 0) * DearestCall
    BY <1>1, <1>6 DEF SpendInv, AllAnswered
  <2> DEFINE all == (MaxCallsPerCycle - 0) * DearestCall
  <2>1. MaxCallsPerCycle - 0 \in Int /\ MaxCallsPerCycle - 0 >= 0
    BY CycleAssumption
  <2>2. all \in Int /\ all >= 0
    BY <2>1, DearestIs, OneMore
  <2> HIDE DEF all
  <2>3. 0 <= VetoBudget - 1 + all
    BY <2>2, AdviceAssumption
  <2> QED BY <2>3 DEF Init, all
<1> QED BY <1>2, <1>3, <1>4, <1>5, <1>7, <1>8 DEF Inv

LEMMA NextInv == Inv /\ [Next]_vars => Inv'
BY CycleKept, HeardKept, DistinctKept, StateKept, BooksKept, RestKept, DayKept, SpendKept DEF Inv

LEMMA Always == Spec => []Inv
BY InitInv, NextInv, PTL DEF Spec

\* Type correctness: the scheduler's memory, its counters and the cycle record
\* keep their types through every interleaving of the cycle with what goes on
\* around it.
THEOREM TypeCorrect == Spec => []CycleTypeOK
<1>1. Inv => CycleTypeOK
  <2> SUFFICES ASSUME Inv PROVE CycleTypeOK
    OBVIOUS
  <2>1. \A n \in DOMAIN cyc.todo : cyc.todo[n] \in Offers
    BY DEF Inv, CycleInv
  <2>2. \A n \in DOMAIN cyc.tasks : cyc.tasks[n].veto \in {"none", "due", "sent", "answered", "cancelled"}
    <3>1. \A n \in DOMAIN cyc.tasks : cyc.tasks[n] \in Tasks
      BY DEF Inv, CycleInv
    <3> QED BY <3>1 DEF Tasks
  <2>3. cyc.pc \in {"idle", "screen", "books", "caps", "snapshot", "gate", "place"}
    BY DEF Inv, CycleInv
  <2> QED BY <2>1, <2>2, <2>3 DEF Inv, StateInv, CycleTypeOK
<1> QED BY <1>1, Always, PTL

\* No symbol ever has two open trades, although every check of a candidate's
\* symbol reads the snapshot taken before the vetoes (scheduler.go:351).
THEOREM OneTrade == Spec => []OneTradePerSymbol
<1>1. Inv => OneTradePerSymbol
  BY DEF Inv, BooksInv
<1> QED BY <1>1, Always, PTL

\* Over any number of cycles and restarts a day sends no more vetoes than
\* max_calls_per_day, while no count of its calls has been lost.
THEOREM DayCap == Spec => []DayCapHolds
<1>1. Inv => DayCapHolds
  BY DEF Inv, DayInv, DayCapHolds
<1> QED BY <1>1, Always, PTL

\* Vetoes asked in parallel read the budget before any of them is charged: what
\* the client charges between two starts, which leaves out the paid answers it
\* refuses, exceeds the budget by one cycle's dearest calls at most.
THEOREM ChargesAreBounded == Spec => []ChargesBounded
<1>1. Inv => ChargesBounded
  <2> SUFFICES ASSUME Inv, VetoBudget > 0, MaxCallsPerCycle > 0
               PROVE  spent <= VetoBudget - 1 + MaxCallsPerCycle * DearestCall
    BY DEF ChargesBounded
  <2> DEFINE u == Count(cyc.tasks, Underway)
             D == DearestCall
             M == MaxCallsPerCycle
  <2>1. /\ u \in Nat /\ D \in Nat /\ M \in Nat /\ VetoBudget \in Nat /\ spent \in Nat
        /\ spent <= VetoBudget - 1 + (M - u) * D
    BY CountsAre, DearestIs, CycleAssumption, AdviceAssumption DEF Inv, SpendInv, StateInv
  <2> HIDE DEF u, D, M
  <2>2. (M - u) * D = M * D - u * D /\ u * D >= 0 /\ M * D \in Int /\ u * D \in Int
    BY <2>1
  <2>3. spent <= VetoBudget - 1 + M * D
    BY <2>1, <2>2
  <2> QED BY <2>3 DEF M, D
<1> QED BY <1>1, Always, PTL

\* The only step that opens a trade.
LEMMA OpenedBy ==
  ASSUME [Next]_vars, NEW t \in trades' \ trades
  PROVE  Place
<1> USE DEF simulator
<1>1. CASE Begin \/ EndEarly \/ Screen \/ updatePostTradeState \/ CapCandidates \/ Snapshot
  BY <1>1 DEF Begin, EndEarly, Screen, updatePostTradeState, CapCandidates, Snapshot
<1>2. CASE Gate \/ Veto \/ Judge \/ Rank \/ Finish
  BY <1>2 DEF Gate, Veto, SendVeto, ReceiveVeto, Judge, Rank, Finish
<1>3. CASE Environment
  BY <1>3 DEF Environment, Close, BlackoutEnds, StopAges, CooldownEnds,
    LocalMidnight, UTCMidnight, Crash
<1>4. CASE UNCHANGED vars
  BY <1>4 DEF vars
<1> QED BY <1>1, <1>2, <1>3, <1>4 DEF Next, Cycle

LEMMA HitsNone ==
  ASSUME NEW conditions, Hits(conditions) = {}
  PROVE  \A c \in DOMAIN conditions : ~conditions[c]
BY DEF Hits

\* A plan the second validation approves is not for a symbol that is blacked out.
LEMMA NotCooling ==
  ASSUME NEW task, Placeable(task), Cfg.sl_cooldown
  PROVE  task.c.symbol \notin cooling
<1> DEFINE b == Books
<1>1. CandidateReasons(task.c, task.c.info, b) = {}
  BY DEF Placeable, ValidateCandidate
<1>2. BookReasons(task.c, b) = {}
  BY <1>1 DEF CandidateReasons
<1>3. b.cooling = cooling
  BY DEF Books
<1> HIDE DEF b
<1> DEFINE full == /\ Cardinality(b.positions) >= Cfg.risk_max_open_positions
                   /\ task.c.score < 85
           alts == /\ task.c.side = "LONG" /\ task.c.symbol # Btc /\ task.c.score < 85
                   /\ Cardinality({p \in b.positions : p.side = "LONG" /\ p.symbol # Btc})
                        >= Cfg.max_correlated_positions
           cool == Cfg.sl_cooldown /\ task.c.symbol \in b.cooling
           lost == Cfg.cooldown_losses > 0 /\ b.losses >= Cfg.cooldown_losses
           chain == [MAX_OPEN_POSITIONS |-> full, MAX_CORRELATED_ALT_POSITIONS |-> alts,
                     SYMBOL_SL_COOLDOWN |-> cool, CONSECUTIVE_LOSSES_COOLDOWN |-> lost,
                     IN_COOLDOWN |-> b.cooldown]
<1>4. Hits(chain) = {}
  BY <1>2 DEF BookReasons
<1> HIDE DEF full, alts, cool, lost
<1>5. "SYMBOL_SL_COOLDOWN" \in DOMAIN chain /\ chain["SYMBOL_SL_COOLDOWN"] = cool
  OBVIOUS
<1> HIDE DEF chain
<1>6. ~cool
  BY <1>4, <1>5, HitsNone
<1> QED BY <1>3, <1>6 DEF cool

\* Once a cycle has found the stop of a symbol among the last hour's, no trade
\* opens in it before its blackout has run out or a restart has forgotten it.
THEOREM StoppedOutRest == Spec => StoppedOutRests
<1>1. Inv /\ [Next]_vars => \A t \in trades' \ trades : t.symbol \notin resting
  <2> SUFFICES ASSUME Inv, [Next]_vars, NEW t \in trades' \ trades
               PROVE  t.symbol \notin resting
    OBVIOUS
  <2>1. Place /\ CycleInv /\ RestInv /\ StateInv
    BY OpenedBy DEF Inv
  <2>2. Placeable(Head(cyc.approved)) /\ t.symbol = Head(cyc.approved).c.symbol
    BY <2>1, PlaceStep
  <2>3. ASSUME t.symbol \in resting PROVE FALSE
    <3>1. Cfg.sl_cooldown /\ t.symbol \in cooling
      BY <2>1, <2>3 DEF RestInv, StateInv, cooling
    <3> QED BY <2>2, <3>1, NotCooling
  <2> QED BY <2>3
<1> QED BY <1>1, Always, PTL DEF Spec, StoppedOutRests

\* Whatever failed in asking for a veto, the trade that opens was allowed by an
\* answer, or scored high enough not to ask while the market did not range and
\* BTC could be read.
THEOREM TradesAreHeard == Spec => NoTradeUnheard
<1> DEFINE Allowed == \A t \in trades' \ trades :
             LET task == Head(cyc.approved) IN
               \/ task.decision.status = "answered"
               \/ /\ task.decision.status = "skip" /\ t.score >= Cfg.min_score_skip_llm
                  /\ ~cyc.ranging /\ ~cyc.btcStale
<1>1. Inv /\ [Next]_vars => Allowed
  <2> SUFFICES ASSUME Inv, [Next]_vars, NEW t \in trades' \ trades
               PROVE  LET task == Head(cyc.approved) IN
                        \/ task.decision.status = "answered"
                        \/ /\ task.decision.status = "skip" /\ t.score >= Cfg.min_score_skip_llm
                           /\ ~cyc.ranging /\ ~cyc.btcStale
    OBVIOUS
  <2>1. Place /\ CycleInv /\ HeardInv
    BY OpenedBy DEF Inv
  <2>2. t.score = Head(cyc.approved).c.score
    BY <2>1, PlaceStep
  <2>3. 1 \in DOMAIN cyc.approved /\ Head(cyc.approved) = cyc.approved[1]
    BY <2>1, PlaceStep, TailIs DEF CycleInv
  <2>4. /\ Heard(Head(cyc.approved))
        /\ Head(cyc.approved).veto \in {"none", "answered", "cancelled"}
        /\ Head(cyc.approved).decision.decision # "BLOCK"
    BY <2>1, <2>3 DEF HeardInv
  <2> QED BY <2>2, <2>4 DEF Heard
<1> QED BY <1>1, Always, PTL DEF Spec, NoTradeUnheard
=============================================================================
