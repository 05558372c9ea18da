------------------------- MODULE ActionPipelineProofs -------------------------
(***************************************************************************)
(* Proofs about StatCounter, ActionStore and ActionPipeline, for any       *)
(* users, keys, requests and faults.  First the sums of shards: in Redis   *)
(* every change is counted once, across rebuilds and lost bases.  Then the *)
(* table: the counter of video_stat is exact and the table keeps the       *)
(* promise of ActionFacts, on the synchronous path and whatever            *)
(* fallbacks, redeliveries and crashes do.  Then the pipeline, under every *)
(* fault there is: a newer event is overtaken by an older one in two ways  *)
(* only; and once everything is consumed Redis, MySQL and the hot ranking  *)
(* agree on the states, counts and scores of all users whom no such thing, *)
(* and no loss of a message or a key, has touched.                         *)
(***************************************************************************)
EXTENDS ActionPipeline, StatCounter, FiniteSetTheorems, WellFoundedInduction, TLAPS

-----------------------------------------------------------------------------
(* Sums.  ShardSum is a recursive function on the subsets of a set; that   *)
(* there is one, and what it gives, is shown by least counterexamples.     *)

\* A set of natural numbers has a least.
LEMMA LeastCount ==
    ASSUME NEW N, N \subseteq Nat, N # {}
    PROVE  \E n \in N : \A m \in N : n <= m
<1> DEFINE less == {p \in Nat \X Nat : p[1] < p[2]}
<1>1. IsWellFoundedOn(less, Nat)
  BY NatLessThanWellFounded DEF OpToRel
<1> HIDE DEF less
<1>2. PICK n \in N : \A m \in N : ~(<<m, n>> \in less)
  BY <1>1, WFMin
<1>3. \A m \in N : m \in Nat /\ n \in Nat /\ ~(m < n)
  BY <1>2 DEF less
<1> QED
  BY <1>3

\* Of finite sets that are some, one is among the smallest.
LEMMA SmallestSet ==
    ASSUME NEW C, C # {}, \A S \in C : IsFiniteSet(S)
    PROVE  \E S \in C : \A T \in C : Cardinality(S) <= Cardinality(T)
<1> DEFINE sizes == {Cardinality(S) : S \in C}
<1>1. sizes \subseteq Nat /\ sizes # {}
  BY FS_CardinalityType
<1>2. PICK n \in sizes : \A m \in sizes : n <= m
  <2> HIDE DEF sizes
  <2> QED
    BY <1>1, LeastCount
<1> QED
  BY <1>2

Picked(s) == CHOOSE x \in s : TRUE

\* g gives the sums of the subsets of S.
IsSum(g, sh, S) ==
    g = [s \in SUBSET S |-> IF s = {} THEN 0 ELSE sh[Picked(s)].count + g[s \ {Picked(s)}]]

\* The definition of the community modules, unfolded.
LEMMA SumUnfolded ==
    ASSUME NEW sh, NEW S
    PROVE  ShardSum(sh, S) = (CHOOSE g : IsSum(g, sh, S))[S]
BY DEF ShardSum, MapThenSumSet, MapThenFoldSet, IsSum, Picked

\* One less.
LEMMA Smaller ==
    ASSUME NEW S, IsFiniteSet(S), NEW x \in S
    PROVE  /\ IsFiniteSet(S \ {x}) /\ Cardinality(S) \in Nat /\ Cardinality(S \ {x}) \in Nat
           /\ Cardinality(S \ {x}) < Cardinality(S)
<1>1. IsFiniteSet(S \ {x}) /\ Cardinality(S \ {x}) = Cardinality(S) - 1
  BY FS_RemoveElement
<1>2. Cardinality(S) \in Nat /\ Cardinality(S \ {x}) \in Nat
  BY <1>1, FS_CardinalityType
<1> QED
  BY <1>1, <1>2

\* Two sum functions give a set they both know the same sum, also when they sum
\* over different shards that agree on the set.
LEMMA SumsAgree ==
    ASSUME NEW sh, NEW ti, NEW A, NEW B, NEW g, NEW h, IsSum(g, sh, A), IsSum(h, ti, B),
           NEW S \in SUBSET A, S \in SUBSET B, IsFiniteSet(S),
           \A s \in S : sh[s].count = ti[s].count
    PROVE  g[S] = h[S]
<1> DEFINE C == {T \in SUBSET S : g[T] # h[T]}
<1>1. SUFFICES ASSUME C # {} PROVE FALSE
  OBVIOUS
<1>2. \A T \in C : IsFiniteSet(T)
  BY FS_Subset
<1>3. PICK T \in C : \A U \in C : Cardinality(T) <= Cardinality(U)
  <2> HIDE DEF C
  <2> QED
    BY <1>1, <1>2, SmallestSet
<1>4. /\ g[T] = IF T = {} THEN 0 ELSE sh[Picked(T)].count + g[T \ {Picked(T)}]
      /\ h[T] = IF T = {} THEN 0 ELSE ti[Picked(T)].count + h[T \ {Picked(T)}]
  <2>1. T \in SUBSET A /\ T \in SUBSET B
    OBVIOUS
  <2> QED
    BY <2>1 DEF IsSum
<1>5. T # {}
  BY <1>4
<1>6. Picked(T) \in T
  BY <1>5 DEF Picked
<1>7. T \ {Picked(T)} \notin C
  <2>1. Cardinality(T \ {Picked(T)}) < Cardinality(T) /\ Cardinality(T) \in Nat
        /\ Cardinality(T \ {Picked(T)}) \in Nat
    BY <1>2, <1>6, Smaller
  <2> QED
    BY <1>3, <2>1
<1>8. g[T \ {Picked(T)}] = h[T \ {Picked(T)}] /\ sh[Picked(T)].count = ti[Picked(T)].count
  BY <1>6, <1>7
<1> QED
  BY <1>4, <1>5, <1>8

\* Every finite set has a sum function: a smallest set without one would get it
\* from those of its proper subsets.
LEMMA SumExists ==
    ASSUME NEW sh, NEW S, IsFiniteSet(S)
    PROVE  \E g : IsSum(g, sh, S)
<1> DEFINE Has(T) == \E g : IsSum(g, sh, T)
           C == {T \in SUBSET S : ~Has(T)}
<1>1. SUFFICES ASSUME C # {} PROVE FALSE
  OBVIOUS
<1>2. \A T \in C : IsFiniteSet(T)
  BY FS_Subset
<1>3. PICK T \in C : \A U \in C : Cardinality(T) <= Cardinality(U)
  <2> HIDE DEF C
  <2> QED
    BY <1>1, <1>2, SmallestSet
<1>4. ASSUME NEW U \in SUBSET T, U # T PROVE Has(U)
  <2>1. Cardinality(U) < Cardinality(T)
    <3>1. IsFiniteSet(U) /\ Cardinality(U) <= Cardinality(T) /\ Cardinality(U) # Cardinality(T)
      BY <1>2, <1>4, FS_Subset
    <3>2. Cardinality(U) \in Nat /\ Cardinality(T) \in Nat
      BY <1>2, <3>1, FS_CardinalityType
    <3> QED
      BY <3>1, <3>2
  <2>2. Cardinality(U) \in Nat /\ Cardinality(T) \in Nat
    BY <1>2, FS_Subset, FS_CardinalityType
  <2>3. U \notin C
    <3> HIDE DEF C
    <3> QED
      BY <1>3, <2>1, <2>2
  <2> QED
    BY <2>3
<1> DEFINE H(U) == CHOOSE h : IsSum(h, sh, U)
           part(U) == H(U)[U]
           g == [U \in SUBSET T |->
                   IF U = {} THEN 0 ELSE sh[Picked(U)].count + part(U \ {Picked(U)})]
<1>5. \A U \in SUBSET T : U # T => IsSum(H(U), sh, U)
  BY <1>4
<1> HIDE DEF H
<1>6. ASSUME NEW U \in SUBSET T, U # T PROVE g[U] = part(U)
  <2>1. part(U) = IF U = {} THEN 0 ELSE sh[Picked(U)].count + H(U)[U \ {Picked(U)}]
    BY <1>5, <1>6 DEF IsSum
  <2>2. CASE U # {}
    <3>1. Picked(U) \in U
      BY <2>2 DEF Picked
    <3> DEFINE V == U \ {Picked(U)}
    <3>2. V \in SUBSET T /\ V # T /\ V \in SUBSET U /\ IsFiniteSet(V)
      BY <1>2, <3>1, FS_Subset
    <3>3. IsSum(H(U), sh, U) /\ IsSum(H(V), sh, V)
      BY <1>5, <1>6, <3>2
    <3>4. H(U)[V] = H(V)[V]
      <4> HIDE DEF V
      <4> QED
        BY <3>2, <3>3, SumsAgree
    <3> QED
      BY <2>1, <2>2, <3>4
  <2>3. CASE U = {}
    BY <2>1, <2>3
  <2> QED
    BY <2>2, <2>3
<1>7. ASSUME NEW U \in SUBSET T, U # {} PROVE part(U \ {Picked(U)}) = g[U \ {Picked(U)}]
  <2>1. Picked(U) \in U
    BY <1>7 DEF Picked
  <2>2. U \ {Picked(U)} \in SUBSET T /\ U \ {Picked(U)} # T
    BY <2>1
  <2> HIDE DEF g, part
  <2> QED
    BY <1>6, <2>2
<1>8. IsSum(g, sh, T)
  <2>1. \A U \in SUBSET T :
           (IF U = {} THEN 0 ELSE sh[Picked(U)].count + part(U \ {Picked(U)}))
           = (IF U = {} THEN 0 ELSE sh[Picked(U)].count + g[U \ {Picked(U)}])
    <3> HIDE DEF g, part
    <3> QED
      BY <1>7
  <2>2. g = [U \in SUBSET T |-> IF U = {} THEN 0 ELSE sh[Picked(U)].count + g[U \ {Picked(U)}]]
    <3> DEFINE e(U) == IF U = {} THEN 0 ELSE sh[Picked(U)].count + part(U \ {Picked(U)})
               f(U) == IF U = {} THEN 0 ELSE sh[Picked(U)].count + g[U \ {Picked(U)}]
    <3>1. g = [U \in SUBSET T |-> e(U)]
      OBVIOUS
    <3>2. \A U \in SUBSET T : e(U) = f(U)
      BY <2>1
    <3> HIDE DEF g, e, f
    <3>3. g = [U \in SUBSET T |-> f(U)]
      BY <3>1, <3>2
    <3> QED
      BY <3>3 DEF f
  <2> HIDE DEF g
  <2> QED
    BY <2>2 DEF IsSum
<1> QED
  BY <1>3, <1>8

\* The sum of a set, from that of the set without the member CHOOSE takes.
LEMMA SumStep ==
    ASSUME NEW sh, NEW S, IsFiniteSet(S)
    PROVE  ShardSum(sh, S) = IF S = {} THEN 0
                             ELSE sh[Picked(S)].count + ShardSum(sh, S \ {Picked(S)})
<1> DEFINE H(U) == CHOOSE h : IsSum(h, sh, U)
<1>1. \A U \in SUBSET S : IsSum(H(U), sh, U) /\ ShardSum(sh, U) = H(U)[U]
  BY SumExists, SumUnfolded, FS_Subset
<1> HIDE DEF H
<1>2. H(S)[S] = IF S = {} THEN 0 ELSE sh[Picked(S)].count + H(S)[S \ {Picked(S)}]
  BY <1>1 DEF IsSum
<1>3. CASE S # {}
  <2> DEFINE V == S \ {Picked(S)}
  <2>1. V \in SUBSET S /\ IsFiniteSet(V)
    BY FS_Subset
  <2>2. H(S)[V] = H(V)[V]
    <3> HIDE DEF V
    <3>1. IsSum(H(S), sh, S) /\ IsSum(H(V), sh, V) /\ V \in SUBSET V
      BY <1>1, <2>1
    <3> QED
      BY <2>1, <3>1, SumsAgree
  <2> QED
    BY <1>1, <1>2, <1>3, <2>1, <2>2
<1>4. CASE S = {}
  BY <1>1, <1>2, <1>4
<1> QED
  BY <1>3, <1>4

\* Sums of integers are integers.
LEMMA SumType ==
    ASSUME NEW sh, NEW S, IsFiniteSet(S), \A s \in S : sh[s].count \in Int
    PROVE  ShardSum(sh, S) \in Int
<1> DEFINE C == {T \in SUBSET S : ShardSum(sh, T) \notin Int}
<1>1. SUFFICES ASSUME C # {} PROVE FALSE
  OBVIOUS
<1>2. \A T \in C : IsFiniteSet(T)
  BY FS_Subset
<1>3. PICK T \in C : \A U \in C : Cardinality(T) <= Cardinality(U)
  <2> HIDE DEF C
  <2> QED
    BY <1>1, <1>2, SmallestSet
<1>4. CASE T # {}
  <2>1. Picked(T) \in T
    BY <1>4 DEF Picked
  <2>2. T \ {Picked(T)} \notin C
    <3>1. Cardinality(T \ {Picked(T)}) < Cardinality(T) /\ Cardinality(T) \in Nat
          /\ Cardinality(T \ {Picked(T)}) \in Nat
      BY <1>2, <2>1, Smaller
    <3> HIDE DEF C
    <3> QED
      BY <1>3, <3>1
  <2>3. ShardSum(sh, T) = sh[Picked(T)].count + ShardSum(sh, T \ {Picked(T)})
    BY <1>2, <1>4, SumStep
  <2>4. ShardSum(sh, T \ {Picked(T)}) \in Int /\ sh[Picked(T)].count \in Int
    BY <2>1, <2>2
  <2> QED
    BY <2>3, <2>4
<1>5. CASE T = {}
  <2>1. ShardSum(sh, T) = 0
    BY <1>2, <1>5, SumStep
  <2> QED
    BY <2>1
<1> QED
  BY <1>4, <1>5

\* A member's count may be taken out of the sum, whichever CHOOSE takes first.
LEMMA SumRemove ==
    ASSUME NEW sh, NEW S, IsFiniteSet(S), \A s \in S : sh[s].count \in Int, NEW x \in S
    PROVE  ShardSum(sh, S) = sh[x].count + ShardSum(sh, S \ {x})
<1> DEFINE Out(T) == \A y \in T : ShardSum(sh, T) = sh[y].count + ShardSum(sh, T \ {y})
           C == {T \in SUBSET S : ~Out(T)}
<1>1. SUFFICES ASSUME C # {} PROVE FALSE
  OBVIOUS
<1>2. \A T \in C : IsFiniteSet(T)
  BY FS_Subset
<1>3. PICK T \in C : \A U \in C : Cardinality(T) <= Cardinality(U)
  <2> HIDE DEF C
  <2> QED
    BY <1>1, <1>2, SmallestSet
<1>4. PICK y \in T : ShardSum(sh, T) # sh[y].count + ShardSum(sh, T \ {y})
  OBVIOUS
<1> DEFINE p == Picked(T)
<1>5. p \in T /\ ShardSum(sh, T) = sh[p].count + ShardSum(sh, T \ {p})
  BY <1>2, <1>4, SumStep DEF Picked
<1> HIDE DEF p
<1>6. ASSUME NEW z \in T PROVE Out(T \ {z}) /\ IsFiniteSet(T \ {z})
  <2>1. Cardinality(T \ {z}) < Cardinality(T) /\ Cardinality(T) \in Nat
        /\ Cardinality(T \ {z}) \in Nat /\ IsFiniteSet(T \ {z})
    BY <1>2, Smaller
  <2>2. T \ {z} \notin C
    <3> HIDE DEF C
    <3> QED
      BY <1>3, <2>1
  <2> QED
    BY <2>1, <2>2
<1>7. p # y
  BY <1>4, <1>5
<1>8. /\ ShardSum(sh, T \ {p}) = sh[y].count + ShardSum(sh, (T \ {p}) \ {y})
      /\ ShardSum(sh, T \ {y}) = sh[p].count + ShardSum(sh, (T \ {y}) \ {p})
  <2>1. y \in T \ {p} /\ p \in T \ {y}
    BY <1>5, <1>7
  <2>2. Out(T \ {p}) /\ Out(T \ {y})
    BY <1>5, <1>6
  <2> QED
    BY <2>1, <2>2
<1>9. (T \ {p}) \ {y} = (T \ {y}) \ {p}
  OBVIOUS
<1>10. ShardSum(sh, (T \ {p}) \ {y}) \in Int /\ sh[p].count \in Int /\ sh[y].count \in Int
  <2>1. IsFiniteSet((T \ {p}) \ {y}) /\ (T \ {p}) \ {y} \subseteq S
    BY <1>5, <1>6, FS_Subset
  <2>2. ShardSum(sh, (T \ {p}) \ {y}) \in Int
    BY <2>1, SumType
  <2> QED
    BY <1>5, <2>2
<1>11. PICK a \in Int, b \in Int, c \in Int :
          a = sh[p].count /\ b = sh[y].count /\ c = ShardSum(sh, (T \ {p}) \ {y})
  BY <1>10
<1>12. ShardSum(sh, T) = a + (b + c) /\ ShardSum(sh, T \ {y}) = a + c
  BY <1>5, <1>8, <1>9, <1>11
<1>13. a + (b + c) = b + (a + c)
  OBVIOUS
<1> QED
  BY <1>4, <1>11, <1>12, <1>13

\* Only the counts of the members matter.
LEMMA SumSame ==
    ASSUME NEW sh, NEW ti, NEW S, IsFiniteSet(S), \A s \in S : sh[s].count = ti[s].count
    PROVE  ShardSum(sh, S) = ShardSum(ti, S)
<1> DEFINE g == CHOOSE h : IsSum(h, sh, S)
           f == CHOOSE h : IsSum(h, ti, S)
<1>1. IsSum(g, sh, S) /\ IsSum(f, ti, S) /\ ShardSum(sh, S) = g[S] /\ ShardSum(ti, S) = f[S]
  BY SumExists, SumUnfolded
<1> HIDE DEF f, g
<1> QED
  BY <1>1, SumsAgree

-----------------------------------------------------------------------------
(* The counter in Redis.                                                   *)

\* Epochs are those handed out so far: a base without one (Missing) has not been
\* written since the field exists.
CacheEpochs ==
    /\ base \in Counter /\ shards \in [Shards -> Counter]
    /\ nextEpoch \in Nat /\ nextEpoch > Blank
    /\ base.live => base.epoch > Blank /\ base.epoch < nextEpoch
    /\ \A s \in Shards : shards[s].live => shards[s].epoch > Blank /\ shards[s].epoch < nextEpoch

\* The script adds its delta to what base and shards add up to, or to the
\* snapshot when it makes a new base: shards of other bases do not count.
LEMMA ScriptTotal ==
    ASSUME CacheEpochs, NEW u \in Users, NEW active, NEW key, NEW initial \in Nat,
           Script(u, active, key, initial)
    PROVE  /\ CacheEpochs' /\ base'.live
           /\ Total' = (IF base.live THEN Total ELSE initial) + ScriptDelta(hash[u], active, key)
<1> DEFINE delta == ScriptDelta(hash[u], active, key)
           s == ShardOf[u]
           M == Matching(base, shards)
           N == Matching(base', shards')
<1>1. s \in Shards /\ IsFiniteSet(Shards) /\ delta \in {-1, 0, 1}
  BY CacheAssumption DEF ScriptDelta
<1> HIDE DEF s, delta
<1>2. /\ base' = IF base.live THEN base ELSE [live |-> TRUE, count |-> initial, epoch |-> nextEpoch]
      /\ nextEpoch' = IF base.live THEN nextEpoch ELSE nextEpoch + 1
  BY DEF Script, BaseAfter
<1>3. base' \in Counter /\ base'.live /\ base'.epoch > Blank /\ base'.epoch < nextEpoch'
  BY <1>2 DEF CacheEpochs, Counter
<1>4. EpochRead(base'.epoch) = base'.epoch
  BY <1>3 DEF EpochRead, Blank, Missing
<1>5. shards' = [shards EXCEPT ![s] = ShardAfter(shards[s], base'.epoch, delta)]
  BY <1>2, <1>4 DEF Script, s, delta, BaseAfter
<1> DEFINE kept == IF shards[s].live /\ shards[s].epoch = base'.epoch THEN shards[s].count ELSE 0
<1>6. /\ shards'[s] = [live |-> TRUE, count |-> kept + delta, epoch |-> base'.epoch]
      /\ kept \in Int
      /\ \A t \in Shards : t # s => shards'[t] = shards[t]
  BY <1>1, <1>5 DEF ShardAfter, CacheEpochs, Counter
<1> HIDE DEF kept
<1>7. CacheEpochs'
  <2>1. kept + delta \in Int
    BY <1>1, <1>6
  <2>2. shards' \in [Shards -> Counter]
    <3>1. shards'[s] \in Counter
      BY <1>3, <1>6, <2>1 DEF Counter
    <3> QED
      BY <1>5, <1>6, <3>1 DEF CacheEpochs
  <2>3. nextEpoch' \in Nat /\ nextEpoch' > Blank /\ nextEpoch' >= nextEpoch
    BY <1>2 DEF CacheEpochs, Blank
  <2>4. ASSUME NEW t \in Shards, shards'[t].live
        PROVE  shards'[t].epoch > Blank /\ shards'[t].epoch < nextEpoch'
    <3>1. CASE t = s
      BY <1>3, <1>6, <3>1
    <3>2. CASE t # s
      <4>1. shards[t].epoch \in Nat /\ shards[t].epoch > Blank /\ shards[t].epoch < nextEpoch
        BY <1>6, <2>4, <3>2 DEF CacheEpochs, Counter
      <4> QED
        BY <1>6, <2>3, <3>2, <4>1 DEF CacheEpochs
    <3> QED
      BY <3>1, <3>2
  <2> QED
    BY <1>3, <2>2, <2>3, <2>4 DEF CacheEpochs
<1>8. N = {t \in Shards : shards'[t].live /\ shards'[t].epoch = base'.epoch}
  BY <1>4, <1>7 DEF Matching, CacheEpochs, EpochRead, Blank, Missing
<1>9. base.live => M = {t \in Shards : shards[t].live /\ shards[t].epoch = base.epoch}
  BY DEF Matching, CacheEpochs, EpochRead, Blank, Missing
<1>10. s \in N /\ IsFiniteSet(N) /\ IsFiniteSet(N \ {s}) /\ IsFiniteSet(M)
  BY <1>1, <1>6, <1>8, FS_Subset DEF Matching
<1> HIDE DEF M, N
<1>11. ShardSum(shards', N) = kept + delta + ShardSum(shards', N \ {s})
  <2>1. \A t \in N : shards'[t].count \in Int
    BY <1>7, <1>8 DEF CacheEpochs, Counter
  <2> QED
    BY <1>6, <1>10, <2>1, SumRemove
<1>12. ShardSum(shards', N \ {s}) = ShardSum(shards, N \ {s}) /\ ShardSum(shards, N \ {s}) \in Int
  <2>1. \A t \in N \ {s} : shards'[t].count = shards[t].count /\ shards[t].count \in Int
    BY <1>6, <1>8 DEF CacheEpochs, Counter
  <2> QED
    BY <1>10, <2>1, SumSame, SumType
<1>13. CASE base.live
  <2>1. N \ {s} = M \ {s} /\ base' = base
    BY <1>2, <1>6, <1>8, <1>9, <1>13
  <2>2. ShardSum(shards, M) = kept + ShardSum(shards, M \ {s})
    <3>1. CASE s \in M
      <4>1. \A t \in M : shards[t].count \in Int
        BY <1>9, <1>13 DEF CacheEpochs, Counter
      <4>2. kept = shards[s].count
        BY <1>2, <1>9, <1>13, <3>1 DEF kept
      <4> QED
        BY <1>10, <3>1, <4>1, <4>2, SumRemove
    <3>2. CASE s \notin M
      <4>1. kept = 0 /\ M \ {s} = M
        BY <1>1, <1>2, <1>9, <1>13, <3>2 DEF kept
      <4> QED
        BY <1>12, <2>1, <4>1
    <3> QED
      BY <3>1, <3>2
  <2>3. base.count \in Int
    BY DEF CacheEpochs, Counter
  <2>4. base.count + ShardSum(shards', N) = base.count + ShardSum(shards, M) + delta
    <3>1. PICK a \in Int, b \in Int, d \in Int, k \in Int :
             a = base.count /\ b = ShardSum(shards, N \ {s}) /\ d = delta /\ k = kept
      BY <1>1, <1>6, <1>12, <2>3
    <3>2. ShardSum(shards', N) = k + d + b /\ ShardSum(shards, M) = k + b
      BY <1>11, <1>12, <2>1, <2>2, <3>1
    <3>3. a + (k + d + b) = a + (k + b) + d
      OBVIOUS
    <3> QED
      BY <3>1, <3>2, <3>3
  <2> QED
    BY <1>3, <1>7, <1>13, <2>1, <2>4 DEF Total, M, N, delta
<1>14. CASE ~base.live
  <2>1. N \ {s} = {} /\ kept = 0 /\ base'.count = initial
    BY <1>1, <1>2, <1>6, <1>8, <1>14 DEF CacheEpochs, Counter, kept
  <2>2. ShardSum(shards, {}) = 0
    BY FS_EmptySet, SumStep
  <2>3. base'.count + ShardSum(shards', N) = initial + delta
    BY <1>1, <1>11, <1>12, <2>1, <2>2
  <2> QED
    BY <1>3, <1>7, <1>14, <2>3 DEF Total, N, delta
<1> QED
  BY <1>13, <1>14

-----------------------------------------------------------------------------
(* StatCounter: every credited change is counted once.                     *)

Frames ==
    [pc : {"idle", "script", "base", "shards", "fallback", "load", "json", "done"},
     user : Users \cup {Free.user}, active : BOOLEAN, initial : Nat,
     base : Counter, sum : Int, todo : SUBSET Shards, count : Int]

StatFrames ==
    /\ json \in Counter
    /\ proc \in [Procs -> Frames]
    /\ \A p \in Procs : proc[p].pc = "script" => proc[p].user \in Users
    /\ stored \in Nat /\ owed \in Int
    /\ deltas \in Seq({-1, 1})

CountInv == CacheEpochs /\ StatFrames /\ CountedOnce

\* Base and shards stay, or the base goes.
LEMMA QuietCounter ==
    ASSUME CacheEpochs, CountedOnce, base' = base \/ base' = Gone,
           UNCHANGED <<shards, nextEpoch, owed>>
    PROVE  CacheEpochs' /\ CountedOnce'
<1>1. Gone \in Counter /\ ~Gone.live
  BY DEF Gone, Counter, Missing
<1>2. CASE base' = base
  BY <1>2 DEF CacheEpochs, CountedOnce, Total, Matching
<1>3. CASE base' = Gone
  BY <1>1, <1>3 DEF CacheEpochs, CountedOnce
<1> QED
  BY <1>2, <1>3

\* A process that does not go to "script" keeps the frames.
LEMMA FrameStep ==
    ASSUME StatFrames, NEW p \in Procs, NEW f \in Frames, f.pc # "script",
           proc' = [proc EXCEPT ![p] = f], UNCHANGED <<stored, owed, deltas>>, json' \in Counter
    PROVE  StatFrames'
BY DEF StatFrames

\* A process that is free has a frame.
LEMMA FreeFrame == Free \in Frames /\ Free.pc = "idle"
<1> DEFINE someone == Free.user
<1>1. Free = [pc |-> "idle", user |-> someone, active |-> TRUE, initial |-> 0, base |-> Gone,
             sum |-> 0, todo |-> {}, count |-> 0]
  BY DEF Free
<1>2. Gone \in Counter
  BY DEF Gone, Counter, Missing
<1> HIDE DEF someone
<1>3. someone \in Users \cup {someone} /\ {} \in SUBSET Shards
  OBVIOUS
<1>4. Free.user = someone
  BY <1>1
<1> QED
  BY <1>1, <1>2, <1>3, <1>4 DEF Frames

\* Without old data no counter is there at first.
LEMMA CountInit == ~Legacy /\ StatInit => CountInv
<1> SUFFICES ASSUME ~Legacy, StatInit PROVE CountInv
  OBVIOUS
<1>1. Gone \in Counter /\ ~Gone.live
  BY DEF Gone, Counter, Missing
<1>2. CacheEpochs /\ CountedOnce
  BY <1>1 DEF StatInit, CacheEpochs, CountedOnce, Blank
<1>3. stored \in Nat
  <2>1. IsFiniteSet(Warm)
    BY UsersAssumption, CacheAssumption, FS_Subset
  <2> QED
    BY <2>1, FS_CardinalityType DEF StatInit
<1>4. Free \in Frames /\ Free.pc # "script"
  BY FreeFrame
<1> QED
  BY <1>1, <1>2, <1>3, <1>4 DEF StatInit, StatFrames, CountInv

\* The script credits its delta; all else leaves base and shards alone, or loses
\* the base.
LEMMA CountStep == CountInv /\ [StatNext]_counterVars => CountInv'
<1> SUFFICES ASSUME CountInv, [StatNext]_counterVars PROVE CountInv'
  OBVIOUS
<1>0. CacheEpochs /\ CountedOnce /\ StatFrames /\ proc \in [Procs -> Frames] /\ json \in Counter
  BY DEF CountInv, StatFrames
<1>a. Gone \in Counter
  BY DEF Gone, Counter, Missing
<1>b. Free \in Frames /\ [Free EXCEPT !.pc = "done"] \in Frames
      /\ Free.pc # "script" /\ [Free EXCEPT !.pc = "done"].pc # "script"
  <2>1. Free \in Frames /\ Free.pc # "script"
    BY <1>a, FreeFrame
  <2> QED
    BY <2>1 DEF Frames
<1>1. ASSUME NEW w \in Writers, NEW u \in Users, NEW active \in BOOLEAN, Begin(w, u, active)
      PROVE  CountInv'
  <2>1. w \in Procs /\ proc[w] \in Frames /\ stored \in Nat
    BY <1>0 DEF Procs, StatFrames
  <2> DEFINE f == [proc[w] EXCEPT !.pc = "script", !.user = u, !.active = active, !.initial = stored]
  <2>2. f \in Frames /\ f.user \in Users
    BY <2>1 DEF Frames
  <2>3. proc' = [proc EXCEPT ![w] = f] /\ UNCHANGED <<cacheVars, stored, deltas, owed>>
    BY <1>1 DEF Begin
  <2> HIDE DEF f
  <2>4. StatFrames'
    BY <1>0, <2>1, <2>2, <2>3 DEF StatFrames, cacheVars
  <2> QED
    BY <1>0, <2>3, <2>4, QuietCounter DEF cacheVars, CountInv
<1>2. ASSUME NEW w \in Procs, RunStatScript(w) PROVE CountInv'
  <2> DEFINE p == proc[w]
             d == ScriptDelta(hash[p.user], p.active, NoKey)
  <2>1. p \in Frames /\ p.user \in Users /\ p.initial \in Nat
    BY <1>0, <1>2 DEF RunStatScript, StatFrames, Frames
  <2>2. Script(p.user, p.active, NoKey, p.initial)
    BY <1>2 DEF RunStatScript
  <2>3. /\ CacheEpochs' /\ Total' = (IF base.live THEN Total ELSE p.initial) + d
    BY <1>0, <2>1, <2>2, ScriptTotal
  <2>4. /\ owed' = (IF base.live THEN owed ELSE p.initial) + d
        /\ deltas' = IF d = 0 THEN deltas ELSE Append(deltas, d)
        /\ proc' = [proc EXCEPT ![w] = [p EXCEPT !.pc = "base"]]
        /\ json' = json /\ stored' = stored
    BY <1>2 DEF RunStatScript, Script
  <2>5. d \in {-1, 0, 1} /\ [p EXCEPT !.pc = "base"] \in Frames /\ [p EXCEPT !.pc = "base"].pc # "script"
    BY <2>1 DEF ScriptDelta, Frames
  <2> HIDE DEF d
  <2>6. CountedOnce'
    BY <1>0, <2>3, <2>4 DEF CountedOnce
  <2>7. owed' \in Int /\ deltas' \in Seq({-1, 1})
    BY <1>0, <2>1, <2>4, <2>5 DEF StatFrames
  <2>8. StatFrames'
    <3>1. proc' \in [Procs -> Frames]
      BY <1>0, <2>4, <2>5
    <3>2. \A q \in Procs : proc'[q].pc = "script" => proc'[q].user \in Users
      BY <1>0, <2>4, <2>5 DEF StatFrames
    <3> QED
      BY <1>0, <2>4, <2>7, <3>1, <3>2 DEF StatFrames
  <2> QED
    BY <2>3, <2>6, <2>8 DEF CountInv
<1>3. ASSUME NEW r \in Procs, NEW f \in Frames, f.pc # "script", proc' = [proc EXCEPT ![r] = f],
             UNCHANGED <<stored, deltas, owed, base, shards, nextEpoch>>, json' \in Counter
      PROVE  CountInv'
  BY <1>0, <1>3, FrameStep, QuietCounter DEF CountInv
<1>4. ASSUME NEW r \in Readers, Miss(r) PROVE CountInv'
  <2>1. r \in Procs /\ proc[r] \in Frames
    BY <1>0 DEF Procs
  <2>2. [proc[r] EXCEPT !.pc = "base"] \in Frames /\ [proc[r] EXCEPT !.pc = "base"].pc # "script"
    BY <2>1 DEF Frames
  <2> QED
    BY <1>0, <1>3, <1>4, <2>1, <2>2 DEF Miss, cacheVars
<1>5. ASSUME NEW r \in Procs, Load(r) PROVE CountInv'
  <2> DEFINE f == [proc[r] EXCEPT !.pc = "json", !.count = stored]
  <2>1. f \in Frames /\ f.pc # "script"
    <3>1. proc[r] \in Frames /\ stored \in Int
      BY <1>0 DEF StatFrames
    <3> QED
      BY <3>1 DEF Frames
  <2>2. proc' = [proc EXCEPT ![r] = f] /\ UNCHANGED <<cacheVars, stored, deltas, owed>>
    BY <1>5 DEF Load
  <2> HIDE DEF f
  <2> QED
    BY <1>0, <1>3, <2>1, <2>2 DEF cacheVars
<1>6. ASSUME NEW p \in Procs, TakeBase(p) PROVE CountInv'
  <2> DEFINE f == [proc[p] EXCEPT !.pc = "shards", !.base = base, !.sum = 0, !.todo = Shards]
             g == [proc[p] EXCEPT !.pc = "fallback"]
  <2>1. f \in Frames /\ g \in Frames /\ f.pc # "script" /\ g.pc # "script"
    <3>1. proc[p] \in Frames /\ base \in Counter
      BY <1>0 DEF CacheEpochs
    <3>2. f \in Frames /\ f.pc # "script"
      <4> DEFINE f1 == [proc[p] EXCEPT !.pc = "shards", !.base = base]
      <4>1. f1 \in Frames /\ f1.pc # "script" /\ f = [f1 EXCEPT !.sum = 0, !.todo = Shards]
        BY <3>1 DEF Frames
      <4>2. Shards \in SUBSET Shards /\ 0 \in Int
        OBVIOUS
      <4> HIDE DEF f, f1
      <4> QED
        BY <4>1, <4>2 DEF Frames
    <3>3. g \in Frames /\ g.pc # "script"
      BY <3>1 DEF Frames
    <3> QED
      BY <3>2, <3>3
  <2>2. /\ proc' = [proc EXCEPT ![p] = f] \/ proc' = [proc EXCEPT ![p] = g]
        /\ UNCHANGED <<cacheVars, stored, deltas, owed>>
    BY <1>6 DEF TakeBase
  <2> HIDE DEF f, g
  <2> QED
    BY <1>0, <1>3, <2>1, <2>2 DEF cacheVars
<1>7. ASSUME NEW p \in Procs, ReadShard(p) PROVE CountInv'
  <2> DEFINE q == proc[p]
             s == Min(q.todo)
             sum == q.sum + IF s \in Matching(q.base, shards) THEN shards[s].count ELSE 0
             f == [q EXCEPT !.pc = "json", !.count = Clamp(q.base.count + sum),
                            !.todo = {}, !.sum = 0, !.base = Gone]
             g == [q EXCEPT !.todo = @ \ {s}, !.sum = sum]
  <2>1. q \in Frames /\ q.pc = "shards"
    BY <1>0, <1>7 DEF ReadShard
  <2>2. sum \in Int /\ q.base.count \in Int
    <3>1. ASSUME NEW x, x \in Matching(q.base, shards) PROVE shards[x].count \in Int
      BY <1>0, <3>1 DEF Matching, CacheEpochs, Counter
    <3>2. q.sum \in Int /\ q.base.count \in Int
      BY <2>1 DEF Frames, Counter
    <3> HIDE DEF s, q
    <3> QED
      BY <3>1, <3>2
  <2>3. Clamp(q.base.count + sum) \in Int
    <3> HIDE DEF sum, q
    <3> QED
      BY <2>2 DEF Clamp
  <2>4. /\ proc' = [proc EXCEPT ![p] = f] \/ proc' = [proc EXCEPT ![p] = g]
        /\ UNCHANGED <<cacheVars, stored, deltas, owed>>
    BY <1>7 DEF ReadShard
  <2>5. f \in Frames /\ g \in Frames /\ f.pc # "script" /\ g.pc # "script"
    <3>1. q.todo \ {s} \in SUBSET Shards
      BY <2>1 DEF Frames
    <3> HIDE DEF sum, s, q
    <3>2. f \in Frames /\ f.pc # "script"
      <4> DEFINE c == Clamp(q.base.count + sum)
                 f1 == [q EXCEPT !.pc = "json", !.count = c]
      <4>1. c \in Int
        BY <2>3
      <4> HIDE DEF c
      <4>2. f1 \in Frames /\ f1.pc # "script"
        BY <2>1, <4>1 DEF Frames
      <4>3. f = [f1 EXCEPT !.todo = {}, !.sum = 0, !.base = Gone]
        BY <2>1 DEF Frames, c
      <4>4. {} \in SUBSET Shards /\ 0 \in Int
        OBVIOUS
      <4> HIDE DEF f, f1
      <4> QED
        BY <1>a, <4>2, <4>3, <4>4 DEF Frames
    <3>3. g \in Frames /\ g.pc # "script"
      BY <2>1, <2>2, <3>1 DEF Frames
    <3> QED
      BY <3>2, <3>3
  <2> HIDE DEF f, g
  <2> QED
    BY <1>0, <1>3, <2>4, <2>5 DEF cacheVars
<1>8. ASSUME NEW p \in Procs, TakeFallback(p) PROVE CountInv'
  <2>1. PICK n \in Int, pc \in {"json", "load"} :
           proc' = [proc EXCEPT ![p] = [proc[p] EXCEPT !.pc = pc, !.count = n]]
    <3>1. proc[p] \in Frames /\ json.count \in Int /\ proc[p].initial \in Int /\ proc[p].count \in Int
      BY <1>0 DEF Frames, Counter
    <3>2. [proc[p] EXCEPT !.pc = "load"] = [proc[p] EXCEPT !.pc = "load", !.count = proc[p].count]
      BY <3>1 DEF Frames
    <3> QED
      BY <1>8, <3>1, <3>2 DEF TakeFallback
  <2> DEFINE f == [proc[p] EXCEPT !.pc = pc, !.count = n]
  <2>2. f \in Frames /\ f.pc # "script"
    BY <1>0 DEF Frames
  <2>3. proc' = [proc EXCEPT ![p] = f] /\ UNCHANGED <<cacheVars, stored, deltas, owed>>
    BY <1>8, <2>1 DEF TakeFallback
  <2> HIDE DEF f
  <2> QED
    BY <1>0, <1>3, <2>2, <2>3 DEF cacheVars
<1>9. ASSUME NEW p \in Procs, StoreJSON(p) PROVE CountInv'
  <2>1. json' \in Counter
    <3>1. PICK n : n = proc[p].count
      OBVIOUS
    <3>2. [live |-> TRUE, count |-> n, epoch |-> Missing] \in Counter
      BY <1>0, <3>1 DEF Frames, Counter, Missing
    <3>3. json' = json \/ json' = [live |-> TRUE, count |-> n, epoch |-> Missing]
      BY <1>9, <3>1 DEF StoreJSON, WriteJSON
    <3>4. json \in Counter
      BY <1>0 DEF CountInv
    <3> QED
      BY <3>2, <3>3, <3>4
  <2>2. /\ proc' = [proc EXCEPT ![p] = [Free EXCEPT !.pc = "done"]] \/ proc' = [proc EXCEPT ![p] = Free]
        /\ UNCHANGED <<stored, deltas, owed, base, shards, nextEpoch>>
    BY <1>9 DEF StoreJSON
  <2> QED
    BY <1>3, <1>b, <2>1, <2>2
<1>10. CASE Persist
  <2>1. Head(deltas) \in {-1, 1} /\ Tail(deltas) \in Seq({-1, 1}) /\ stored \in Nat
    BY <1>0, <1>10 DEF Persist, StatFrames
  <2>2. stored' \in Nat
    BY <1>10, <2>1 DEF Persist, Clamp
  <2>3. StatFrames'
    BY <1>0, <1>10, <2>1, <2>2 DEF Persist, StatFrames, cacheVars
  <2> QED
    BY <1>0, <1>10, <2>3, QuietCounter DEF Persist, cacheVars, CountInv
<1>11. CASE LoseBase \/ LoseJSON \/ UNCHANGED counterVars
  <2>1. /\ base' = base \/ base' = Gone
        /\ json' = json \/ json' = Gone
        /\ UNCHANGED <<shards, nextEpoch, proc, stored, deltas, owed>>
    BY <1>11 DEF LoseBase, LoseJSON, EvictBase, ExpireJSON, statVars, counterVars, cacheVars
  <2>2. StatFrames'
    BY <1>0, <1>a, <2>1 DEF StatFrames
  <2> QED
    BY <1>0, <2>1, <2>2, QuietCounter DEF CountInv
<1> QED
  BY <1>1, <1>2, <1>4, <1>5, <1>6, <1>7, <1>8, <1>9, <1>10, <1>11 DEF StatNext, Step

\* However requests interleave and however often the base is lost and rebuilt,
\* base and shards add up to the snapshot and each change credited since.
THEOREM ChangesCountedOnce ==
    ASSUME ~Legacy
    PROVE  StatSpec => []CountedOnce
<1>1. StatInit => CountInv
  BY CountInit
<1>2. CountInv => CountedOnce
  BY DEF CountInv
<1> QED
  BY <1>1, <1>2, CountStep, PTL DEF StatSpec

-----------------------------------------------------------------------------
(* The table alone.                                                        *)

StoreInv == StoreTypeOK /\ CountIsActiveRows

\* What SetAction adds to the counter is the change of the row's activity: a
\* replayed key and a repeated state add nothing.
LEMMA DeltaLemma ==
    ASSUME NEW row \in Row, NEW active \in BOOLEAN, NEW key, NEW now
    PROVE  LET after == RowAfter(row, active, key, now)
               delta == RowDelta(row, active, key)
           IN  \/ delta = 1 /\ row.status # Active /\ after.status = Active
               \/ delta = -1 /\ row.status = Active /\ after.status # Active
               \/ delta = 0 /\ (row.status = Active <=> after.status = Active)
<1>1. row.status \in {"absent", "active", "canceled"}
  BY DEF Row, Statuses, Absent, Active, Canceled
<1>2. CASE active = TRUE
  BY <1>1, <1>2 DEF RowAfter, RowDelta, Saved, StatusOf, Absent, Active, Canceled
<1>3. CASE active = FALSE
  BY <1>1, <1>3 DEF RowAfter, RowDelta, Saved, StatusOf, Absent, Active, Canceled
<1> QED
  BY <1>2, <1>3

\* A row stays a row.
LEMMA RowLemma ==
    ASSUME NEW row \in Row, NEW active \in BOOLEAN, NEW key \in Keys \cup {NoKey}, NEW now \in Nat
    PROVE  RowAfter(row, active, key, now) \in Row
BY DEF RowAfter, StatusOf, Row, Statuses

\* The active users are countable.
LEMMA ActiveFinite == IsFiniteSet(ActiveUsers) /\ Cardinality(ActiveUsers) \in Nat
BY UsersAssumption, FS_Subset, FS_CardinalityType DEF ActiveUsers

\* A SetAction transaction keeps the counter exact; in terms of ActionFacts it
\* is a like, an unlike or nothing.
LEMMA SetActionStep ==
    ASSUME StoreInv, NEW u \in Users, NEW active \in BOOLEAN, NEW key \in Keys \cup {NoKey},
           SetAction(u, active, key)
    PROVE  /\ StoreInv'
           /\ [Facts!Next]_<<ActiveUsers, likeCount>>
<1> DEFINE after == RowAfter(rows[u], active, key, clock)
           delta == RowDelta(rows[u], active, key)
<1>1. /\ rows' = [rows EXCEPT ![u] = after]
      /\ likeCount' = Clamp(likeCount + delta)
      /\ published' = published /\ clock' = clock
  BY DEF SetAction
<1>2. rows[u] \in Row /\ after \in Row
  BY RowLemma DEF StoreInv, StoreTypeOK
<1>3. likeCount = Cardinality(ActiveUsers) /\ likeCount \in Nat
  BY DEF StoreInv, StoreTypeOK, CountIsActiveRows
<1>4. rows'[u] = after /\ \A v \in Users : v # u => rows'[v] = rows[v]
  BY <1>1, <1>2 DEF StoreInv, StoreTypeOK
<1>5. CASE delta = 1 /\ rows[u].status # Active /\ after.status = Active
  <2>1. u \notin ActiveUsers /\ ActiveUsers' = ActiveUsers \cup {u}
    BY <1>4, <1>5 DEF ActiveUsers
  <2>2. Cardinality(ActiveUsers') = likeCount + 1
    BY <1>3, <2>1, ActiveFinite, FS_AddElement
  <2>3. likeCount' = likeCount + 1
    BY <1>1, <1>3, <1>5 DEF Clamp
  <2>4. Facts!Like(u)
    BY <2>1, <2>3 DEF Facts!Like
  <2> QED
    BY <1>1, <1>2, <1>3, <2>2, <2>3, <2>4 DEF StoreInv, StoreTypeOK, CountIsActiveRows, Facts!Next
<1>6. CASE delta = -1 /\ rows[u].status = Active /\ after.status # Active
  <2>1. u \in ActiveUsers /\ ActiveUsers' = ActiveUsers \ {u}
    BY <1>4, <1>6 DEF ActiveUsers
  <2>2. Cardinality(ActiveUsers') = likeCount - 1 /\ likeCount - 1 \in Nat
    <3>1. IsFiniteSet(ActiveUsers') /\ Cardinality(ActiveUsers') = likeCount - 1
      BY <1>3, <2>1, ActiveFinite, FS_RemoveElement
    <3>2. Cardinality(ActiveUsers') \in Nat
      BY <3>1, FS_CardinalityType
    <3> QED
      BY <3>1, <3>2
  <2>3. likeCount' = likeCount - 1
    BY <1>1, <1>3, <1>6, <2>2 DEF Clamp
  <2>4. Facts!Unlike(u)
    BY <2>1, <2>3 DEF Facts!Unlike
  <2> QED
    BY <1>1, <1>2, <1>3, <2>2, <2>3, <2>4 DEF StoreInv, StoreTypeOK, CountIsActiveRows, Facts!Next
<1>7. CASE delta = 0 /\ (rows[u].status = Active <=> after.status = Active)
  <2>1. ActiveUsers' = ActiveUsers
    BY <1>4, <1>7 DEF ActiveUsers
  <2>2. likeCount' = likeCount
    BY <1>1, <1>3, <1>7 DEF Clamp
  <2> QED
    BY <1>1, <1>2, <1>3, <2>1, <2>2 DEF StoreInv, StoreTypeOK, CountIsActiveRows
<1> QED
  BY <1>2, <1>5, <1>6, <1>7, DeltaLemma

\* Time passing and the deletion of the video leave the table alone.
LEMMA QuietStep ==
    ASSUME StoreInv, Unpublish \/ Tick \/ UNCHANGED storeVars
    PROVE  StoreInv' /\ UNCHANGED <<ActiveUsers, likeCount>>
<1>1. UNCHANGED <<rows, likeCount>> /\ clock' \in Nat
  BY DEF StoreInv, StoreTypeOK, Unpublish, Tick, storeVars
<1>2. published' = FALSE \/ published' = published
  BY DEF Unpublish, Tick, storeVars
<1> QED
  BY <1>1, <1>2 DEF StoreInv, StoreTypeOK, CountIsActiveRows, ActiveUsers

\* The first rows are those of InitiallyLiked, and the counter counts them.
LEMMA StoreInitLemma == StoreInit => StoreInv /\ Facts!Init
<1> SUFFICES ASSUME StoreInit PROVE StoreInv /\ Facts!Init
  OBVIOUS
<1>1. ActiveUsers = InitiallyLiked
  BY StoreAssumption DEF StoreInit, ActiveUsers, NoRow, Absent, Active
<1>2. likeCount = Cardinality(ActiveUsers) /\ likeCount \in Nat
  BY <1>1, ActiveFinite DEF StoreInit
<1>3. rows \in [Users -> Row]
  BY DEF StoreInit, NoRow, Row, Statuses
<1>4. StoreInv
  BY <1>2, <1>3 DEF StoreInit, StoreInv, StoreTypeOK, CountIsActiveRows
<1>5. Facts!Cardinality(ActiveUsers) = Cardinality(ActiveUsers)
  BY DEF Facts!Cardinality, Cardinality
<1>6. Facts!Init
  BY <1>2, <1>5 DEF Facts!Init, ActiveUsers
<1> QED
  BY <1>4, <1>6

\* Every step of the synchronous deployment is a step of ActionFacts or none.
LEMMA StoreStep ==
    StoreInv /\ [StoreNext]_storeVars => StoreInv' /\ [Facts!Next]_<<ActiveUsers, likeCount>>
<1> SUFFICES ASSUME StoreInv, [StoreNext]_storeVars
             PROVE  StoreInv' /\ [Facts!Next]_<<ActiveUsers, likeCount>>
  OBVIOUS
<1>1. ASSUME NEW u \in Users, NEW active \in BOOLEAN, NEW key \in KeysFor(active, {}),
             SetAction(u, active, key)
      PROVE  StoreInv' /\ [Facts!Next]_<<ActiveUsers, likeCount>>
  <2>1. key \in Keys \cup {NoKey}
    BY <1>1 DEF KeysFor
  <2> QED
    BY <1>1, <2>1, SetActionStep
<1>2. CASE Unpublish \/ Tick \/ UNCHANGED storeVars
  BY <1>2, QuietStep
<1> QED
  BY <1>1, <1>2 DEF StoreNext

\* The counter of video_stat is always the number of users whose row is
\* active, for any requests, retries and cancellations.
THEOREM CountExact == StoreSpec => [](StoreTypeOK /\ CountIsActiveRows)
<1>1. StoreInit => StoreInv
  BY StoreInitLemma
<1>2. StoreInv /\ [StoreNext]_storeVars => StoreInv'
  BY StoreStep
<1> QED
  BY <1>1, <1>2, PTL DEF StoreSpec, StoreInv

\* The fact table keeps the promise of ActionFacts: one user at a time, the
\* set of users and the count together.
THEOREM StoreRefinement == StoreSpec => ImplementsFacts
<1>1. StoreInit => StoreInv /\ Facts!Init
  BY StoreInitLemma
<1>2. StoreInv /\ [StoreNext]_storeVars => StoreInv' /\ [Facts!Next]_<<ActiveUsers, likeCount>>
  BY StoreStep
<1> QED
  BY <1>1, <1>2, PTL DEF StoreSpec, ImplementsFacts, Facts!Spec

-----------------------------------------------------------------------------
(* The table under the pipeline.                                           *)

\* The part of TypeOK that a write to MySQL depends on.
PipelineTypes ==
    /\ base \in Counter
    /\ nextEpoch \in Nat
    /\ req \in [Requests -> Handler \cup {Idle, Done}]
    /\ queue \in Seq(Event)
    /\ worker \in Delivery \cup {Resting}

PipelineInv == StoreInv /\ PipelineTypes

-----------------------------------------------------------------------------
\* The pc of a request or of the worker tells the fields it has.
LEMMA HandlerShape ==
    ASSUME PipelineTypes, NEW r \in Requests,
           req[r].pc \in {"script", "base", "shards", "publish", "sync"}
    PROVE  req[r] \in Handler
BY DEF PipelineTypes, Idle, Done

\* A worker that is not resting holds an event of the queue's type.
LEMMA DeliveryShape ==
    ASSUME PipelineTypes, worker # Resting
    PROVE  worker \in Delivery /\ worker.event \in Event
BY DEF PipelineTypes, Delivery

\* Inserting an event into a queue leaves a queue.
LEMMA InsertLemma ==
    ASSUME NEW q \in Seq(Event), NEW i \in 1..(Len(q) + 1), NEW e \in Event
    PROVE  InsertAt(q, i, e) \in Seq(Event)
<1>1. SubSeq(q, 1, i - 1) \in Seq(Event)
  OBVIOUS
<1>2. SubSeq(q, i, Len(q)) \in Seq(Event)
  OBVIOUS
<1> QED
  BY <1>1, <1>2 DEF InsertAt

\* Moving a request on, or ending it, keeps the requests' types.
LEMMA GotoLemma ==
    ASSUME PipelineTypes, NEW r \in Requests, req[r] \in Handler,
           NEW pc \in {"script", "base", "shards", "publish", "sync"}, Goto(r, pc)
    PROVE  req' \in [Requests -> Handler \cup {Idle, Done}]
<1>1. [req[r] EXCEPT !.pc = pc] \in Handler
  BY DEF Handler
<1> QED
  BY <1>1 DEF Goto, PipelineTypes

\* A finished request is one too.
LEMMA ReturnLemma ==
    ASSUME PipelineTypes, NEW r \in Requests, NEW result, Return(r, result)
    PROVE  req' \in [Requests -> Handler \cup {Idle, Done}]
BY DEF Return, PipelineTypes

\* The script leaves a base and an epoch.
LEMMA ScriptLemma ==
    ASSUME PipelineTypes, NEW u, NEW active, NEW key, NEW initial \in Nat,
           Script(u, active, key, initial)
    PROVE  base' \in Counter /\ nextEpoch' \in Nat
<1>1. nextEpoch' = nextEpoch \/ nextEpoch' = nextEpoch + 1
  BY DEF Script
<1>2. base' = base \/ base' = [live |-> TRUE, count |-> initial, epoch |-> nextEpoch]
  BY DEF Script, BaseAfter
<1>3. initial \in Int /\ nextEpoch \in Nat
  BY DEF PipelineTypes
<1>4. [live |-> TRUE, count |-> initial, epoch |-> nextEpoch] \in Counter
  BY <1>3 DEF Counter
<1>5. nextEpoch' \in Nat
  BY <1>1, <1>3
<1> QED
  BY <1>2, <1>4, <1>5 DEF PipelineTypes

\* Requests keep the invariant, and change MySQL by one SetAction at most.
LEMMA RequestStep ==
    ASSUME PipelineInv, NEW r \in Requests, Request(r) \/ Abandon(r)
    PROVE  PipelineInv' /\ [Facts!Next]_<<ActiveUsers, likeCount>>
<1> DEFINE Kept == StoreInv' /\ [Facts!Next]_<<ActiveUsers, likeCount>>
           Types == PipelineTypes'
<1> USE DEF PipelineInv
<1>0. ASSUME UNCHANGED storeVars PROVE Kept
  BY <1>0, QuietStep
<1>1. ASSUME RunScript(r) PROVE Kept /\ Types
  <2> DEFINE q == req[r]
  <2>1. q \in Handler /\ q.initial \in Nat
    BY <1>1, HandlerShape DEF RunScript, Handler
  <2>2. base' \in Counter /\ nextEpoch' \in Nat
    BY <1>1, <2>1, ScriptLemma DEF RunScript
  <2>3. ScriptDelta(hash[q.user], q.active, q.key) \in {-1, 0, 1}
    BY DEF ScriptDelta
  <2>4. req' \in [Requests -> Handler \cup {Idle, Done}]
    <3> DEFINE d == ScriptDelta(hash[q.user], q.active, q.key)
    <3>1. [q EXCEPT !.pc = "base", !.delta = d] \in Handler
      BY <2>1, <2>3 DEF Handler
    <3>2. req' = [req EXCEPT ![r] = [q EXCEPT !.pc = "base", !.delta = d]]
      BY <1>1 DEF RunScript
    <3> QED
      BY <3>1, <3>2 DEF PipelineTypes
  <2> QED
    BY <1>0, <1>1, <2>2, <2>4 DEF RunScript, PipelineTypes
<1>2. ASSUME ReadBase(r) PROVE Kept /\ Types
  <2>1. req[r] \in Handler
    BY <1>2, HandlerShape DEF ReadBase
  <2>2. [req[r] EXCEPT !.pc = "shards", !.base = base] \in Handler
    BY <2>1 DEF Handler, PipelineTypes
  <2>3. req' = [req EXCEPT ![r] = [req[r] EXCEPT !.pc = "shards", !.base = base]]
    BY <1>2 DEF ReadBase
  <2> QED
    BY <1>0, <1>2, <2>2, <2>3 DEF ReadBase, PipelineTypes, cacheVars
<1>3. ASSUME ReadShards(r) PROVE Kept /\ Types
  <2>1. req[r] \in Handler
    BY <1>3, HandlerShape DEF ReadShards
  <2>2. req' \in [Requests -> Handler \cup {Idle, Done}]
    BY <1>3, <2>1, GotoLemma, ReturnLemma DEF ReadShards
  <2> QED
    BY <1>0, <1>3, <2>2 DEF ReadShards, PipelineTypes
<1>4. ASSUME Publish(r) PROVE Kept /\ Types
  <2>1. req[r] \in Handler
    BY <1>4, HandlerShape DEF Publish
  <2>2. EventOf(req[r]) \in Event
    BY <2>1 DEF EventOf, Event, Handler, StoreInv, StoreTypeOK
  <2>3. queue' \in Seq(Event)
    BY <1>4, <2>2 DEF Publish, PipelineTypes
  <2> QED
    BY <1>0, <1>4, <2>3, ReturnLemma DEF Publish, PipelineTypes, cacheVars
<1>5. ASSUME FallBack(r) PROVE Kept /\ Types
  <2>1. req[r] \in Handler
    BY <1>5, HandlerShape DEF FallBack
  <2>2. req' \in [Requests -> Handler \cup {Idle, Done}]
    BY <1>5, <2>1, GotoLemma DEF FallBack
  <2> QED
    BY <1>0, <1>5, <2>2 DEF FallBack, PipelineTypes, cacheVars
<1>6. ASSUME WriteSync(r) PROVE Kept /\ Types
  <2> DEFINE q == req[r]
  <2>1. q \in Handler
    BY <1>6, HandlerShape DEF WriteSync
  <2>2. q.user \in Users /\ q.active \in BOOLEAN /\ q.key \in Keys \cup {NoKey}
    BY <2>1 DEF Handler
  <2>3. SetAction(q.user, q.active, q.key)
    BY <1>6 DEF WriteSync
  <2>4. Kept
    BY <2>2, <2>3, SetActionStep
  <2> QED
    BY <1>6, <2>4, ReturnLemma DEF WriteSync, PipelineTypes, cacheVars
<1>7. ASSUME WriteSyncFails(r) \/ Abandon(r) PROVE Kept /\ Types
  BY <1>0, <1>7, ReturnLemma DEF WriteSyncFails, Abandon, PipelineTypes, cacheVars
<1> QED
  BY <1>1, <1>2, <1>3, <1>4, <1>5, <1>6, <1>7 DEF Request

\* A request starts.
LEMMA StartStep ==
    ASSUME PipelineInv, NEW r \in Requests, NEW u \in Users, NEW active \in BOOLEAN,
           NEW key \in KeysFor(active, sent), Start(r, u, active, key)
    PROVE  PipelineInv' /\ [Facts!Next]_<<ActiveUsers, likeCount>>
<1>1. StoreInv' /\ UNCHANGED <<ActiveUsers, likeCount>>
  BY QuietStep DEF PipelineInv, Start
<1> DEFINE q == [pc |-> "script", user |-> u, active |-> active, key |-> key,
                 initial |-> likeCount, delta |-> 0, base |-> Gone]
<1>2. Gone \in Counter
  BY DEF Gone, Counter, Missing
<1>3. q \in Handler
  BY <1>2 DEF Handler, KeysFor, PipelineInv, StoreInv, StoreTypeOK
<1>4. req' \in [Requests -> Handler \cup {Idle, Done}]
  BY <1>3 DEF Start, PipelineInv, PipelineTypes
<1> QED
  BY <1>1, <1>4 DEF Start, PipelineInv, PipelineTypes, cacheVars

\* The worker keeps the invariant, and changes MySQL by one SetAction at most.
LEMMA WorkerStep ==
    ASSUME PipelineInv, Worker
    PROVE  PipelineInv' /\ [Facts!Next]_<<ActiveUsers, likeCount>>
<1> DEFINE Kept == StoreInv' /\ [Facts!Next]_<<ActiveUsers, likeCount>>
           Types == PipelineTypes'
<1> USE DEF PipelineInv
<1>0. ASSUME UNCHANGED storeVars PROVE Kept
  BY <1>0, QuietStep
<1>1. ASSUME Deliver PROVE Kept /\ Types
  <2>1. Head(queue) \in Event /\ Tail(queue) \in Seq(Event)
    BY <1>1 DEF Deliver, PipelineTypes
  <2>2. worker' \in Delivery
    BY <1>1, <2>1 DEF Deliver, Delivery
  <2> QED
    BY <1>0, <1>1, <2>1, <2>2 DEF Deliver, PipelineTypes, cacheVars
<1>2. ASSUME Lookup \/ LookupFails PROVE Kept /\ Types
  <2>1. worker \in Delivery
    BY <1>2, DeliveryShape DEF Lookup, LookupFails, Resting
  <2>2. [worker EXCEPT !.pc = "apply"] \in Delivery
    BY <2>1 DEF Delivery
  <2> QED
    BY <1>0, <1>2, <2>2 DEF Lookup, LookupFails, PipelineTypes, cacheVars
<1>3. ASSUME Apply PROVE Kept /\ Types
  <2> DEFINE e == worker.event
  <2>1. worker \in Delivery /\ e \in Event
    BY <1>3, DeliveryShape DEF Apply, Resting
  <2>2. e.user \in Users /\ e.active \in BOOLEAN /\ e.key \in Keys \cup {NoKey}
    BY <2>1 DEF Event
  <2>3. SetAction(e.user, e.active, e.key)
    BY <1>3 DEF Apply
  <2>4. Kept
    BY <2>2, <2>3, SetActionStep
  <2>5. [worker EXCEPT !.pc = "ack"] \in Delivery
    BY <2>1 DEF Delivery
  <2> QED
    BY <1>3, <2>4, <2>5 DEF Apply, PipelineTypes, cacheVars
<1>4. ASSUME Ack PROVE Kept /\ Types
  BY <1>0, <1>4 DEF Ack, PipelineTypes, cacheVars
<1>5. ASSUME Requeue PROVE Kept /\ Types
  <2>1. worker.event \in Event
    BY <1>5, DeliveryShape DEF Requeue, Resting
  <2>2. queue' \in Seq(Event)
    BY <1>5, <2>1, InsertLemma DEF Requeue, Requeued, PipelineTypes
  <2> QED
    BY <1>0, <1>5, <2>2 DEF Requeue, PipelineTypes, cacheVars
<1> QED
  BY <1>1, <1>2, <1>3, <1>4, <1>5 DEF Worker

\* The environment leaves the table alone.
LEMMA EnvironmentStep ==
    ASSUME PipelineInv, Delete \/ TimePasses \/ KeyLost \/ UNCHANGED vars
    PROVE  PipelineInv' /\ [Facts!Next]_<<ActiveUsers, likeCount>>
<1>1. StoreInv' /\ UNCHANGED <<ActiveUsers, likeCount>>
  BY QuietStep DEF PipelineInv, Delete, TimePasses, KeyLost, vars
<1>2. Gone \in Counter
  BY DEF Gone, Counter, Missing
<1>3. /\ base' = base \/ base' = Gone
      /\ nextEpoch' = nextEpoch
      /\ UNCHANGED <<req, queue, worker>>
  BY DEF Delete, TimePasses, KeyLost, vars, cacheVars, pipelineVars,
         ExpireJSON, ExpireShard, ExpireCounters, EvictBase, ExpireHash
<1> QED
  BY <1>1, <1>2, <1>3 DEF PipelineInv, PipelineTypes

\* At first the table is empty but for the likes of earlier days.
LEMMA PipelineInit == Init => PipelineInv /\ Facts!Init
<1> SUFFICES ASSUME Init PROVE PipelineInv /\ Facts!Init
  OBVIOUS
<1>1. Gone \in Counter
  BY DEF Gone, Counter, Missing
<1>2. PipelineTypes
  BY <1>1 DEF Init, CacheInit, PipelineTypes, Blank
<1> QED
  BY <1>2, StoreInitLemma DEF Init, PipelineInv

\* Every step of the pipeline keeps the invariant and is a step of ActionFacts
\* or none.
LEMMA PipelineStep ==
    PipelineInv /\ [Next]_vars => PipelineInv' /\ [Facts!Next]_<<ActiveUsers, likeCount>>
BY RequestStep, StartStep, WorkerStep, EnvironmentStep DEF Next

\* Whatever the asynchronous path, its fallback, redeliveries, crashes and
\* lost keys do, the counter of video_stat is the number of active rows.
THEOREM PipelineCountExact == Spec => []CountIsActiveRows
<1>1. Init => PipelineInv
  BY PipelineInit
<1>2. PipelineInv /\ [Next]_vars => PipelineInv'
  BY PipelineStep
<1>3. PipelineInv => CountIsActiveRows
  BY DEF PipelineInv, StoreInv
<1> QED
  BY <1>1, <1>2, <1>3, PTL DEF Spec

\* Likewise the table only ever takes the steps of ActionFacts: a duplicated,
\* delayed or reordered event is a like, an unlike or nothing.
THEOREM PipelineRefinement == Spec => ImplementsFacts
<1>1. Init => PipelineInv /\ Facts!Init
  BY PipelineInit
<1>2. PipelineInv /\ [Next]_vars => PipelineInv' /\ [Facts!Next]_<<ActiveUsers, likeCount>>
  BY PipelineStep
<1> QED
  BY <1>1, <1>2, PTL DEF Spec, ImplementsFacts, Facts!Spec

-----------------------------------------------------------------------------
(* The order of the events.                                                *)

\* The events the broker or the worker still holds.
Pending == {queue[i] : i \in DOMAIN queue} \cup {d.event : d \in {worker} \ {Resting}}

-----------------------------------------------------------------------------
(* The inductive invariant of AppliedInOrder, when clients use a key once. *)

HistoryTypes == sent \subseteq Keys /\ newest \in [Users -> Nat]

\* Nothing is dated in the future.
Dated ==
    /\ \A e \in Pending : e.occurredAt <= clock
    /\ \A u \in Users : rows[u].updatedAt <= clock

\* Every key in the system was sent.
KeysSent ==
    /\ \A e \in Pending : e.key \in sent
    /\ \A u \in Users : rows[u].key \in sent \cup {NoKey}
    /\ \A r \in Requests : InFlight(r) => req[r].key \in sent

\* The key of a running request is nowhere else.
KeyApart ==
    \A r \in Requests : InFlight(r) =>
        /\ \A e \in Pending : e.key # req[r].key
        /\ \A u \in Users : rows[u].key # req[r].key
        /\ \A s \in Requests : InFlight(s) /\ s # r => req[s].key # req[r].key

\* A row that holds the key of a pending event has been updated since.
KeyKnown ==
    \A e \in Pending : e.key = rows[e.user].key => e.occurredAt <= rows[e.user].updatedAt

\* updated_at is never before the newest event written.
Followed == \A u \in Users : newest[u] <= rows[u].updatedAt

\* The event the worker is about to write is not older than those it wrote.
Checked == worker.pc = "apply" => worker.event.occurredAt >= newest[worker.event.user]

OrderInv ==
    /\ PipelineInv /\ HistoryTypes
    /\ Dated /\ KeysSent /\ KeyApart /\ KeyKnown /\ Followed /\ Checked

-----------------------------------------------------------------------------
\* What is pending are events, and the worker's is among them.
LEMMA PendingEvents ==
    ASSUME PipelineTypes
    PROVE  /\ Pending \subseteq Event
           /\ worker # Resting => worker.event \in Pending
<1>1. \A i \in DOMAIN queue : queue[i] \in Event
  BY DEF PipelineTypes
<1>2. worker # Resting => worker.event \in Event
  BY DeliveryShape
<1> QED
  BY <1>1, <1>2 DEF Pending

\* What a queue with an event in the middle holds.
LEMMA MiddleRange ==
    ASSUME NEW a \in Seq(Event), NEW b \in Seq(Event), NEW e \in Event,
           NEW j \in DOMAIN ((a \o <<e>>) \o b)
    PROVE  LET x == ((a \o <<e>>) \o b)[j]
           IN  x = e \/ (\E k \in DOMAIN a : x = a[k]) \/ (\E k \in DOMAIN b : x = b[k])
<1>1. /\ (a \o <<e>>) \in Seq(Event) /\ Len(a \o <<e>>) = Len(a) + 1
      /\ (a \o <<e>>)[Len(a) + 1] = e
      /\ \A k \in 1..Len(a) : (a \o <<e>>)[k] = a[k]
  OBVIOUS
<1> DEFINE c == a \o <<e>>
<1>2. c \in Seq(Event) /\ Len(c) = Len(a) + 1 /\ c[Len(a) + 1] = e
      /\ \A k \in 1..Len(a) : c[k] = a[k]
  BY <1>1
<1> HIDE DEF c
<1>3. /\ j \in 1..(Len(c) + Len(b))
      /\ j <= Len(c) => (c \o b)[j] = c[j]
      /\ j > Len(c) => (c \o b)[j] = b[j - Len(c)]
  BY <1>2 DEF c
<1>4. CASE j > Len(c)
  <2>1. j - Len(c) \in DOMAIN b
    BY <1>2, <1>3, <1>4
  <2> QED
    BY <1>3, <1>4, <2>1 DEF c
<1>5. CASE j <= Len(c)
  <2>1. c[j] = e \/ \E k \in DOMAIN a : c[j] = a[k]
    BY <1>2, <1>3, <1>5
  <2> QED
    BY <1>3, <1>5, <2>1 DEF c
<1> QED
  BY <1>2, <1>3, <1>4, <1>5

\* An event put back into a queue adds no other.
LEMMA InsertRange ==
    ASSUME NEW q \in Seq(Event), NEW i \in 1..(Len(q) + 1), NEW e \in Event,
           NEW j \in DOMAIN InsertAt(q, i, e)
    PROVE  InsertAt(q, i, e)[j] = e \/ \E k \in DOMAIN q : InsertAt(q, i, e)[j] = q[k]
<1> DEFINE a == SubSeq(q, 1, i - 1)
           b == SubSeq(q, i, Len(q))
           x == InsertAt(q, i, e)[j]
<1>1. /\ a \in Seq(Event)
      /\ \A k \in DOMAIN a : a[k] = q[k] /\ k \in DOMAIN q
  OBVIOUS
<1>2. /\ b \in Seq(Event)
      /\ \A k \in DOMAIN b : b[k] = q[i + k - 1] /\ i + k - 1 \in DOMAIN q
  OBVIOUS
<1>3. x = e \/ (\E k \in DOMAIN a : x = a[k]) \/ (\E k \in DOMAIN b : x = b[k])
  <2>1. InsertAt(q, i, e) = (a \o <<e>>) \o b
    BY DEF InsertAt
  <2> HIDE DEF a, b
  <2> QED
    BY <1>1, <1>2, <2>1, MiddleRange
<1> HIDE DEF a, b
<1> QED
  BY <1>1, <1>2, <1>3

\* A step of the worker that writes nothing only forgets events.
LEMMA WorkerPending ==
    ASSUME PipelineTypes, Deliver \/ Lookup \/ LookupFails \/ Ack \/ Requeue
    PROVE  Pending' \subseteq Pending
<1>1. CASE Deliver
  <2>1. worker' = [pc |-> "lookup", event |-> Head(queue)] /\ queue' = Tail(queue) /\ queue # <<>>
    BY <1>1 DEF Deliver
  <2>2. Head(queue) \in {queue[i] : i \in DOMAIN queue}
    BY <2>1 DEF PipelineTypes
  <2>3. \A i \in DOMAIN Tail(queue) : Tail(queue)[i] \in {queue[k] : k \in DOMAIN queue}
    BY <2>1 DEF PipelineTypes
  <2> QED
    BY <2>1, <2>2, <2>3 DEF Pending
<1>2. CASE Lookup \/ LookupFails
  <2>1. worker # Resting /\ queue' = queue
    BY <1>2 DEF Lookup, LookupFails, Resting
  <2>2. worker' = Resting \/ worker' = [worker EXCEPT !.pc = "apply"]
    BY <1>2 DEF Lookup, LookupFails
  <2>3. worker' = Resting \/ worker'.event = worker.event
    BY <2>1, <2>2, DeliveryShape DEF Delivery
  <2> QED
    BY <2>1, <2>3 DEF Pending
<1>3. CASE Ack
  BY <1>3 DEF Ack, Pending
<1>4. CASE Requeue
  <2>1. worker # Resting /\ worker' = Resting /\ queue' \in Requeued(worker.event)
    BY <1>4 DEF Requeue, Resting
  <2>2. worker.event \in Event
    BY <2>1, DeliveryShape
  <2>3. PICK i \in 1..(Len(queue) + 1) : queue' = InsertAt(queue, i, worker.event)
    BY <2>1 DEF Requeued
  <2>4. \A j \in DOMAIN queue' : queue'[j] = worker.event \/ \E k \in DOMAIN queue : queue'[j] = queue[k]
    BY <2>2, <2>3, InsertRange DEF PipelineTypes
  <2> QED
    BY <2>1, <2>4 DEF Pending
<1> QED
  BY <1>1, <1>2, <1>3, <1>4
-----------------------------------------------------------------------------
(* The steps, by what they touch.                                          *)

\* The parts of the invariant that speak of keys and times.
OrderFacts == HistoryTypes /\ Dated /\ KeysSent /\ KeyApart /\ KeyKnown /\ Followed

\* A step that writes no row, sends no key and adds no event keeps them.
LEMMA QuietOrder ==
    ASSUME OrderInv, Pending' \subseteq Pending,
           UNCHANGED <<rows, sent, newest>>, clock' \in Nat, clock' >= clock,
           \A r \in Requests : InFlight(r)' => InFlight(r) /\ req'[r].key = req[r].key
    PROVE  OrderFacts'
<1> USE DEF OrderInv
<1>1. HistoryTypes' /\ Followed'
  BY DEF HistoryTypes, Followed
<1>2. Dated'
  <2>1. \A e \in Pending : e.occurredAt \in Nat
    BY PendingEvents DEF PipelineInv, Event
  <2>2. clock \in Nat /\ \A u \in Users : rows[u].updatedAt \in Nat
    BY DEF PipelineInv, StoreInv, StoreTypeOK, Row
  <2> QED
    BY <2>1, <2>2 DEF Dated
<1>3. KeysSent'
  BY DEF KeysSent
<1>4. KeyApart'
  BY DEF KeyApart
<1>5. KeyKnown'
  BY DEF KeyKnown
<1> QED
  BY <1>1, <1>2, <1>3, <1>4, <1>5 DEF OrderFacts

\* A request keeps its key to the end.
LEMMA RequestKeys ==
    ASSUME PipelineTypes, NEW r \in Requests, Request(r) \/ Abandon(r)
    PROVE  /\ InFlight(r) /\ req[r] \in Handler
           /\ \A s \in Requests : InFlight(s)' => InFlight(s) /\ req'[s].key = req[s].key
<1>1. InFlight(r) /\ req[r] \in Handler
  <2>1. CASE Abandon(r)
    BY <2>1 DEF Abandon, InFlight, PipelineTypes
  <2>2. CASE Request(r)
    <3>1. req[r].pc \in {"script", "base", "shards", "publish", "sync"}
      BY <2>2 DEF Request, RunScript, ReadBase, ReadShards, Publish, FallBack, WriteSync, WriteSyncFails
    <3> QED
      BY <3>1, HandlerShape DEF InFlight, Idle, Done
  <2> QED
    BY <2>1, <2>2
<1>2. PICK q : /\ req' = [req EXCEPT ![r] = q]
               /\ q = Done \/ q.key = req[r].key
  <2>1. CASE RunScript(r)
    <3> DEFINE q == [req[r] EXCEPT !.pc = "base",
                          !.delta = ScriptDelta(hash[req[r].user], req[r].active, req[r].key)]
    <3>1. req' = [req EXCEPT ![r] = q] /\ q.key = req[r].key
      BY <1>1, <2>1 DEF RunScript, Handler
    <3> QED
      BY <3>1
  <2>2. CASE ReadBase(r)
    <3> DEFINE q == [req[r] EXCEPT !.pc = "shards", !.base = base]
    <3>1. req' = [req EXCEPT ![r] = q] /\ q.key = req[r].key
      BY <1>1, <2>2 DEF ReadBase, Handler
    <3> QED
      BY <3>1
  <2>3. ASSUME NEW pc, Goto(r, pc)
        PROVE  \E q : req' = [req EXCEPT ![r] = q] /\ (q = Done \/ q.key = req[r].key)
    <3> DEFINE q == [req[r] EXCEPT !.pc = pc]
    <3>1. req' = [req EXCEPT ![r] = q] /\ q.key = req[r].key
      BY <1>1, <2>3 DEF Goto, Handler
    <3> QED
      BY <3>1
  <2>4. ASSUME NEW result, Return(r, result)
        PROVE  \E q : req' = [req EXCEPT ![r] = q] /\ (q = Done \/ q.key = req[r].key)
    BY <2>4 DEF Return
  <2>5. CASE ReadShards(r) \/ Publish(r) \/ FallBack(r) \/ WriteSync(r) \/ WriteSyncFails(r) \/ Abandon(r)
    BY <2>3, <2>4, <2>5 DEF ReadShards, Publish, FallBack, WriteSync, WriteSyncFails, Abandon
  <2> QED
    BY <2>1, <2>2, <2>5 DEF Request
<1>3. \A s \in Requests : req'[s] = IF s = r THEN q ELSE req[s]
  BY <1>2 DEF PipelineTypes
<1> QED
  BY <1>1, <1>2, <1>3 DEF InFlight

\* SetAction leaves the key it was called with in the row; a row that changes
\* gets the time of the write.
LEMMA RowWritten ==
    ASSUME StoreInv, NEW u \in Users, NEW active \in BOOLEAN, NEW key \in Keys \cup {NoKey},
           SetAction(u, active, key)
    PROVE  /\ rows'[u].key = key
           /\ rows'[u] = rows[u] \/ rows'[u].updatedAt = clock
           /\ \A v \in Users : v # u => rows'[v] = rows[v]
           /\ clock' = clock
<1>1. /\ rows' = [rows EXCEPT ![u] = RowAfter(rows[u], active, key, clock)]
      /\ clock' = clock
  BY DEF SetAction
<1>2. /\ rows'[u] = RowAfter(rows[u], active, key, clock)
      /\ \A v \in Users : v # u => rows'[v] = rows[v]
  BY <1>1 DEF StoreInv, StoreTypeOK
<1>3. CASE Saved(rows[u], active, key)
  BY <1>1, <1>2, <1>3 DEF RowAfter
<1>4. CASE ~Saved(rows[u], active, key)
  BY <1>1, <1>2, <1>4 DEF RowAfter, Saved, Replayed
<1> QED
  BY <1>3, <1>4

-----------------------------------------------------------------------------
(* The steps that send a key, add an event or write a row.                 *)

\* A request starts with a key nobody has used.
LEMMA StartOrder ==
    ASSUME OrderInv, KeyUse = "fresh", NEW r \in Requests, NEW u \in Users,
           NEW active \in BOOLEAN, NEW key \in KeysFor(active, sent), Start(r, u, active, key)
    PROVE  OrderFacts' /\ Checked'
<1> USE DEF OrderInv
<1>1. key \in Keys /\ key \notin sent /\ key # NoKey /\ sent' = sent \cup {key}
  BY KeysAssumption DEF KeysFor, Start
<1>2. /\ UNCHANGED <<rows, clock, queue, worker, newest>>
      /\ Pending' = Pending
  BY DEF Start, storeVars, Pending
<1>3. /\ InFlight(r)' => req'[r].key = key
      /\ \A s \in Requests : s # r => req'[s] = req[s]
  BY DEF Start, InFlight, PipelineInv, PipelineTypes, Done
<1>4. HistoryTypes' /\ Dated' /\ KeyKnown' /\ Followed' /\ Checked'
  BY <1>1, <1>2 DEF HistoryTypes, Dated, KeyKnown, Followed, Checked
<1>5. KeysSent'
  BY <1>1, <1>2, <1>3 DEF KeysSent, InFlight
<1>6. KeyApart'
  <2>1. /\ \A e \in Pending : e.key # key
        /\ \A v \in Users : rows[v].key # key
        /\ \A s \in Requests : InFlight(s) => req[s].key # key
    BY <1>1 DEF KeysSent
  <2> QED
    BY <1>2, <1>3, <2>1 DEF KeyApart, InFlight
<1> QED
  BY <1>4, <1>5, <1>6 DEF OrderFacts

\* The event of a request carries its key on, dated now.
LEMMA PublishOrder ==
    ASSUME OrderInv, NEW r \in Requests, Publish(r)
    PROVE  OrderFacts' /\ Checked'
<1> USE DEF OrderInv
<1> DEFINE e == EventOf(req[r])
<1>1. /\ InFlight(r) /\ req[r] \in Handler
      /\ \A s \in Requests : InFlight(s)' => InFlight(s) /\ req'[s].key = req[s].key
  BY RequestKeys DEF Request, PipelineInv
<1>2. ~InFlight(r)'
  BY DEF Publish, Return, InFlight, PipelineInv, PipelineTypes
<1>3. UNCHANGED <<rows, clock, worker, newest, sent>>
  BY DEF Publish, storeVars, historyVars
<1>4. e \in Event /\ e.key = req[r].key /\ e.occurredAt = clock
  BY <1>1 DEF EventOf, Event, Handler, PipelineInv, StoreInv, StoreTypeOK
<1>5. Pending' \subseteq Pending \cup {e}
  <2>1. \A i \in DOMAIN queue' : queue'[i] = e \/ \E k \in DOMAIN queue : queue'[i] = queue[k]
    BY <1>4 DEF Publish, PipelineInv, PipelineTypes
  <2> HIDE DEF e
  <2> QED
    BY <1>3, <2>1 DEF Pending
<1>6. clock \in Nat
  BY DEF PipelineInv, StoreInv, StoreTypeOK
<1> HIDE DEF e
<1>7. HistoryTypes' /\ Followed' /\ Checked'
  BY <1>3 DEF HistoryTypes, Followed, Checked
<1>8. Dated'
  BY <1>3, <1>4, <1>5, <1>6 DEF Dated
<1>9. KeysSent'
  BY <1>1, <1>3, <1>4, <1>5 DEF KeysSent
<1>10. KeyApart'
  <2>1. \A s \in Requests : InFlight(s)' => s # r /\ InFlight(s) /\ req'[s].key = req[s].key
    BY <1>1, <1>2
  <2>2. \A s \in Requests : InFlight(s)' => e.key # req[s].key
    BY <1>1, <1>4, <2>1 DEF KeyApart
  <2> QED
    BY <1>3, <1>5, <2>1, <2>2 DEF KeyApart
<1>11. KeyKnown'
  <2>1. e.key # rows[e.user].key
    BY <1>1, <1>4 DEF KeyApart, Event
  <2> QED
    BY <1>3, <1>5, <2>1 DEF KeyKnown
<1> QED
  BY <1>7, <1>8, <1>9, <1>10, <1>11 DEF OrderFacts

\* A fallback writes a key no pending event has.
LEMMA WriteSyncOrder ==
    ASSUME OrderInv, NEW r \in Requests, WriteSync(r)
    PROVE  OrderFacts' /\ Checked'
<1> USE DEF OrderInv
<1> DEFINE q == req[r]
<1>1. /\ InFlight(r) /\ q \in Handler
      /\ \A s \in Requests : InFlight(s)' => InFlight(s) /\ req'[s].key = req[s].key
  BY RequestKeys DEF Request, PipelineInv
<1>2. ~InFlight(r)'
  BY DEF WriteSync, Return, InFlight, PipelineInv, PipelineTypes
<1>3. UNCHANGED <<queue, worker, newest, sent>> /\ Pending' = Pending
  BY DEF WriteSync, historyVars, Pending
<1>4. /\ q.user \in Users /\ q.active \in BOOLEAN /\ q.key \in Keys \cup {NoKey}
      /\ SetAction(q.user, q.active, q.key)
  BY <1>1 DEF WriteSync, Handler
<1>5. /\ rows'[q.user].key = q.key
      /\ rows'[q.user] = rows[q.user] \/ rows'[q.user].updatedAt = clock
      /\ \A v \in Users : v # q.user => rows'[v] = rows[v]
      /\ clock' = clock
  BY <1>4, RowWritten DEF PipelineInv
<1>6. /\ clock \in Nat /\ \A v \in Users : rows[v].updatedAt \in Nat
      /\ newest \in [Users -> Nat]
  BY DEF PipelineInv, StoreInv, StoreTypeOK, Row, HistoryTypes
<1> HIDE DEF q
<1>7. HistoryTypes' /\ Checked'
  BY <1>3 DEF HistoryTypes, Checked
<1>8. Dated'
  BY <1>3, <1>4, <1>5, <1>6 DEF Dated
<1>9. Followed'
  BY <1>3, <1>4, <1>5, <1>6 DEF Followed, Dated
<1>10. KeysSent'
  <2>1. q.key \in sent
    BY <1>1 DEF KeysSent, q
  <2> QED
    BY <1>1, <1>3, <1>5, <2>1 DEF KeysSent
<1>11. KeyApart'
  <2>1. \A s \in Requests : InFlight(s)' => s # r /\ InFlight(s) /\ req'[s].key = req[s].key
    BY <1>1, <1>2
  <2>2. \A s \in Requests : InFlight(s)' => q.key # req[s].key
    BY <1>1, <2>1 DEF KeyApart, q
  <2> QED
    BY <1>3, <1>4, <1>5, <2>1, <2>2 DEF KeyApart
<1>12. KeyKnown'
  <2>1. \A e \in Pending : e.key # q.key
    BY <1>1 DEF KeyApart, q
  <2>2. \A e \in Pending : e.user \in Users
    BY PendingEvents DEF PipelineInv, Event
  <2> QED
    BY <1>3, <1>5, <2>1, <2>2 DEF KeyKnown
<1> QED
  BY <1>7, <1>8, <1>9, <1>10, <1>11, <1>12 DEF OrderFacts

\* The worker writes an event it holds, dated before now.
LEMMA ApplyOrder ==
    ASSUME OrderInv, Apply
    PROVE  OrderFacts' /\ Checked'
<1> USE DEF OrderInv
<1> DEFINE e == worker.event
<1>1. worker # Resting /\ worker \in Delivery /\ e \in Event /\ e \in Pending
  BY DeliveryShape, PendingEvents DEF Apply, Resting, PipelineInv
<1>2. /\ UNCHANGED <<queue, req, sent>>
      /\ newest' = [newest EXCEPT ![e.user] = IF e.occurredAt > @ THEN e.occurredAt ELSE @]
      /\ worker' = [worker EXCEPT !.pc = "ack"]
  BY DEF Apply
<1>3. Pending' \subseteq Pending
  <2>1. worker'.event = e
    BY <1>1, <1>2 DEF Delivery
  <2> QED
    BY <1>1, <1>2, <2>1 DEF Pending
<1>4. /\ e.user \in Users /\ e.active \in BOOLEAN /\ e.key \in Keys \cup {NoKey}
      /\ e.occurredAt \in Nat
      /\ SetAction(e.user, e.active, e.key)
  BY <1>1 DEF Apply, Event
<1>5. /\ rows'[e.user].key = e.key
      /\ rows'[e.user] = rows[e.user] \/ rows'[e.user].updatedAt = clock
      /\ \A v \in Users : v # e.user => rows'[v] = rows[v]
      /\ clock' = clock
  BY <1>4, RowWritten DEF PipelineInv
<1>6. /\ clock \in Nat /\ \A v \in Users : rows[v].updatedAt \in Nat
      /\ newest \in [Users -> Nat]
  BY DEF PipelineInv, StoreInv, StoreTypeOK, Row, HistoryTypes
<1>7. /\ e.occurredAt <= clock
      /\ rows'[e.user] = rows[e.user] => e.occurredAt <= rows[e.user].updatedAt
  BY <1>1, <1>5 DEF Dated, KeyKnown
<1>8. worker'.pc = "ack"
  BY <1>1, <1>2 DEF Delivery
<1> HIDE DEF e
<1>9. /\ newest' \in [Users -> Nat]
      /\ newest'[e.user] = (IF e.occurredAt > newest[e.user] THEN e.occurredAt ELSE newest[e.user])
      /\ \A v \in Users : v # e.user => newest'[v] = newest[v]
  BY <1>2, <1>4, <1>6
<1>10. HistoryTypes' /\ Checked'
  BY <1>2, <1>8, <1>9 DEF HistoryTypes, Checked
<1>11. Dated'
  BY <1>3, <1>4, <1>5, <1>6 DEF Dated
<1>12. Followed'
  <2>1. newest[e.user] <= rows[e.user].updatedAt /\ rows[e.user].updatedAt <= clock
    BY <1>4 DEF Followed, Dated
  <2>2. newest'[e.user] <= rows'[e.user].updatedAt
    BY <1>4, <1>5, <1>6, <1>7, <1>9, <2>1
  <2> QED
    BY <1>5, <1>9, <2>2 DEF Followed
<1>13. KeysSent'
  BY <1>1, <1>2, <1>3, <1>5 DEF KeysSent, InFlight
<1>14. KeyApart'
  BY <1>1, <1>2, <1>3, <1>5 DEF KeyApart, InFlight
<1>15. KeyKnown'
  <2>1. \A d \in Pending : d.occurredAt <= clock
    BY DEF Dated
  <2>2. \A d \in Pending : d.user \in Users
    BY PendingEvents DEF PipelineInv, Event
  <2> QED
    BY <1>3, <1>5, <2>1, <2>2 DEF KeyKnown
<1> QED
  BY <1>10, <1>11, <1>12, <1>13, <1>14, <1>15 DEF OrderFacts

-----------------------------------------------------------------------------
(* The other steps write no row and publish nothing.                       *)

\* A request between its start and its event.
LEMMA QuietRequestOrder ==
    ASSUME OrderInv, NEW r \in Requests,
           \/ RunScript(r) \/ ReadBase(r) \/ ReadShards(r)
           \/ FallBack(r) \/ WriteSyncFails(r) \/ Abandon(r)
    PROVE  OrderFacts' /\ Checked'
<1>1. UNCHANGED <<rows, clock, queue, worker, sent, newest>>
  BY DEF RunScript, ReadBase, ReadShards, FallBack, WriteSyncFails, Abandon, storeVars, historyVars
<1>2. \A s \in Requests : InFlight(s)' => InFlight(s) /\ req'[s].key = req[s].key
  BY RequestKeys DEF Request, OrderInv, PipelineInv
<1>3. Pending' = Pending
  BY <1>1 DEF Pending
<1>4. clock \in Nat
  BY DEF OrderInv, PipelineInv, StoreInv, StoreTypeOK
<1>5. OrderFacts'
  BY <1>1, <1>2, <1>3, <1>4, QuietOrder
<1>6. Checked'
  BY <1>1 DEF Checked, OrderInv
<1> QED
  BY <1>5, <1>6

\* The worker takes an event, checks it, drops it or hands it back.  One that
\* passes the check is newer than its row, so newer than what was written.
LEMMA QuietWorkerOrder ==
    ASSUME OrderInv, Deliver \/ Lookup \/ Ack \/ Requeue
    PROVE  OrderFacts' /\ Checked'
<1> USE DEF OrderInv
<1>1. UNCHANGED <<rows, clock, req, sent, newest>>
  BY DEF Deliver, Lookup, Ack, Requeue, storeVars, historyVars
<1>2. Pending' \subseteq Pending
  BY WorkerPending DEF PipelineInv
<1>3. clock \in Nat
  BY DEF PipelineInv, StoreInv, StoreTypeOK
<1>4. \A s \in Requests : InFlight(s)' => InFlight(s) /\ req'[s].key = req[s].key
  BY <1>1 DEF InFlight
<1>5. OrderFacts'
  BY <1>1, <1>2, <1>3, <1>4, QuietOrder
<1>6. Checked'
  <2>1. CASE Deliver \/ Ack \/ Requeue
    <3>1. worker' = Resting \/ worker'.pc = "lookup"
      BY <2>1 DEF Deliver, Ack, Requeue
    <3> QED
      BY <3>1 DEF Checked, Resting
  <2>2. CASE Lookup
    <3> DEFINE e == worker.event
    <3>1. worker \in Delivery /\ e \in Event
      BY <2>2, DeliveryShape DEF Lookup, Resting, PipelineInv
    <3>2. CASE Stale(e)
      BY <2>2, <3>2 DEF Lookup, Checked, Resting
    <3>3. CASE ~Stale(e)
      <4>1. worker'.event = e
        BY <2>2, <3>1, <3>3 DEF Lookup, Delivery
      <4>2. /\ e.user \in Users /\ e.occurredAt \in Nat
            /\ newest[e.user] \in Nat /\ rows[e.user].updatedAt \in Nat
        BY <3>1 DEF Event, HistoryTypes, PipelineInv, StoreInv, StoreTypeOK, Row
      <4>3. newest[e.user] <= rows[e.user].updatedAt
        BY <4>2 DEF Followed
      <4>4. rows[e.user] = NoRow \/ e.occurredAt > rows[e.user].updatedAt
        BY <3>3, <4>2 DEF Stale
      <4>5. e.occurredAt >= newest[e.user]
        BY <4>2, <4>3, <4>4 DEF NoRow
      <4> QED
        BY <1>1, <4>1, <4>5 DEF Checked
    <3> QED
      BY <3>2, <3>3
  <2> QED
    BY <2>1, <2>2
<1> QED
  BY <1>5, <1>6

\* The video is deleted, time passes, Redis loses a key.
LEMMA EnvironmentOrder ==
    ASSUME OrderInv, Delete \/ TimePasses \/ KeyLost \/ UNCHANGED vars
    PROVE  OrderFacts' /\ Checked'
<1>1. UNCHANGED <<rows, queue, worker, req, sent, newest>>
  BY DEF Delete, TimePasses, KeyLost, Unpublish, Tick, vars, storeVars, pipelineVars, historyVars
<1>2. clock \in Nat
  BY DEF OrderInv, PipelineInv, StoreInv, StoreTypeOK
<1>3. clock' = clock \/ clock' = clock + 1
  BY DEF Delete, TimePasses, KeyLost, Unpublish, Tick, vars, storeVars
<1>4. Pending' = Pending
  BY <1>1 DEF Pending
<1>5. \A s \in Requests : InFlight(s)' => InFlight(s) /\ req'[s].key = req[s].key
  BY <1>1 DEF InFlight
<1>6. clock' \in Nat /\ clock' >= clock
  BY <1>2, <1>3
<1>7. OrderFacts'
  BY <1>1, <1>4, <1>5, <1>6, QuietOrder
<1>8. Checked'
  BY <1>1 DEF Checked, OrderInv
<1> QED
  BY <1>7, <1>8

\* At first nothing was sent, and the rows of earlier days have no key.
LEMMA OrderInit == Init => OrderInv
<1> SUFFICES ASSUME Init PROVE OrderInv
  OBVIOUS
<1>1. PipelineInv
  BY PipelineInit
<1>2. Pending = {}
  BY DEF Init, Pending
<1>3. /\ \A u \in Users : rows[u].key = NoKey /\ rows[u].updatedAt = 0 /\ newest[u] = 0
      /\ clock = 1 /\ sent = {} /\ worker = Resting
      /\ newest \in [Users -> Nat]
      /\ \A r \in Requests : ~InFlight(r)
  BY DEF Init, StoreInit, NoRow, InFlight
<1>4. HistoryTypes /\ Dated /\ KeysSent /\ KeyApart /\ KeyKnown /\ Followed
  BY <1>2, <1>3 DEF HistoryTypes, Dated, KeysSent, KeyApart, KeyKnown, Followed
<1>5. Checked
  BY <1>3 DEF Checked, Resting
<1> QED
  BY <1>1, <1>4, <1>5 DEF OrderInv

-----------------------------------------------------------------------------
\* The worker's stale check keeps the events of a user in order, although a
\* Nack or a dead worker puts an event back at any place of the queue and
\* fallbacks write beside it: it never writes an event after one that occurred
\* later.  Two things are assumed: a client never uses an idempotency key twice
\* (the web client draws one per operation), and GetLastActionUpdateTime answers.
THEOREM EventsInOrder ==
    ASSUME KeyUse = "fresh", "lookup" \notin Faults
    PROVE  Spec => AppliedInOrder
<1>1. Init => OrderInv
  BY OrderInit
<1>2. OrderInv /\ [Next]_vars => OrderInv'
  <2> SUFFICES ASSUME OrderInv, [Next]_vars PROVE OrderInv'
    OBVIOUS
  <2>1. PipelineInv'
    BY PipelineStep DEF OrderInv
  <2>2. OrderFacts' /\ Checked'
    <3>1. ASSUME NEW r \in Requests, NEW u \in Users, NEW active \in BOOLEAN,
                 NEW key \in KeysFor(active, sent), Start(r, u, active, key)
          PROVE  OrderFacts' /\ Checked'
      BY <3>1, StartOrder
    <3>2. ASSUME NEW r \in Requests, Request(r) \/ Abandon(r)
          PROVE  OrderFacts' /\ Checked'
      BY <3>2, QuietRequestOrder, PublishOrder, WriteSyncOrder DEF Request
    <3>3. CASE Worker
      <4>1. ~LookupFails
        BY DEF LookupFails
      <4> QED
        BY <3>3, <4>1, QuietWorkerOrder, ApplyOrder DEF Worker
    <3>4. CASE Delete \/ TimePasses \/ KeyLost \/ UNCHANGED vars
      BY <3>4, EnvironmentOrder
    <3> QED
      BY <3>1, <3>2, <3>3, <3>4 DEF Next
  <2> QED
    BY <2>1, <2>2 DEF OrderInv, OrderFacts
<1>3. OrderInv => (Applies => worker.event.occurredAt >= newest[worker.event.user])
  BY DEF OrderInv, Checked, Applies
<1> QED
  BY <1>1, <1>2, <1>3, PTL DEF Spec, AppliedInOrder

-----------------------------------------------------------------------------
(* What may overtake the worker between its lookup and its write.          *)

\* Rows that no transaction of this step writes are as stale as before.
LEMMA OvertakenKept ==
    ASSUME UNCHANGED <<rows, worker>>
    PROVE  Overtaken' => Overtaken
BY DEF Overtaken, Stale

\* Requests: of them only the fallback of the event's own user.
LEMMA OvertakenByRequest ==
    ASSUME PipelineInv, NEW r \in Requests, Request(r) \/ Abandon(r), ~Overtaken, Overtaken'
    PROVE  WriteSync(r) /\ req[r].user = worker.event.user
<1>1. UNCHANGED worker
  BY DEF Request, RunScript, ReadBase, ReadShards, Publish, FallBack, WriteSync, WriteSyncFails, Abandon
<1>2. WriteSync(r)
  <2>1. WriteSync(r) \/ UNCHANGED rows
    BY DEF Request, RunScript, ReadBase, ReadShards, Publish, FallBack, WriteSyncFails, Abandon, storeVars
  <2> QED
    BY <1>1, <2>1, OvertakenKept
<1>3. PICK u \in Users, active \in BOOLEAN, key \in Keys \cup {NoKey} :
         u = req[r].user /\ active = req[r].active /\ key = req[r].key
  BY RequestKeys DEF PipelineInv, Handler
<1>4. \A v \in Users : v # u => rows'[v] = rows[v]
  <2>1. SetAction(u, active, key)
    BY <1>2, <1>3 DEF WriteSync
  <2> QED
    BY <2>1, RowWritten DEF PipelineInv
<1>5. worker.event.user \in Users
  <2>1. worker # Resting
    BY <1>1 DEF Overtaken, Resting
  <2> QED
    BY <2>1, DeliveryShape DEF PipelineInv, Event
<1>6. CASE worker.event.user # u
  <2>1. rows'[worker.event.user] = rows[worker.event.user]
    BY <1>4, <1>5, <1>6
  <2>2. Overtaken
    BY <1>1, <2>1 DEF Overtaken, Stale
  <2> QED
    BY <2>2
<1> QED
  BY <1>2, <1>3, <1>6

\* The worker: only a lookup that fails lets a stale event through.
LEMMA OvertakenByWorker ==
    ASSUME PipelineInv, Worker, ~Overtaken, Overtaken'
    PROVE  LookupFails
<1>1. CASE Deliver \/ Ack \/ Requeue
  <2>1. worker' = Resting \/ worker'.pc = "lookup"
    BY <1>1 DEF Deliver, Ack, Requeue
  <2> QED
    BY <2>1 DEF Overtaken, Resting
<1>2. CASE Apply
  <2>1. worker \in Delivery
    BY <1>2, DeliveryShape DEF Apply, Resting, PipelineInv
  <2>2. worker'.pc = "ack"
    BY <1>2, <2>1 DEF Apply, Delivery
  <2> QED
    BY <2>2 DEF Overtaken
<1>3. CASE Lookup
  <2>1. worker \in Delivery /\ UNCHANGED rows
    BY <1>3, DeliveryShape DEF Lookup, Resting, PipelineInv, storeVars
  <2>2. CASE Stale(worker.event)
    <3>1. worker' = Resting
      BY <1>3, <2>2 DEF Lookup
    <3> QED
      BY <3>1 DEF Overtaken, Resting
  <2>3. CASE ~Stale(worker.event)
    <3>1. worker'.event = worker.event
      BY <1>3, <2>1, <2>3 DEF Lookup, Delivery
    <3>2. Stale(worker.event)
      BY <2>1, <3>1 DEF Overtaken, Stale
    <3> QED
      BY <2>3, <3>2
  <2> QED
    BY <2>2, <2>3
<1> QED
  BY <1>1, <1>2, <1>3 DEF Worker

\* Whatever fails, is lost or delivered again: the worker comes to write an
\* event over a row updated at or after it only where the lookup failed, or
\* where a request of the very user fell back to MySQL after the lookup.
THEOREM OvertakenTwoWays == Spec => OvertakenOnlyBy
<1>1. Init => PipelineInv
  BY PipelineInit
<1>2. PipelineInv /\ [Next]_vars => PipelineInv'
  BY PipelineStep
<1>3. PipelineInv /\ [Next]_vars =>
         (~Overtaken /\ Overtaken' =>
             \/ LookupFails
             \/ \E r \in Requests : WriteSync(r) /\ req[r].user = worker.event.user)
  <2> SUFFICES ASSUME PipelineInv, [Next]_vars, ~Overtaken, Overtaken'
               PROVE  \/ LookupFails
                      \/ \E r \in Requests : WriteSync(r) /\ req[r].user = worker.event.user
    OBVIOUS
  <2>1. ASSUME NEW r \in Requests, NEW u \in Users, NEW active \in BOOLEAN,
               NEW key \in KeysFor(active, sent), Start(r, u, active, key)
        PROVE  FALSE
    <3>1. UNCHANGED <<rows, worker>>
      BY <2>1 DEF Start, storeVars
    <3> QED
      BY <3>1, OvertakenKept
  <2>2. CASE Delete \/ TimePasses \/ KeyLost \/ UNCHANGED vars
    <3>1. UNCHANGED <<rows, worker>>
      BY <2>2 DEF Delete, TimePasses, KeyLost, Unpublish, Tick, vars, storeVars, pipelineVars
    <3> QED
      BY <3>1, OvertakenKept
  <2> QED
    BY <2>1, <2>2, OvertakenByRequest, OvertakenByWorker DEF Next
<1> QED
  BY <1>1, <1>2, <1>3, PTL DEF Spec, OvertakenOnlyBy

-----------------------------------------------------------------------------
(* Types.                                                                  *)

LedgerTypes ==
    /\ hotScore \in [Users -> Int] /\ missed \in [Users -> Int]
    /\ disturbed \subseteq Users /\ askew \in BOOLEAN

\* The rest of TypeOK, with epochs that are those handed out.
SideTypes ==
    /\ hash \in [Users -> Hash]
    /\ CacheEpochs
    /\ json \in Counter
    /\ lastShard \in Shards
    /\ answer \in [Users -> {"none", "ok", "error"}]
    /\ notified \subseteq Users
    /\ HistoryTypes
    /\ LedgerTypes

TypeInv == PipelineInv /\ SideTypes

\* What the caches hold keeps its type through the script.
LEMMA ScriptTypes ==
    ASSUME CacheEpochs, hash \in [Users -> Hash], NEW u \in Users, NEW active \in BOOLEAN,
           NEW key \in Keys \cup {NoKey}, NEW initial \in Nat, Script(u, active, key, initial)
    PROVE  hash' \in [Users -> Hash] /\ CacheEpochs' /\ lastShard' \in Shards /\ json' = json
<1>1. CacheEpochs'
  BY ScriptTotal
<1>2. lastShard' \in Shards /\ json' = json
  BY CacheAssumption DEF Script
<1>3. hash[u] \in Hash /\ hash[u].status \in Statuses
  BY DEF Hash
<1>4. ScriptStatus(hash[u], active, key) \in Statuses
  BY <1>3 DEF ScriptStatus, StatusOf, Statuses
<1> DEFINE h == [status |-> ScriptStatus(hash[u], active, key), key |-> key]
<1>5. h \in Hash
  BY <1>4 DEF Hash
<1>6. hash' = [hash EXCEPT ![u] = h]
  BY DEF Script
<1> HIDE DEF h
<1>7. hash' \in [Users -> Hash]
  BY <1>5, <1>6
<1> QED
  BY <1>1, <1>2, <1>7

\* A read of the counters yields a number.
LEMMA CountType ==
    ASSUME CacheEpochs, NEW b \in Counter
    PROVE  CountOver(b, shards) \in Nat
<1> DEFINE M == Matching(b, shards)
<1>1. IsFiniteSet(M) /\ \A s \in M : shards[s].count \in Int
  BY CacheAssumption, FS_Subset DEF Matching, CacheEpochs, Counter
<1> HIDE DEF M
<1>2. ShardSum(shards, M) \in Int /\ b.count \in Int
  BY <1>1, SumType DEF Counter
<1>3. b.count + ShardSum(shards, M) \in Int
  BY <1>2
<1> QED
  BY <1>3 DEF CountOver, Clamp, M

\* A record of a score, and a message to the author.
LEMMA RecordTypes ==
    ASSUME LedgerTypes, notified \subseteq Users,
           NEW u \in Users, NEW active, NEW delta \in {-1, 0, 1},
           Record(u, delta), Notify(u, active, delta)
    PROVE  /\ hotScore' \in [Users -> Int] /\ missed' \in [Users -> Int]
           /\ notified' \subseteq Users
<1>1. hotScore[u] \in Int /\ missed[u] \in Int
  BY DEF LedgerTypes
<1>2. hotScore[u] + delta * 3 \in Int /\ missed[u] + delta \in Int
  BY <1>1
<1>3. hotScore' \in [Users -> Int] /\ missed' \in [Users -> Int]
  BY <1>2 DEF Record, hotScoreLikeWeight, LedgerTypes
<1>4. notified' \subseteq Users
  BY DEF Notify
<1> QED
  BY <1>3, <1>4

\* Whoever is disturbed is a user, and stays disturbed.
LEMMA DisturbedGrows ==
    ASSUME TypeInv, [Next]_vars
    PROVE  disturbed' \subseteq Users /\ disturbed \subseteq disturbed'
<1> USE DEF TypeInv, SideTypes, LedgerTypes, Disturb
<1>1. ASSUME NEW r \in Requests, Request(r) \/ Abandon(r)
      PROVE  disturbed' \subseteq Users /\ disturbed \subseteq disturbed'
  <2>1. req[r].user \in Users
    BY <1>1, RequestKeys DEF PipelineInv, Handler
  <2> QED
    BY <1>1, <2>1 DEF Request, RunScript, ReadBase, ReadShards, Publish, FallBack, WriteSync,
                      WriteSyncFails, Abandon, DisturbUnfinished, historyVars
<1>2. ASSUME NEW r \in Requests, NEW u \in Users, NEW active \in BOOLEAN,
             NEW key \in KeysFor(active, sent), Start(r, u, active, key)
      PROVE  disturbed' \subseteq Users /\ disturbed \subseteq disturbed'
  BY <1>2 DEF Start
<1>3. CASE Worker \/ Delete \/ TimePasses \/ UNCHANGED vars
  BY <1>3 DEF Worker, Deliver, Lookup, LookupFails, Apply, Ack, Requeue, Delete, TimePasses,
              vars, pipelineVars, historyVars
<1>4. CASE KeyLost
  BY <1>4 DEF KeyLost
<1> QED
  BY <1>1, <1>2, <1>3, <1>4 DEF Next

\* A request keeps the types.
LEMMA RequestTypes ==
    ASSUME TypeInv, NEW r \in Requests, Request(r) \/ Abandon(r)
    PROVE  SideTypes'
<1> USE DEF TypeInv
<1> DEFINE q == req[r]
<1>1. /\ q \in Handler /\ q.user \in Users /\ q.active \in BOOLEAN /\ q.key \in Keys \cup {NoKey}
      /\ q.initial \in Nat /\ q.delta \in {-1, 0, 1} /\ q.base \in Counter
  BY RequestKeys DEF PipelineInv, Handler
<1>2. ASSUME NEW result \in {"ok", "error"}, Return(r, result)
      PROVE  answer' \in [Users -> {"none", "ok", "error"}]
  BY <1>1, <1>2 DEF Return, SideTypes
<1>d. disturbed' \subseteq Users
  BY DisturbedGrows DEF Next
<1>3. CASE RunScript(r)
  <2>1. Script(q.user, q.active, q.key, q.initial)
    BY <1>3 DEF RunScript
  <2>2. hash' \in [Users -> Hash] /\ CacheEpochs' /\ lastShard' \in Shards /\ json' = json
    BY <1>1, <2>1, ScriptTypes DEF SideTypes
  <2> QED
    BY <1>3, <2>2 DEF RunScript, SideTypes, sideVars, HistoryTypes, LedgerTypes
<1>4. CASE ReadBase(r) \/ FallBack(r)
  BY <1>4, <1>d DEF ReadBase, FallBack, SideTypes, sideVars, historyVars, HistoryTypes, LedgerTypes,
                    cacheVars, CacheEpochs
<1>5. CASE ReadShards(r)
  <2> DEFINE n == IF q.base.live THEN CountOver(q.base, shards)
                    ELSE IF json.live THEN json.count ELSE q.initial
  <2>1. n \in Int
    BY <1>1, CountType DEF SideTypes, Counter
  <2>2. WriteJSON(n)
    BY <1>5 DEF ReadShards
  <2> HIDE DEF n
  <2>3. json' \in Counter
    <3>1. [live |-> TRUE, count |-> n, epoch |-> Missing] \in Counter
      BY <2>1 DEF Counter, Missing
    <3>2. json' = json \/ json' = [live |-> TRUE, count |-> n, epoch |-> Missing]
      BY <2>2 DEF WriteJSON
    <3> QED
      BY <1>1, <3>1, <3>2 DEF SideTypes
  <2>4. answer' \in [Users -> {"none", "ok", "error"}]
    BY <1>2, <1>5 DEF ReadShards, SideTypes
  <2> QED
    BY <1>5, <2>3, <2>4 DEF ReadShards, SideTypes, sideVars, historyVars, HistoryTypes, LedgerTypes,
                            CacheEpochs
<1>6. CASE Publish(r)
  <2>1. /\ hotScore' \in [Users -> Int] /\ missed' \in [Users -> Int]
        /\ notified' \subseteq Users
    BY <1>1, <1>6, RecordTypes DEF Publish, SideTypes
  <2>2. answer' \in [Users -> {"none", "ok", "error"}]
    BY <1>2, <1>6 DEF Publish
  <2> QED
    BY <1>6, <1>d, <2>1, <2>2 DEF Publish, SideTypes, HistoryTypes, LedgerTypes, cacheVars, CacheEpochs
<1>7. CASE WriteSync(r)
  <2> DEFINE d == RowDelta(rows[q.user], q.active, q.key)
  <2>1. d \in {-1, 0, 1}
    BY DEF RowDelta
  <2>2. Record(q.user, d) /\ Notify(q.user, q.active, d)
    BY <1>7 DEF WriteSync
  <2> HIDE DEF d
  <2>3. /\ hotScore' \in [Users -> Int] /\ missed' \in [Users -> Int]
        /\ notified' \subseteq Users
    BY <1>1, <2>1, <2>2, RecordTypes DEF SideTypes
  <2>4. answer' \in [Users -> {"none", "ok", "error"}]
    BY <1>2, <1>7 DEF WriteSync
  <2> QED
    BY <1>7, <2>3, <2>4 DEF WriteSync, SideTypes, HistoryTypes, LedgerTypes, cacheVars, CacheEpochs
<1>8. CASE WriteSyncFails(r) \/ Abandon(r)
  <2>1. answer' \in [Users -> {"none", "ok", "error"}]
    BY <1>2, <1>8 DEF WriteSyncFails, Abandon
  <2> QED
    BY <1>8, <1>d, <2>1 DEF WriteSyncFails, Abandon, SideTypes, sideVars, HistoryTypes, LedgerTypes,
                            cacheVars, CacheEpochs
<1> QED
  BY <1>3, <1>4, <1>5, <1>6, <1>7, <1>8 DEF Request

\* So do the other steps.
LEMMA OtherTypes ==
    ASSUME TypeInv,
           \/ \E r \in Requests, u \in Users, active \in BOOLEAN :
                  \E key \in KeysFor(active, sent) : Start(r, u, active, key)
           \/ Worker \/ Delete \/ TimePasses \/ KeyLost \/ UNCHANGED vars
    PROVE  SideTypes'
<1> USE DEF TypeInv
<1>0. Gone \in Counter /\ ~Gone.live
  BY DEF Gone, Counter, Missing
<1>1. ASSUME NEW r \in Requests, NEW u \in Users, NEW active \in BOOLEAN,
             NEW key \in KeysFor(active, sent), Start(r, u, active, key)
      PROVE  SideTypes'
  <2>1. key \in Keys \cup {NoKey}
    BY DEF KeysFor
  <2>2. sent' \subseteq Keys
    BY <1>1, <2>1 DEF Start, SideTypes, HistoryTypes
  <2>3. answer' \in [Users -> {"none", "ok", "error"}]
    BY <1>1 DEF Start, SideTypes
  <2> QED
    BY <1>1, <2>2, <2>3 DEF Start, SideTypes, HistoryTypes, LedgerTypes, Disturb, cacheVars, CacheEpochs,
                            sideVars
<1>2. CASE Deliver \/ Lookup \/ LookupFails \/ Ack \/ Requeue
  BY <1>2 DEF Deliver, Lookup, LookupFails, Ack, Requeue,
              SideTypes, sideVars, historyVars, HistoryTypes, LedgerTypes, cacheVars, CacheEpochs
<1>3. CASE Apply
  <2>1. worker.event \in Event
    BY <1>3, DeliveryShape DEF Apply, Resting, PipelineInv
  <2>2. newest' \in [Users -> Nat]
    BY <1>3, <2>1 DEF Apply, Event, SideTypes, HistoryTypes
  <2> QED
    BY <1>3, <2>2 DEF Apply, SideTypes, sideVars, HistoryTypes, LedgerTypes, cacheVars, CacheEpochs
<1>4. CASE Delete \/ TimePasses \/ UNCHANGED vars
  BY <1>4 DEF Delete, TimePasses, vars, pipelineVars,
              SideTypes, sideVars, historyVars, HistoryTypes, LedgerTypes, cacheVars, CacheEpochs
<1>5. CASE KeyLost
  <2>1. /\ UNCHANGED <<answer, hotScore, notified, sent, newest, missed>>
        /\ disturbed' \subseteq Users /\ askew' \in BOOLEAN
    <3>1. askew' = askew \/ askew' = (askew \/ base.live)
      BY <1>5 DEF KeyLost
    <3>2. base.live \in BOOLEAN
      BY DEF SideTypes, CacheEpochs, Counter
    <3> QED
      BY <1>5, <3>1, <3>2, DisturbedGrows DEF KeyLost, sideVars, SideTypes, LedgerTypes, Next
  <2> DEFINE Kept ==
        /\ hash' \in [Users -> Hash] /\ json' \in Counter /\ lastShard' = lastShard
        /\ nextEpoch' = nextEpoch /\ base' \in {base, Gone}
        /\ \A s \in Shards : shards'[s] \in {shards[s], Gone}
        /\ shards' \in [Shards -> Counter]
  <2>2. Kept
    <3>1. NoHash \in Hash
      BY DEF NoHash, Hash, Statuses
    <3>2. CASE ExpireJSON
      BY <1>0, <3>2 DEF ExpireJSON, SideTypes, CacheEpochs
    <3>3. ASSUME NEW s \in Shards, ExpireShard(s) PROVE Kept
      BY <1>0, <3>3 DEF ExpireShard, SideTypes, CacheEpochs
    <3>4. CASE EvictBase \/ ExpireCounters
      BY <1>0, <3>4 DEF EvictBase, ExpireCounters, SideTypes, CacheEpochs
    <3>5. ASSUME NEW u \in Users, ExpireHash(u) PROVE Kept
      BY <1>0, <3>1, <3>5 DEF ExpireHash, SideTypes, CacheEpochs
    <3> QED
      BY <1>5, <3>2, <3>3, <3>4, <3>5 DEF KeyLost
  <2>3. CacheEpochs'
    BY <1>0, <2>2 DEF SideTypes, CacheEpochs
  <2> QED
    BY <2>1, <2>2, <2>3 DEF SideTypes, HistoryTypes, LedgerTypes
<1> QED
  BY <1>1, <1>2, <1>3, <1>4, <1>5 DEF Worker

\* The types hold at first.
LEMMA TypeInit == Init => TypeInv
<1> SUFFICES ASSUME Init PROVE SideTypes
  BY PipelineInit DEF TypeInv
<1>1. Gone \in Counter /\ ~Gone.live
  BY DEF Gone, Counter, Missing
<1>2. hash \in [Users -> Hash]
  BY DEF Init, CacheInit, NoHash, Hash, Statuses
<1>3. CacheEpochs /\ json \in Counter /\ lastShard \in Shards
  BY <1>1 DEF Init, CacheInit, CacheEpochs, Blank
<1>4. HistoryTypes
  BY DEF Init, HistoryTypes
<1>5. LedgerTypes
  <2>1. disturbed \subseteq Users
    BY StoreAssumption, CacheAssumption DEF Init
  <2>2. hotScore \in [Users -> Int] /\ missed \in [Users -> Int]
    BY DEF Init
  <2>3. askew \in BOOLEAN
    BY DEF Init
  <2> QED
    BY <2>1, <2>2, <2>3 DEF LedgerTypes
<1>6. answer \in [Users -> {"none", "ok", "error"}] /\ notified \subseteq Users
  BY DEF Init
<1> QED
  BY <1>2, <1>3, <1>4, <1>5, <1>6 DEF SideTypes

\* Every step keeps them.
LEMMA TypeStep == TypeInv /\ [Next]_vars => TypeInv'
<1> SUFFICES ASSUME TypeInv, [Next]_vars PROVE TypeInv'
  OBVIOUS
<1>1. PipelineInv'
  BY PipelineStep DEF TypeInv
<1>2. SideTypes'
  BY RequestTypes, OtherTypes DEF Next
<1> QED
  BY <1>1, <1>2 DEF TypeInv

\* The types of the pipeline, for any users, keys, requests and faults.
THEOREM PipelineTyped == Spec => []TypeOK
<1>1. TypeInv => TypeOK
  BY DEF TypeInv, PipelineInv, StoreInv, PipelineTypes, SideTypes, CacheEpochs, HistoryTypes,
         LedgerTypes, TypeOK, CacheTypeOK
<1> QED
  BY <1>1, TypeInit, TypeStep, PTL DEF Spec

-----------------------------------------------------------------------------
(* The agreement of Redis and MySQL, user by user, for all who are not     *)
(* disturbed.                                                              *)

InRedis(u) == hash[u].status = Active
InMySQL(u) == rows[u].status = Active
Agree(u) == InRedis(u) <=> InMySQL(u)

\* One thing at a time is under way for a user.
Apart ==
    \A r \in Requests : InFlight(r) /\ req[r].user \notin disturbed =>
        /\ \A e \in Pending : e.user # req[r].user
        /\ \A s \in Requests : InFlight(s) /\ s # r => req[s].user # req[r].user

\* A key stands for one target state wherever it is stored.
Means(key, status) == key # NoKey => status = StatusOf(KeyTarget[key])
HashMeaning == \A u \in Users : Means(hash[u].key, hash[u].status)
KeyMeaning ==
    /\ \A u \in Users : Means(rows[u].key, rows[u].status)
    /\ HashMeaning
    /\ \A r \in Requests : InFlight(r) => Means(req[r].key, StatusOf(req[r].active))
    /\ \A e \in Pending : Means(e.key, StatusOf(e.active))

\* A row was written before the request of its user began.
Timely ==
    \A r \in Requests : InFlight(r) /\ req[r].user \notin disturbed =>
        rows[req[r].user].updatedAt < clock

\* Where nothing is under way the stores agree.
Untouched ==
    \A u \in Users \ disturbed :
        /\ \A r \in Requests : Past(r) => req[r].user # u
        /\ \A e \in Pending : e.user # u
        => Agree(u)

\* A request knows the difference it made between them ...
RequestsRight ==
    \A r \in Requests : Past(r) /\ req[r].user \notin disturbed =>
        /\ InRedis(req[r].user) <=> req[r].active
        /\ req[r].delta = Bit(InRedis(req[r].user)) - Bit(InMySQL(req[r].user))

\* ... and an event ends it, newer than its row unless it has been written.
EventsRight ==
    \A e \in Pending : e.user \notin disturbed =>
        /\ InRedis(e.user) <=> e.active
        /\ rows[e.user].updatedAt < e.occurredAt \/ Agree(e.user)

AckRight ==
    worker.pc = "ack" /\ worker.event.user \notin disturbed => Agree(worker.event.user)

AgreeFacts ==
    /\ Apart /\ KeyMeaning /\ Timely
    /\ Untouched /\ RequestsRight /\ EventsRight /\ AckRight

AgreeInv == TypeInv /\ AgreeFacts

-----------------------------------------------------------------------------
\* An event put back into a queue is there, with all the others.
LEMMA InsertKeeps ==
    ASSUME NEW q \in Seq(Event), NEW i \in 1..(Len(q) + 1), NEW e \in Event
    PROVE  LET p == InsertAt(q, i, e) IN
           /\ \E j \in DOMAIN p : p[j] = e
           /\ \A k \in DOMAIN q : \E j \in DOMAIN p : p[j] = q[k]
<1> DEFINE a == SubSeq(q, 1, i - 1)
           b == SubSeq(q, i, Len(q))
           c == a \o <<e>>
<1>1. /\ a \in Seq(Event) /\ Len(a) = i - 1
      /\ \A k \in 1..(i - 1) : a[k] = q[k]
  OBVIOUS
<1>2. /\ b \in Seq(Event) /\ Len(b) = Len(q) - i + 1
      /\ \A k \in i..Len(q) : b[k - i + 1] = q[k]
  OBVIOUS
<1>3. InsertAt(q, i, e) = c \o b
  BY DEF InsertAt
<1> HIDE DEF a, b
<1>4. /\ c \in Seq(Event) /\ Len(c) = i /\ c[i] = e
      /\ \A k \in 1..(i - 1) : c[k] = q[k]
  BY <1>1
<1> HIDE DEF c
<1>5. /\ Len(c \o b) = Len(q) + 1 /\ DOMAIN (c \o b) = 1..(Len(q) + 1)
      /\ \A k \in 1..i : (c \o b)[k] = c[k]
      /\ \A k \in (i + 1)..(Len(q) + 1) : (c \o b)[k] = b[k - i]
  BY <1>2, <1>4
<1>6. (c \o b)[i] = e /\ i \in DOMAIN (c \o b)
  BY <1>4, <1>5
<1>7. ASSUME NEW k \in DOMAIN q PROVE \E j \in DOMAIN (c \o b) : (c \o b)[j] = q[k]
  <2>1. k \in 1..Len(q)
    OBVIOUS
  <2>2. CASE k <= i - 1
    <3>1. (c \o b)[k] = q[k] /\ k \in DOMAIN (c \o b)
      BY <1>4, <1>5, <2>1, <2>2
    <3> QED
      BY <3>1
  <2>3. CASE k > i - 1
    <3>1. k \in i..Len(q) /\ k + 1 \in (i + 1)..(Len(q) + 1) /\ (k + 1) - i = k - i + 1
      BY <2>1, <2>3
    <3>2. (c \o b)[k + 1] = q[k] /\ k + 1 \in DOMAIN (c \o b)
      BY <1>2, <1>5, <3>1
    <3> QED
      BY <3>2
  <2> QED
    BY <2>1, <2>2, <2>3
<1> QED
  BY <1>3, <1>6, <1>7

\* The worker and the broker forget an event only when it is acknowledged.
LEMMA WorkerKeeps ==
    ASSUME PipelineTypes, Deliver \/ Lookup \/ LookupFails \/ Ack \/ Requeue
    PROVE  /\ Pending' \subseteq Pending
           /\ (Lookup /\ Stale(worker.event)) \/ Ack => Pending \subseteq Pending' \cup {worker.event}
           /\ ~((Lookup /\ Stale(worker.event)) \/ Ack) => Pending' = Pending
<1>0. Pending' \subseteq Pending
  BY WorkerPending
<1>1. CASE Deliver
  <2>1. /\ worker = Resting /\ queue # <<>> /\ queue' = Tail(queue)
        /\ worker' = [pc |-> "lookup", event |-> Head(queue)] /\ worker' # Resting
    BY <1>1 DEF Deliver, Resting
  <2>2. \A k \in DOMAIN queue : k = 1 \/ (k - 1 \in DOMAIN Tail(queue) /\ Tail(queue)[k - 1] = queue[k])
    BY <2>1 DEF PipelineTypes
  <2>3. ASSUME NEW k \in DOMAIN queue PROVE queue[k] \in Pending'
    <3>1. CASE k = 1
      <4>1. worker'.event = queue[k]
        BY <2>1, <3>1 DEF PipelineTypes
      <4> QED
        BY <2>1, <4>1 DEF Pending
    <3>2. CASE k # 1
      <4>1. \E j \in DOMAIN queue' : queue'[j] = queue[k]
        BY <2>1, <2>2, <3>2
      <4> QED
        BY <4>1 DEF Pending
    <3> QED
      BY <3>1, <3>2
  <2>4. Pending \subseteq Pending'
    BY <2>1, <2>3 DEF Pending
  <2>5. ~Lookup /\ ~Ack
    BY <2>1 DEF Lookup, Ack, Resting
  <2> QED
    BY <1>0, <2>4, <2>5
<1>2. CASE Lookup \/ LookupFails
  <2>1. worker # Resting /\ queue' = queue /\ ~Ack
    BY <1>2 DEF Lookup, LookupFails, Resting, Ack
  <2>2. CASE worker' = [worker EXCEPT !.pc = "apply"]
    <3>1. worker'.event = worker.event /\ worker' # Resting
      BY <2>1, <2>2, DeliveryShape DEF Delivery, Resting
    <3>2. Pending \subseteq Pending'
      BY <2>1, <3>1 DEF Pending
    <3> QED
      BY <1>0, <3>2
  <2>3. CASE Lookup /\ worker' = Resting /\ Stale(worker.event)
    BY <1>0, <2>1, <2>3 DEF Pending
  <2> QED
    BY <1>2, <2>2, <2>3 DEF Lookup, LookupFails
<1>3. CASE Ack
  BY <1>0, <1>3 DEF Ack, Pending
<1>4. CASE Requeue
  <2>1. worker # Resting /\ worker' = Resting /\ queue' \in Requeued(worker.event)
    BY <1>4 DEF Requeue, Resting
  <2>2. worker.event \in Event
    BY <2>1, DeliveryShape
  <2>3. PICK i \in 1..(Len(queue) + 1) : queue' = InsertAt(queue, i, worker.event)
    BY <2>1 DEF Requeued
  <2>4. /\ \E j \in DOMAIN queue' : queue'[j] = worker.event
        /\ \A k \in DOMAIN queue : \E j \in DOMAIN queue' : queue'[j] = queue[k]
    BY <2>2, <2>3, InsertKeeps DEF PipelineTypes
  <2>5. Pending \subseteq Pending'
    BY <2>1, <2>4 DEF Pending
  <2> QED
    BY <1>0, <2>5
<1> QED
  BY <1>1, <1>2, <1>3, <1>4

\* A request on its way changes its place, its reads and nothing else.
LEMMA RequestMoves ==
    ASSUME PipelineTypes, NEW r \in Requests, Request(r) \/ Abandon(r)
    PROVE  /\ InFlight(r) /\ req[r] \in Handler
           /\ \A s \in Requests : s # r => req'[s] = req[s]
           /\ InFlight(r)' =>
                 /\ req'[r].pc # "script"
                 /\ req'[r].user = req[r].user /\ req'[r].active = req[r].active
                 /\ req'[r].key = req[r].key /\ req'[r].initial = req[r].initial
                 /\ ~RunScript(r) => req'[r].delta = req[r].delta
<1>1. InFlight(r) /\ req[r] \in Handler
  BY RequestKeys
<1> DEFINE Like(q) ==
              /\ q.pc # "script"
              /\ q.user = req[r].user /\ q.active = req[r].active
              /\ q.key = req[r].key /\ q.initial = req[r].initial
              /\ ~RunScript(r) => q.delta = req[r].delta
<1>2. PICK q : req' = [req EXCEPT ![r] = q] /\ (q = Done \/ Like(q))
  <2>1. CASE RunScript(r)
    <3> DEFINE q == [req[r] EXCEPT !.pc = "base",
                          !.delta = ScriptDelta(hash[req[r].user], req[r].active, req[r].key)]
    <3>1. req' = [req EXCEPT ![r] = q] /\ Like(q)
      BY <1>1, <2>1 DEF RunScript, Handler
    <3> QED
      BY <3>1
  <2>2. CASE ReadBase(r)
    <3> DEFINE q == [req[r] EXCEPT !.pc = "shards", !.base = base]
    <3>1. req' = [req EXCEPT ![r] = q] /\ Like(q)
      BY <1>1, <2>2 DEF ReadBase, Handler
    <3> QED
      BY <3>1
  <2>3. ASSUME NEW pc, pc # "script", Goto(r, pc)
        PROVE  \E q : req' = [req EXCEPT ![r] = q] /\ (q = Done \/ Like(q))
    <3> DEFINE q == [req[r] EXCEPT !.pc = pc]
    <3>1. req' = [req EXCEPT ![r] = q] /\ Like(q)
      BY <1>1, <2>3 DEF Goto, Handler
    <3> QED
      BY <3>1
  <2>4. ASSUME NEW result, Return(r, result)
        PROVE  \E q : req' = [req EXCEPT ![r] = q] /\ (q = Done \/ Like(q))
    BY <2>4 DEF Return
  <2> HIDE DEF Like
  <2>5. CASE ReadShards(r) \/ Publish(r) \/ FallBack(r) \/ WriteSync(r) \/ WriteSyncFails(r) \/ Abandon(r)
    BY <2>3, <2>4, <2>5 DEF ReadShards, Publish, FallBack, WriteSync, WriteSyncFails, Abandon
  <2> QED
    BY <2>1, <2>2, <2>5 DEF Request
<1>3. \A s \in Requests : req'[s] = IF s = r THEN q ELSE req[s]
  BY <1>2 DEF PipelineTypes
<1> QED
  BY <1>1, <1>2, <1>3 DEF InFlight

\* SetAction leaves the row in the state it was called for, and counts the
\* difference: a replayed key stands for that state already.
LEMMA WrittenState ==
    ASSUME StoreInv, NEW u \in Users, NEW active \in BOOLEAN, NEW key \in Keys \cup {NoKey},
           SetAction(u, active, key),
           Means(rows[u].key, rows[u].status), Means(key, StatusOf(active))
    PROVE  /\ rows'[u].key = key /\ rows'[u].status = StatusOf(active)
           /\ InMySQL(u)' <=> active
           /\ RowDelta(rows[u], active, key) = Bit(active) - Bit(InMySQL(u))
           /\ \A v \in Users : v # u => rows'[v] = rows[v]
           /\ published' = published /\ clock' = clock
<1> DEFINE row == rows[u]
<1>1. /\ rows'[u] = RowAfter(row, active, key, clock)
      /\ published' = published /\ clock' = clock
      /\ row.status \in {Absent, Active, Canceled}
  BY DEF SetAction, StoreInv, StoreTypeOK, Row, Statuses
<1>2. rows'[u].key = key /\ \A v \in Users : v # u => rows'[v] = rows[v]
  BY RowWritten
<1>3. Replayed(row, key) => row.status = StatusOf(active)
  BY DEF Replayed, Means
<1>4. rows'[u].status = StatusOf(active)
  <2>1. CASE Saved(row, active, key)
    BY <1>1, <2>1 DEF RowAfter
  <2>2. CASE ~Saved(row, active, key)
    BY <1>1, <1>3, <2>2 DEF RowAfter, Saved
  <2> QED
    BY <2>1, <2>2
<1>5. RowDelta(row, active, key) = Bit(active) - Bit(InMySQL(u))
  <2>1. CASE active = TRUE
    BY <1>1, <1>3, <2>1 DEF RowDelta, Bit, InMySQL, StatusOf, Absent, Active, Canceled
  <2>2. CASE active = FALSE
    BY <1>1, <1>3, <2>2 DEF RowDelta, Bit, InMySQL, StatusOf, Absent, Active, Canceled
  <2> QED
    BY <2>1, <2>2
<1>6. InMySQL(u)' <=> active
  BY <1>4 DEF InMySQL, StatusOf, Active, Canceled
<1> QED
  BY <1>1, <1>2, <1>4, <1>5, <1>6

\* The script does the same to the hash.
LEMMA ScriptedState ==
    ASSUME hash \in [Users -> Hash], NEW u \in Users, NEW active \in BOOLEAN,
           NEW key \in Keys \cup {NoKey}, NEW initial, Script(u, active, key, initial),
           Means(hash[u].key, hash[u].status), Means(key, StatusOf(active))
    PROVE  /\ hash'[u].key = key /\ hash'[u].status = StatusOf(active)
           /\ InRedis(u)' <=> active
           /\ ScriptDelta(hash[u], active, key) = Bit(active) - Bit(InRedis(u))
           /\ \A v \in Users : v # u => hash'[v] = hash[v]
<1> DEFINE found == hash[u]
<1>1. found.status \in {Absent, Active, Canceled}
  BY DEF Hash, Statuses
<1>2. SameKey(found, key) => found.status = StatusOf(active)
  BY DEF SameKey, Means
<1> DEFINE h == [status |-> ScriptStatus(found, active, key), key |-> key]
<1>3. hash' = [hash EXCEPT ![u] = h]
  BY DEF Script
<1>4. h.key = key /\ h.status = StatusOf(active)
  BY <1>2 DEF ScriptStatus
<1> HIDE DEF h
<1>5. hash'[u] = h /\ \A v \in Users : v # u => hash'[v] = hash[v]
  BY <1>3
<1>6. ScriptDelta(found, active, key) = Bit(active) - Bit(InRedis(u))
  <2>1. CASE active = TRUE
    BY <1>1, <1>2, <2>1 DEF ScriptDelta, Bit, InRedis, StatusOf, Absent, Active, Canceled
  <2>2. CASE active = FALSE
    BY <1>1, <1>2, <2>2 DEF ScriptDelta, Bit, InRedis, StatusOf, Absent, Active, Canceled
  <2> QED
    BY <2>1, <2>2
<1>7. InRedis(u)' <=> active
  BY <1>4, <1>5 DEF InRedis, StatusOf, Active, Canceled
<1> QED
  BY <1>4, <1>5, <1>6, <1>7

-----------------------------------------------------------------------------
(* The steps.                                                              *)

\* Requests stay what they are, and none but an ineffective one ends, unless
\* its user is disturbed.
Carried ==
    \A s \in Requests : InFlight(s)' =>
        /\ InFlight(s)
        /\ req'[s].user = req[s].user /\ req'[s].active = req[s].active
        /\ req'[s].key = req[s].key
        /\ Past(s)' /\ req[s].user \notin disturbed' =>
              Past(s) /\ req'[s].delta = req[s].delta

Ended ==
    \A s \in Requests : Past(s) /\ ~Past(s)' /\ req[s].user \notin disturbed' =>
        req[s].delta = 0

\* A step that writes neither store, but for those it disturbs.
LEMMA QuietAgree ==
    ASSUME AgreeInv, UNCHANGED rows, HashMeaning', disturbed \subseteq disturbed',
           \A u \in Users \ disturbed' : InRedis(u)' = InRedis(u),
           clock' \in Nat, clock' >= clock,
           Pending' = Pending, worker'.pc = "ack" => worker' = worker,
           Carried, Ended
    PROVE  AgreeFacts'
<1> USE DEF AgreeInv, AgreeFacts, Carried, Ended
<1>1. /\ \A u \in Users \ disturbed' : Agree(u)' = Agree(u)
      /\ \A u : InMySQL(u)' = InMySQL(u)
  BY DEF Agree, InMySQL
<1>2. Apart' /\ KeyMeaning'
  BY DEF Apart, KeyMeaning
<1>u. /\ \A s \in Requests : InFlight(s) => req[s].user \in Users
      /\ \A e \in Pending : e.user \in Users
  BY PendingEvents DEF TypeInv, PipelineInv, PipelineTypes, InFlight, Handler, Event
<1>3. Timely'
  <2>1. \A s \in Requests : InFlight(s) => rows[req[s].user].updatedAt \in Nat
    BY <1>u DEF TypeInv, PipelineInv, StoreInv, StoreTypeOK, Row
  <2>2. clock \in Nat
    BY DEF TypeInv, PipelineInv, StoreInv, StoreTypeOK
  <2> QED
    BY <2>1, <2>2 DEF Timely
<1>4. Untouched'
  <2> SUFFICES ASSUME NEW u \in Users \ disturbed', ~Agree(u),
                      \A s \in Requests : Past(s)' => req'[s].user # u,
                      \A e \in Pending : e.user # u
               PROVE  FALSE
    BY <1>1 DEF Untouched
  <2>1. PICK s \in Requests : Past(s) /\ req[s].user = u
    BY DEF Untouched
  <2>2. CASE Past(s)'
    <3>1. InFlight(s)'
      BY <2>2 DEF Past
    <3> QED
      BY <2>1, <2>2, <3>1
  <2>3. CASE ~Past(s)'
    <3>1. req[s].delta = 0 /\ 0 = Bit(InRedis(u)) - Bit(InMySQL(u))
      BY <2>1, <2>3 DEF RequestsRight
    <3> QED
      BY <3>1 DEF Bit, Agree
  <2> QED
    BY <2>2, <2>3
<1>5. RequestsRight'
  <2>1. ASSUME NEW s \in Requests, Past(s)', NEW v, v = req'[s].user, v \notin disturbed'
        PROVE  /\ InRedis(v)' <=> req'[s].active
               /\ req'[s].delta = Bit(InRedis(v)') - Bit(InMySQL(v)')
    <3>1. InFlight(s)'
      BY <2>1 DEF Past
    <3>2. /\ Past(s) /\ InFlight(s) /\ v = req[s].user
          /\ req'[s].active = req[s].active /\ req'[s].delta = req[s].delta
      BY <2>1, <3>1
    <3>3. InRedis(v)' = InRedis(v) /\ InMySQL(v)' = InMySQL(v)
      BY <1>1, <1>u, <2>1, <3>2
    <3>4. (InRedis(v) <=> req[s].active) /\ req[s].delta = Bit(InRedis(v)) - Bit(InMySQL(v))
      BY <2>1, <3>2 DEF RequestsRight
    <3> QED
      BY <3>2, <3>3, <3>4 DEF Bit
  <2> QED
    BY <2>1 DEF RequestsRight
<1>6. EventsRight'
  <2>1. ASSUME NEW e \in Pending, NEW v, v = e.user, v \notin disturbed'
        PROVE  (InRedis(v)' <=> e.active) /\ (rows[v].updatedAt < e.occurredAt \/ Agree(v)')
    <3>1. v \in Users \ disturbed' /\ v \notin disturbed
      BY <1>u, <2>1
    <3>2. InRedis(v)' = InRedis(v) /\ Agree(v)' = Agree(v)
      BY <1>1, <3>1
    <3>3. (InRedis(v) <=> e.active) /\ (rows[v].updatedAt < e.occurredAt \/ Agree(v))
      BY <2>1, <3>1 DEF EventsRight
    <3> QED
      BY <3>2, <3>3
  <2> QED
    BY <2>1 DEF EventsRight
<1>7. AckRight'
  <2> SUFFICES ASSUME worker.pc = "ack", worker' = worker,
                      NEW v, v = worker.event.user, v \notin disturbed'
               PROVE  Agree(v)'
    BY DEF AckRight
  <2>1. worker.event \in Pending
    BY PendingEvents DEF TypeInv, PipelineInv, Resting
  <2>2. v \in Users \ disturbed'
    BY <1>u, <2>1
  <2>3. Agree(v)
    BY DEF AckRight
  <2> QED
    BY <1>1, <2>2, <2>3
<1> QED
  BY <1>2, <1>3, <1>4, <1>5, <1>6, <1>7

\* The worker lets go of an event whose user the stores agree on.
LEMMA ForgetAgree ==
    ASSUME AgreeInv, UNCHANGED <<rows, hash, clock, req, disturbed>>,
           worker.event \in Event, worker' = Resting,
           worker.event.user \notin disturbed => Agree(worker.event.user),
           Pending' \subseteq Pending, Pending \subseteq Pending' \cup {worker.event}
    PROVE  AgreeFacts'
<1> USE DEF AgreeInv, AgreeFacts
<1>1. \A u : Agree(u)' = Agree(u) /\ InRedis(u)' = InRedis(u) /\ InMySQL(u)' = InMySQL(u)
  BY DEF Agree, InRedis, InMySQL
<1>2. \A s \in Requests : InFlight(s)' = InFlight(s) /\ Past(s)' = Past(s)
  BY DEF InFlight, Past
<1>3. Apart' /\ KeyMeaning' /\ Timely'
  BY <1>2 DEF Apart, KeyMeaning, HashMeaning, Timely
<1>4. Untouched' /\ RequestsRight'
  BY <1>1, <1>2 DEF Untouched, RequestsRight
<1>5. EventsRight'
  BY <1>1 DEF EventsRight
<1>6. AckRight'
  BY DEF AckRight, Resting
<1> QED
  BY <1>3, <1>4, <1>5, <1>6

\* A request begins when nothing else is under way for its user, or disturbs them.
LEMMA StartAgree ==
    ASSUME AgreeInv, NEW r \in Requests, NEW u \in Users, NEW active \in BOOLEAN,
           NEW key \in KeysFor(active, sent), Start(r, u, active, key)
    PROVE  AgreeFacts'
<1> USE DEF AgreeInv, AgreeFacts
<1>1. UNCHANGED <<rows, hash, clock, worker>> /\ Pending' = Pending
  BY DEF Start, storeVars, cacheVars, Pending
<1>2. disturbed \subseteq disturbed' /\ (u \notin disturbed' => Settled(u))
  BY DEF Start, Disturb
<1>3. /\ \A s \in Requests : s # r => req'[s] = req[s]
      /\ ~InFlight(r)
      /\ req'[r] = Done \/ (/\ req'[r].pc = "script" /\ req'[r].user = u
                            /\ req'[r].active = active /\ req'[r].key = key)
  BY DEF Start, TypeInv, PipelineInv, PipelineTypes, InFlight
<1>4. /\ \A s \in Requests : s # r => InFlight(s)' = InFlight(s)
      /\ InFlight(r)' => /\ req'[r].user = u /\ req'[r].active = active /\ req'[r].key = key
      /\ \A s \in Requests : Past(s)' <=> Past(s)
  BY <1>3 DEF InFlight, Past
<1>5. \A u1 : Agree(u1)' = Agree(u1) /\ InRedis(u1)' = InRedis(u1) /\ InMySQL(u1)' = InMySQL(u1)
  BY <1>1 DEF Agree, InRedis, InMySQL
<1>6. Settled(u) =>
         /\ \A e \in Pending : e.user # u
         /\ \A s \in Requests : InFlight(s) => req[s].user # u
         /\ rows[u].updatedAt < clock
  BY DEF Settled, Pending
<1>7. Apart'
  BY <1>1, <1>2, <1>3, <1>4, <1>6 DEF Apart
<1>8. Means(key, StatusOf(active))
  BY DEF KeysFor, Means
<1>9. KeyMeaning'
  BY <1>1, <1>3, <1>4, <1>8 DEF KeyMeaning, HashMeaning
<1>10. Timely'
  BY <1>1, <1>2, <1>3, <1>4, <1>6 DEF Timely
<1>11. \A s \in Requests : Past(s) => req'[s] = req[s]
  BY <1>3 DEF Past
<1>12. Untouched' /\ RequestsRight'
  BY <1>1, <1>2, <1>4, <1>5, <1>11 DEF Untouched, RequestsRight
<1>13. EventsRight' /\ AckRight'
  BY <1>1, <1>2, <1>5 DEF EventsRight, AckRight
<1> QED
  BY <1>7, <1>9, <1>10, <1>12, <1>13

\* The script makes the difference that the request remembers.
LEMMA ScriptAgree ==
    ASSUME AgreeInv, NEW r \in Requests, RunScript(r)
    PROVE  AgreeFacts'
<1> USE DEF AgreeInv, AgreeFacts
<1>1. /\ UNCHANGED <<rows, clock, worker, disturbed>> /\ Pending' = Pending
      /\ req[r].pc = "script"
  BY DEF RunScript, storeVars, Pending
<1>2. /\ InFlight(r) /\ req[r] \in Handler
      /\ \A s \in Requests : s # r => req'[s] = req[s]
  BY RequestMoves DEF Request, TypeInv, PipelineInv
<1>d. PICK u \in Users, active \in BOOLEAN, key \in Keys \cup {NoKey}, d \in {-1, 0, 1} :
         /\ u = req[r].user /\ active = req[r].active /\ key = req[r].key
         /\ d = ScriptDelta(hash[u], active, key)
  BY <1>2 DEF Handler, ScriptDelta
<1>3. /\ req'[r].pc = "base" /\ req'[r].user = u /\ req'[r].active = active
      /\ req'[r].key = key /\ req'[r].delta = d
  BY <1>2, <1>d DEF RunScript, TypeInv, PipelineInv, PipelineTypes, Handler
<1>4. InFlight(r)' /\ Past(r)' /\ ~Past(r)
  BY <1>1, <1>3 DEF InFlight, Past, Idle, Done
<1>5. \A s \in Requests : s # r => InFlight(s)' = InFlight(s) /\ Past(s)' = Past(s)
  BY <1>2 DEF InFlight, Past
<1>6. hash \in [Users -> Hash]
  BY DEF TypeInv, SideTypes
<1>7. Script(u, active, key, req[r].initial)
  BY <1>d DEF RunScript
<1>8. Means(hash[u].key, hash[u].status) /\ Means(key, StatusOf(active))
  BY <1>2, <1>d DEF KeyMeaning, HashMeaning
<1>9. /\ hash'[u].key = key /\ hash'[u].status = StatusOf(active)
      /\ InRedis(u)' <=> active
      /\ d = Bit(active) - Bit(InRedis(u))
      /\ \A v \in Users : v # u => hash'[v] = hash[v]
  BY <1>6, <1>7, <1>8, <1>d, ScriptedState
<1>10. u \notin disturbed => Agree(u)
  <2> SUFFICES ASSUME u \notin disturbed PROVE Agree(u)
    OBVIOUS
  <2>1. \A s \in Requests : Past(s) => req[s].user # u
    BY <1>2, <1>4, <1>d DEF Apart, Past
  <2> QED
    BY <1>2, <1>d, <2>1 DEF Apart, Untouched
<1>11. \A v \in Users : v # u => Agree(v)' = Agree(v) /\ InRedis(v)' = InRedis(v)
  BY <1>1, <1>9 DEF Agree, InRedis, InMySQL
<1>12. \A v : InMySQL(v)' = InMySQL(v)
  BY <1>1 DEF InMySQL
<1>13. u \notin disturbed => \A s \in Requests : s # r /\ InFlight(s) => req[s].user # u
  BY <1>2, <1>d DEF Apart
<1>14. /\ \A e \in Pending : e.user \in Users
       /\ u \notin disturbed => \A e \in Pending : e.user # u
  BY <1>2, <1>d, PendingEvents DEF Apart, TypeInv, PipelineInv, Event
<1>15. \A s \in Requests : InFlight(s) => req[s].user \in Users
  BY DEF TypeInv, PipelineInv, PipelineTypes, InFlight, Handler
<1>16. Apart'
  BY <1>1, <1>2, <1>3, <1>5, <1>d DEF Apart
<1>17. KeyMeaning'
  <2>1. \A v \in Users : Means(rows'[v].key, rows'[v].status) /\ Means(hash'[v].key, hash'[v].status)
    BY <1>1, <1>8, <1>9 DEF KeyMeaning, HashMeaning
  <2>2. \A s \in Requests : InFlight(s)' => Means(req'[s].key, StatusOf(req'[s].active))
    BY <1>2, <1>3, <1>5, <1>d DEF KeyMeaning
  <2> QED
    BY <1>1, <2>1, <2>2 DEF KeyMeaning, HashMeaning
<1>18. Timely'
  BY <1>1, <1>2, <1>3, <1>5, <1>d DEF Timely
<1>19. Untouched'
  BY <1>1, <1>2, <1>3, <1>4, <1>5, <1>11, <1>d DEF Untouched
<1>20. RequestsRight'
  <2>1. ASSUME NEW s \in Requests, Past(s)', s # r, NEW v, v = req'[s].user, v \notin disturbed
        PROVE  /\ InRedis(v)' <=> req'[s].active
               /\ req'[s].delta = Bit(InRedis(v)') - Bit(InMySQL(v)')
    <3>1. Past(s) /\ InFlight(s) /\ req'[s] = req[s]
      BY <1>2, <1>5, <2>1 DEF Past
    <3>2. v # u /\ v \in Users
      BY <1>13, <1>15, <2>1, <3>1
    <3>3. InRedis(v)' = InRedis(v) /\ InMySQL(v)' = InMySQL(v)
      BY <1>11, <1>12, <3>2
    <3>4. (InRedis(v) <=> req[s].active) /\ req[s].delta = Bit(InRedis(v)) - Bit(InMySQL(v))
      BY <2>1, <3>1 DEF RequestsRight
    <3> QED
      BY <3>1, <3>3, <3>4 DEF Bit
  <2>2. u \notin disturbed => d = Bit(InRedis(u)') - Bit(InMySQL(u)')
    BY <1>9, <1>10, <1>12 DEF Bit, Agree
  <2> QED
    BY <1>1, <1>3, <1>9, <2>1, <2>2 DEF RequestsRight
<1>21. EventsRight'
  BY <1>1, <1>11, <1>14 DEF EventsRight
<1>22. AckRight'
  <2> SUFFICES ASSUME worker.pc = "ack", NEW v, v = worker.event.user, v \notin disturbed
               PROVE  Agree(v)'
    BY <1>1 DEF AckRight
  <2>1. worker.event \in Pending
    BY PendingEvents DEF TypeInv, PipelineInv, Resting
  <2> QED
    BY <1>11, <1>14, <2>1 DEF AckRight
<1> QED
  BY <1>16, <1>17, <1>18, <1>19, <1>20, <1>21, <1>22

\* A request leaves its event behind.
LEMMA PublishAgree ==
    ASSUME AgreeInv, NEW r \in Requests, Publish(r), queue' = Append(queue, EventOf(req[r])),
           UNCHANGED disturbed
    PROVE  AgreeFacts'
<1> USE DEF AgreeInv, AgreeFacts
<1> DEFINE e == EventOf(req[r])
<1>1. /\ UNCHANGED <<rows, clock, worker, hash>>
      /\ req[r].pc = "publish" /\ queue' = Append(queue, e)
  BY DEF Publish, storeVars, cacheVars
<1>2. /\ InFlight(r) /\ req[r] \in Handler
      /\ \A s \in Requests : s # r => req'[s] = req[s]
  BY RequestMoves DEF Request, TypeInv, PipelineInv
<1>3. ~InFlight(r)' /\ ~Past(r)' /\ Past(r)
  BY <1>1, <1>2 DEF Publish, Return, InFlight, Past, TypeInv, PipelineInv, PipelineTypes
<1>4. \A s \in Requests : s # r => InFlight(s)' = InFlight(s) /\ Past(s)' = Past(s)
  BY <1>2 DEF InFlight, Past
<1>5. /\ e \in Event /\ e.key = req[r].key /\ e.occurredAt = clock
      /\ e.user = req[r].user /\ e.active = req[r].active
  BY <1>2 DEF EventOf, Event, Handler, TypeInv, PipelineInv, StoreInv, StoreTypeOK
<1>6. Pending' = Pending \cup {e}
  <2>1. \A i \in DOMAIN queue' : queue'[i] = e \/ \E k \in DOMAIN queue : queue'[i] = queue[k]
    BY <1>1, <1>5 DEF TypeInv, PipelineInv, PipelineTypes
  <2>2. /\ \A k \in DOMAIN queue : k \in DOMAIN queue' /\ queue'[k] = queue[k]
        /\ Len(queue) + 1 \in DOMAIN queue' /\ queue'[Len(queue) + 1] = e
    BY <1>1, <1>5 DEF TypeInv, PipelineInv, PipelineTypes
  <2> HIDE DEF e
  <2> QED
    BY <1>1, <2>1, <2>2 DEF Pending
<1> HIDE DEF e
<1>7. \A v : Agree(v)' = Agree(v) /\ InRedis(v)' = InRedis(v) /\ InMySQL(v)' = InMySQL(v)
  BY <1>1 DEF Agree, InRedis, InMySQL
<1>8. Apart'
  <2>1. \A s \in Requests : InFlight(s)' => s # r /\ InFlight(s) /\ req'[s] = req[s]
    BY <1>2, <1>3, <1>4
  <2>2. \A s \in Requests : InFlight(s)' /\ req'[s].user \notin disturbed => e.user # req'[s].user
    BY <1>2, <1>5, <2>1 DEF Apart
  <2> QED
    BY <1>6, <2>1, <2>2 DEF Apart
<1>9. KeyMeaning'
  <2>1. Means(e.key, StatusOf(e.active))
    BY <1>2, <1>5 DEF KeyMeaning
  <2> QED
    BY <1>1, <1>2, <1>3, <1>4, <1>6, <2>1 DEF KeyMeaning, HashMeaning
<1>10. Timely'
  BY <1>1, <1>2, <1>3, <1>4 DEF Timely
<1>11. Untouched'
  <2> SUFFICES ASSUME NEW v \in Users \ disturbed,
                      \A s \in Requests : Past(s)' => req'[s].user # v,
                      \A d \in Pending' : d.user # v
               PROVE  Agree(v)
    BY <1>7 DEF Untouched
  <2>1. v # req[r].user
    BY <1>5, <1>6
  <2>2. \A s \in Requests : Past(s) => req[s].user # v
    BY <1>2, <1>4, <2>1
  <2> QED
    BY <1>6, <2>2 DEF Untouched
<1>12. RequestsRight'
  <2>1. \A s \in Requests : Past(s)' => s # r /\ Past(s) /\ req'[s] = req[s]
    BY <1>2, <1>3, <1>4
  <2> QED
    BY <1>7, <2>1 DEF RequestsRight
<1>13. EventsRight'
  <2>1. e.user \notin disturbed => rows[e.user].updatedAt < e.occurredAt
    BY <1>2, <1>5 DEF Timely
  <2>2. e.user \notin disturbed => (InRedis(e.user) <=> e.active)
    BY <1>3, <1>5 DEF RequestsRight
  <2> QED
    BY <1>1, <1>6, <1>7, <2>1, <2>2 DEF EventsRight
<1>14. AckRight'
  BY <1>1, <1>7 DEF AckRight
<1> QED
  BY <1>8, <1>9, <1>10, <1>11, <1>12, <1>13, <1>14

\* A fallback writes the row itself.
LEMMA WriteSyncAgree ==
    ASSUME AgreeInv, NEW r \in Requests, WriteSync(r)
    PROVE  /\ AgreeFacts'
           /\ req[r].user \notin disturbed =>
                 RowDelta(rows[req[r].user], req[r].active, req[r].key) = req[r].delta
<1> USE DEF AgreeInv, AgreeFacts
<1>d. PICK u \in Users, active \in BOOLEAN, key \in Keys \cup {NoKey} :
         u = req[r].user /\ active = req[r].active /\ key = req[r].key
  BY RequestMoves DEF Request, TypeInv, PipelineInv, Handler
<1>1. /\ UNCHANGED <<worker, hash, queue, disturbed>> /\ Pending' = Pending
      /\ req[r].pc = "sync" /\ SetAction(u, active, key)
  BY <1>d DEF WriteSync, cacheVars, Pending
<1>2. /\ InFlight(r) /\ req[r] \in Handler
      /\ \A s \in Requests : s # r => req'[s] = req[s]
  BY RequestMoves DEF Request, TypeInv, PipelineInv
<1>3. ~InFlight(r)' /\ ~Past(r)' /\ Past(r)
  BY <1>1, <1>2 DEF WriteSync, Return, InFlight, Past, TypeInv, PipelineInv, PipelineTypes
<1>4. \A s \in Requests : s # r => InFlight(s)' = InFlight(s) /\ Past(s)' = Past(s)
  BY <1>2 DEF InFlight, Past
<1>6. Means(rows[u].key, rows[u].status) /\ Means(key, StatusOf(active))
  BY <1>2, <1>d DEF KeyMeaning
<1>7. /\ rows'[u].key = key /\ rows'[u].status = StatusOf(active)
      /\ InMySQL(u)' <=> active
      /\ RowDelta(rows[u], active, key) = Bit(active) - Bit(InMySQL(u))
      /\ \A v \in Users : v # u => rows'[v] = rows[v]
      /\ clock' = clock
  <2>1. StoreInv /\ SetAction(u, active, key)
    BY <1>1 DEF TypeInv, PipelineInv
  <2> HIDE DEF AgreeInv, AgreeFacts
  <2> QED
    BY <1>6, <2>1, WrittenState
<1>8. u \notin disturbed =>
         (InRedis(u) <=> active) /\ req[r].delta = Bit(InRedis(u)) - Bit(InMySQL(u))
  BY <1>3, <1>d DEF RequestsRight
<1>9. u \notin disturbed => RowDelta(rows[u], active, key) = req[r].delta
  BY <1>7, <1>8 DEF Bit
<1>10. \A v : InRedis(v)' = InRedis(v)
  BY <1>1 DEF InRedis
<1>11. /\ u \notin disturbed => Agree(u)'
       /\ \A v \in Users : v # u => Agree(v)' = Agree(v) /\ InMySQL(v)' = InMySQL(v)
  BY <1>7, <1>8, <1>10 DEF Agree, InMySQL
<1>12. \A s \in Requests : InFlight(s)' =>
          /\ s # r /\ InFlight(s) /\ req'[s] = req[s] /\ req[s].user \in Users
          /\ Past(s)' = Past(s)
          /\ req[s].user \notin disturbed => req[s].user # u
  BY <1>2, <1>3, <1>4, <1>d DEF Apart, TypeInv, PipelineInv, PipelineTypes, InFlight, Handler
<1>13. \A e \in Pending : e.user \in Users /\ (e.user \notin disturbed => e.user # u)
  BY <1>2, <1>d, PendingEvents DEF Apart, TypeInv, PipelineInv, Event
<1>14. Apart'
  BY <1>1, <1>12 DEF Apart
<1>15. KeyMeaning'
  <2>1. \A v \in Users : Means(rows'[v].key, rows'[v].status) /\ Means(hash'[v].key, hash'[v].status)
    BY <1>1, <1>6, <1>7 DEF KeyMeaning, HashMeaning
  <2> QED
    BY <1>1, <1>12, <2>1 DEF KeyMeaning, HashMeaning
<1>16. Timely'
  BY <1>1, <1>7, <1>12 DEF Timely
<1>17. Untouched'
  BY <1>1, <1>2, <1>4, <1>11, <1>d DEF Untouched
<1>18. RequestsRight'
  <2>1. \A s \in Requests : Past(s)' => InFlight(s)'
    BY DEF Past
  <2> QED
    BY <1>1, <1>10, <1>11, <1>12, <2>1 DEF RequestsRight
<1>19. EventsRight'
  BY <1>1, <1>7, <1>10, <1>11, <1>13 DEF EventsRight
<1>20. AckRight'
  <2> SUFFICES ASSUME worker.pc = "ack", NEW v, v = worker.event.user, v \notin disturbed
               PROVE  Agree(v)'
    BY <1>1 DEF AckRight
  <2>1. worker.event \in Pending
    BY PendingEvents DEF TypeInv, PipelineInv, Resting
  <2> QED
    BY <1>11, <1>13, <2>1 DEF AckRight
<1> QED
  BY <1>9, <1>14, <1>15, <1>16, <1>17, <1>18, <1>19, <1>20, <1>d

\* The worker writes the row an event speaks of.
LEMMA ApplyAgree ==
    ASSUME AgreeInv, Apply
    PROVE  AgreeFacts'
<1> USE DEF AgreeInv, AgreeFacts
<1>d. PICK e \in Event : e = worker.event
  BY DeliveryShape DEF Apply, Resting, TypeInv, PipelineInv
<1>1. worker # Resting /\ worker \in Delivery /\ e \in Event /\ e \in Pending
  BY <1>d, DeliveryShape, PendingEvents DEF Apply, Resting, TypeInv, PipelineInv
<1>2. /\ UNCHANGED <<queue, req, hash, disturbed>> /\ SetAction(e.user, e.active, e.key)
      /\ worker' = [worker EXCEPT !.pc = "ack"]
  BY <1>d DEF Apply, cacheVars
<1>3. worker'.event = e /\ worker' # Resting
  BY <1>1, <1>2, <1>d DEF Delivery, Resting
<1>4. Pending' = Pending
  BY <1>d, <1>1, <1>2, <1>3 DEF Pending
<1>5. \A s \in Requests : InFlight(s)' = InFlight(s) /\ Past(s)' = Past(s)
  BY <1>2 DEF InFlight, Past
<1>6. e.user \in Users /\ e.active \in BOOLEAN /\ e.key \in Keys \cup {NoKey} /\ e.occurredAt \in Nat
  BY <1>1 DEF Event
<1>7. Means(rows[e.user].key, rows[e.user].status) /\ Means(e.key, StatusOf(e.active))
  BY <1>1, <1>6 DEF KeyMeaning
<1>u. PICK u \in Users : u = e.user
  BY <1>6
<1>8. /\ rows'[u].key = e.key /\ rows'[u].status = StatusOf(e.active)
      /\ InMySQL(u)' <=> e.active
      /\ \A v \in Users : v # u => rows'[v] = rows[v]
      /\ clock' = clock
  <2>1. StoreInv /\ SetAction(u, e.active, e.key)
    BY <1>2, <1>u DEF TypeInv, PipelineInv
  <2>2. Means(rows[u].key, rows[u].status)
    BY <1>7, <1>u
  <2> HIDE DEF AgreeInv, AgreeFacts
  <2> QED
    BY <1>6, <1>7, <2>1, <2>2, WrittenState
<1>9. \A v : InRedis(v)' = InRedis(v)
  BY <1>2 DEF InRedis
<1>10. /\ u \notin disturbed => Agree(u)'
       /\ \A v \in Users : v # u => Agree(v)' = Agree(v) /\ InMySQL(v)' = InMySQL(v)
  BY <1>1, <1>8, <1>9, <1>u DEF Agree, InMySQL, EventsRight
<1>11. \A s \in Requests : InFlight(s) =>
          req[s].user \in Users /\ (req[s].user \notin disturbed => req[s].user # u)
  BY <1>1, <1>u DEF Apart, TypeInv, PipelineInv, PipelineTypes, InFlight, Handler
<1>12. \A d \in Pending : d.user \in Users
  BY PendingEvents DEF TypeInv, PipelineInv, Event
<1>13. Apart'
  BY <1>2, <1>4, <1>5 DEF Apart
<1>14. KeyMeaning'
  <2>1. \A v \in Users : Means(rows'[v].key, rows'[v].status) /\ Means(hash'[v].key, hash'[v].status)
    BY <1>2, <1>7, <1>8, <1>u DEF KeyMeaning, HashMeaning
  <2> QED
    BY <1>2, <1>4, <1>5, <2>1 DEF KeyMeaning, HashMeaning
<1>15. Timely'
  BY <1>2, <1>5, <1>8, <1>11 DEF Timely
<1>16. Untouched'
  BY <1>1, <1>2, <1>4, <1>5, <1>10, <1>u DEF Untouched
<1>17. RequestsRight'
  <2>1. \A s \in Requests : Past(s) => InFlight(s)
    BY DEF Past
  <2> QED
    BY <1>2, <1>5, <1>9, <1>10, <1>11, <2>1 DEF RequestsRight
<1>18. EventsRight'
  BY <1>2, <1>4, <1>8, <1>9, <1>10, <1>12, <1>u DEF EventsRight
<1>19. AckRight'
  BY <1>2, <1>3, <1>10, <1>u DEF AckRight
<1> QED
  BY <1>13, <1>14, <1>15, <1>16, <1>17, <1>18, <1>19

\* The broker loses a message.
Lost(r) == Publish(r) /\ UNCHANGED queue

LEMMA LostDisturbs ==
    ASSUME PipelineInv, NEW r \in Requests, Lost(r)
    PROVE  req[r].user \in disturbed'
<1>1. req[r] \in Handler
  BY RequestKeys DEF Lost, Request, PipelineInv
<1>2. PICK e \in Event : e = EventOf(req[r])
  BY <1>1 DEF EventOf, Event, Handler, PipelineInv, StoreInv, StoreTypeOK
<1>3. Len(Append(queue, e)) = Len(queue) + 1 /\ Len(queue) \in Nat
  BY DEF PipelineInv, PipelineTypes
<1>4. queue' # Append(queue, EventOf(req[r]))
  BY <1>2, <1>3 DEF Lost
<1> QED
  BY <1>4 DEF Lost, Publish, Disturb

\* Requests that read the counters back, fall back or fail.
LEMMA QuietRequest ==
    ASSUME AgreeInv, NEW r \in Requests,
           \/ ReadBase(r) \/ ReadShards(r) \/ FallBack(r)
           \/ WriteSyncFails(r) \/ Abandon(r) \/ Lost(r)
    PROVE  /\ Carried /\ Ended
           /\ UNCHANGED <<rows, hash, base, shards, clock, worker, askew>>
           /\ Pending' = Pending
<1>1. /\ InFlight(r) /\ req[r] \in Handler
      /\ \A s \in Requests : s # r => req'[s] = req[s]
      /\ InFlight(r)' =>
            /\ req'[r].pc # "script"
            /\ req'[r].user = req[r].user /\ req'[r].active = req[r].active
            /\ req'[r].key = req[r].key /\ req'[r].initial = req[r].initial
            /\ ~RunScript(r) => req'[r].delta = req[r].delta
  BY RequestMoves DEF Request, Lost, AgreeInv, TypeInv, PipelineInv
<1>2. ASSUME NEW result, Return(r, result) PROVE ~InFlight(r)'
  BY <1>2 DEF Return, InFlight, AgreeInv, TypeInv, PipelineInv, PipelineTypes
<1>3. InFlight(r)' /\ req[r].user \notin disturbed' => Past(r) /\ ~RunScript(r)
  <2>1. CASE ReadBase(r) \/ ReadShards(r) \/ FallBack(r)
    BY <1>1, <2>1 DEF ReadBase, ReadShards, FallBack, Disturb, RunScript, Past
  <2>2. CASE WriteSyncFails(r) \/ Abandon(r) \/ Lost(r)
    BY <1>2, <2>2 DEF WriteSyncFails, Abandon, Lost, Publish
  <2> QED
    BY <2>1, <2>2
<1>4. \A s \in Requests : s # r => InFlight(s)' = InFlight(s) /\ Past(s)' = Past(s)
  BY <1>1 DEF InFlight, Past
<1>5. Carried
  BY <1>1, <1>3, <1>4 DEF Carried
<1>6. Past(r)' \/ req[r].delta = 0 \/ req[r].user \in disturbed'
  <2>1. CASE ReadBase(r)
    <3> DEFINE q == [req[r] EXCEPT !.pc = "shards", !.base = base]
    <3>1. req' = [req EXCEPT ![r] = q] /\ q.pc = "shards"
      BY <1>1, <2>1 DEF ReadBase, Handler
    <3> HIDE DEF q
    <3>2. req'[r].pc = "shards"
      BY <3>1 DEF AgreeInv, TypeInv, PipelineInv, PipelineTypes
    <3> QED
      BY <3>2 DEF Past, InFlight, Idle, Done
  <2>2. ASSUME NEW pc \in {"publish", "sync"}, Goto(r, pc) PROVE Past(r)'
    <3> DEFINE q == [req[r] EXCEPT !.pc = pc]
    <3>1. req' = [req EXCEPT ![r] = q] /\ q.pc = pc
      BY <1>1, <2>2 DEF Goto, Handler
    <3> HIDE DEF q
    <3>2. req'[r].pc = pc
      BY <3>1 DEF AgreeInv, TypeInv, PipelineInv, PipelineTypes
    <3> QED
      BY <3>2 DEF Past, InFlight, Idle, Done
  <2>3. CASE ReadShards(r) \/ FallBack(r)
    BY <2>2, <2>3 DEF ReadShards, FallBack
  <2>4. CASE WriteSyncFails(r) \/ Abandon(r)
    BY <2>4 DEF WriteSyncFails, Abandon, DisturbUnfinished, Disturb
  <2>5. CASE Lost(r)
    BY <2>5, LostDisturbs DEF AgreeInv, TypeInv
  <2> QED
    BY <2>1, <2>3, <2>4, <2>5
<1>7. Ended
  BY <1>4, <1>6 DEF Ended
<1>8. UNCHANGED <<rows, hash, base, shards, clock, queue, worker, askew>>
  BY DEF ReadBase, ReadShards, FallBack, WriteSyncFails, Abandon, Lost, Publish,
         storeVars, cacheVars, sideVars, historyVars
<1> QED
  BY <1>5, <1>7, <1>8 DEF Pending

\* Where no request moves, all are carried.
LEMMA RestCarried == UNCHANGED req /\ disturbed \subseteq disturbed' => Carried /\ Ended
BY DEF Carried, Ended, InFlight, Past

\* The worker without a write.
LEMMA WorkerAgree ==
    ASSUME AgreeInv, Deliver \/ Lookup \/ LookupFails \/ Ack \/ Requeue
    PROVE  AgreeFacts'
<1>1. /\ UNCHANGED <<rows, hash, clock, req, disturbed>> /\ clock \in Nat
      /\ Carried /\ Ended
  BY RestCarried DEF Deliver, Lookup, LookupFails, Ack, Requeue, storeVars, cacheVars, historyVars,
         AgreeInv, TypeInv, PipelineInv, StoreInv, StoreTypeOK
<1>2. /\ (Lookup /\ Stale(worker.event)) \/ Ack => Pending \subseteq Pending' \cup {worker.event}
      /\ ~((Lookup /\ Stale(worker.event)) \/ Ack) => Pending' = Pending
      /\ Pending' \subseteq Pending
  BY WorkerKeeps DEF AgreeInv, TypeInv, PipelineInv
<1>3. CASE (Lookup /\ Stale(worker.event)) \/ Ack
  <2>1. worker # Resting /\ worker' = Resting
    BY <1>3 DEF Lookup, Ack, Resting
  <2>2. worker.event \in Event /\ worker.event \in Pending
    BY <2>1, DeliveryShape, PendingEvents DEF AgreeInv, TypeInv, PipelineInv
  <2>3. worker.event.user \notin disturbed => Agree(worker.event.user)
    <3>1. CASE Ack
      BY <3>1 DEF Ack, AgreeInv, AgreeFacts, AckRight
    <3>2. CASE Stale(worker.event)
      <4>1. worker.event.occurredAt <= rows[worker.event.user].updatedAt
        BY <3>2 DEF Stale
      <4>2. worker.event.occurredAt \in Nat /\ rows[worker.event.user].updatedAt \in Nat
        BY <2>2 DEF Event, AgreeInv, TypeInv, PipelineInv, StoreInv, StoreTypeOK, Row
      <4> QED
        BY <2>2, <4>1, <4>2 DEF AgreeInv, AgreeFacts, EventsRight
    <3> QED
      BY <1>3, <3>1, <3>2
  <2> QED
    BY <1>1, <1>2, <1>3, <2>1, <2>2, <2>3, ForgetAgree
<1>4. CASE ~((Lookup /\ Stale(worker.event)) \/ Ack)
  <2>1. worker'.pc # "ack"
    <3>1. CASE Deliver \/ Requeue
      <4>1. worker' = Resting \/ worker'.pc = "lookup"
        BY <3>1 DEF Deliver, Requeue
      <4> QED
        BY <4>1 DEF Resting
    <3>2. CASE Lookup \/ LookupFails
      <4>1. worker \in Delivery /\ worker' = [worker EXCEPT !.pc = "apply"]
        BY <1>4, <3>2, DeliveryShape DEF Lookup, LookupFails, Resting, AgreeInv, TypeInv, PipelineInv
      <4> QED
        BY <4>1 DEF Delivery
    <3> QED
      BY <1>4, <3>1, <3>2
  <2>2. clock' >= clock /\ disturbed \subseteq disturbed'
    BY <1>1
  <2>3. HashMeaning' /\ \A u : InRedis(u)' = InRedis(u)
    BY <1>1 DEF HashMeaning, InRedis, AgreeInv, AgreeFacts, KeyMeaning
  <2> QED
    BY <1>1, <1>2, <1>4, <2>1, <2>2, <2>3, QuietAgree
<1> QED
  BY <1>3, <1>4

\* Time, a deleted video, lost keys and stuttering.
Outside == Delete \/ TimePasses \/ KeyLost \/ UNCHANGED vars

LEMMA OutsideStep ==
    ASSUME AgreeInv, disturbed \subseteq disturbed', Outside
    PROVE  /\ Carried /\ Ended /\ Pending' = Pending
           /\ UNCHANGED <<rows, worker, req, hotScore, missed>>
           /\ HashMeaning' /\ \A u \in Users \ disturbed' : InRedis(u)' = InRedis(u)
           /\ clock' \in Nat /\ clock' >= clock
<1> USE DEF Outside
<1>1. UNCHANGED <<rows, queue, worker, req, hotScore, missed>>
  BY DEF Delete, Unpublish, TimePasses, Tick, KeyLost, vars, storeVars, pipelineVars, sideVars, historyVars
<1>2. HashMeaning' /\ \A u \in Users \ disturbed' : InRedis(u)' = InRedis(u)
  <2>1. HashMeaning
    BY DEF AgreeInv, AgreeFacts, KeyMeaning
  <2>2. CASE UNCHANGED hash
    BY <2>1, <2>2 DEF HashMeaning, InRedis
  <2>3. ASSUME NEW u \in Users, ExpireHash(u),
               IF hash[u].status = Active THEN Disturb(u) ELSE UNCHANGED disturbed
        PROVE  HashMeaning' /\ \A v \in Users \ disturbed' : InRedis(v)' = InRedis(v)
    <3>1. hash'[u] = NoHash /\ \A v \in Users : v # u => hash'[v] = hash[v]
      BY <2>3 DEF ExpireHash, AgreeInv, TypeInv, SideTypes
    <3>2. HashMeaning'
      BY <2>1, <3>1 DEF HashMeaning, Means, NoHash
    <3>3. u \in disturbed' \/ ~InRedis(u)
      BY <2>3 DEF Disturb, InRedis
    <3>4. ~InRedis(u)'
      BY <3>1 DEF InRedis, NoHash, Absent, Active
    <3> QED
      BY <3>1, <3>2, <3>3, <3>4 DEF InRedis
  <2>4. CASE KeyLost
    BY <2>2, <2>3, <2>4 DEF KeyLost, ExpireJSON, ExpireShard, EvictBase, ExpireCounters
  <2>5. CASE Delete \/ TimePasses \/ UNCHANGED vars
    BY <2>2, <2>5 DEF Delete, TimePasses, vars, cacheVars
  <2> QED
    BY <2>4, <2>5
<1>3. clock' \in Nat /\ clock' >= clock
  <2>1. clock \in Nat
    BY DEF AgreeInv, TypeInv, PipelineInv, StoreInv, StoreTypeOK
  <2>2. clock' = clock \/ clock' = clock + 1
    BY DEF Delete, Unpublish, TimePasses, Tick, KeyLost, vars, storeVars
  <2> QED
    BY <2>1, <2>2
<1> QED
  BY <1>1, <1>2, <1>3, RestCarried DEF Pending

\* A message is published or lost.
LEMMA PublishOrLost ==
    ASSUME NEW r \in Requests, Publish(r)
    PROVE  Lost(r) \/ (queue' = Append(queue, EventOf(req[r])) /\ UNCHANGED disturbed)
BY DEF Publish, Lost

\* Every step keeps the agreement.
LEMMA AgreeStep == AgreeInv /\ [Next]_vars => AgreeInv'
<1> SUFFICES ASSUME AgreeInv, [Next]_vars PROVE AgreeInv'
  OBVIOUS
<1>1. TypeInv' /\ disturbed \subseteq disturbed'
  BY TypeStep, DisturbedGrows DEF AgreeInv
<1>2. clock \in Nat /\ HashMeaning
  BY DEF AgreeInv, AgreeFacts, KeyMeaning, TypeInv, PipelineInv, StoreInv, StoreTypeOK
<1>3. ASSUME NEW r \in Requests,
             \/ ReadBase(r) \/ ReadShards(r) \/ FallBack(r)
             \/ WriteSyncFails(r) \/ Abandon(r) \/ Lost(r)
      PROVE  AgreeFacts'
  <2>1. /\ Carried /\ Ended /\ UNCHANGED <<rows, hash, clock, worker>> /\ Pending' = Pending
    BY <1>3, QuietRequest
  <2>2. clock' \in Nat /\ clock' >= clock /\ HashMeaning' /\ \A u : InRedis(u)' = InRedis(u)
    BY <1>2, <2>1 DEF HashMeaning, InRedis
  <2> QED
    BY <1>1, <2>1, <2>2, QuietAgree
<1>4. ASSUME NEW r \in Requests, Request(r) \/ Abandon(r)
      PROVE  AgreeFacts'
  BY <1>3, <1>4, ScriptAgree, PublishOrLost, PublishAgree, WriteSyncAgree DEF Request
<1>5. ASSUME Worker PROVE AgreeFacts'
  BY <1>5, WorkerAgree, ApplyAgree DEF Worker
<1>6. ASSUME Outside PROVE AgreeFacts'
  <2>1. /\ Carried /\ Ended /\ Pending' = Pending
        /\ UNCHANGED <<rows, worker>>
        /\ HashMeaning' /\ \A u \in Users \ disturbed' : InRedis(u)' = InRedis(u)
        /\ clock' \in Nat /\ clock' >= clock
    BY <1>1, <1>6, OutsideStep
  <2> QED
    BY <1>1, <2>1, QuietAgree
<1>7. AgreeFacts'
  BY <1>4, <1>5, <1>6, StartAgree DEF Next, Outside
<1> QED
  BY <1>1, <1>7 DEF AgreeInv

\* At first a user is disturbed if hash and row differ.
LEMMA AgreeInit == Init => AgreeInv
<1> SUFFICES ASSUME Init PROVE AgreeInv
  OBVIOUS
<1>1. /\ TypeInv /\ worker = Resting
      /\ \A r \in Requests : ~InFlight(r) /\ ~Past(r)
      /\ Pending = {}
  BY TypeInit DEF Init, InFlight, Past, Pending
<1>2. \A u \in Users :
         /\ rows[u].key = NoKey /\ hash[u].key = NoKey
         /\ InRedis(u) <=> u \in Warm
         /\ InMySQL(u) <=> u \in InitiallyLiked
  BY DEF Init, StoreInit, CacheInit, InRedis, InMySQL, NoRow, NoHash, Absent, Active
<1>3. \A u \in Users \ disturbed : Agree(u)
  BY <1>2 DEF Init, Agree
<1>4. Apart /\ KeyMeaning /\ Timely /\ Untouched
  BY <1>1, <1>2, <1>3 DEF Apart, KeyMeaning, HashMeaning, Means, Timely, Untouched
<1>5. RequestsRight /\ EventsRight /\ AckRight
  BY <1>1 DEF RequestsRight, EventsRight, AckRight, Resting
<1> QED
  BY <1>1, <1>4, <1>5 DEF AgreeInv, AgreeFacts

\* When nothing is under way the stores agree on every user.
LEMMA QuietMeans == AgreeInv /\ Quiet => \A u \in Users \ disturbed : Agree(u)
<1> SUFFICES ASSUME AgreeInv, Quiet PROVE \A u \in Users \ disturbed : Agree(u)
  OBVIOUS
<1>1. /\ \A r \in Requests : ~Past(r)
      /\ Pending = {}
  BY DEF Quiet, Past, Pending
<1> QED
  BY <1>1 DEF AgreeInv, AgreeFacts, Untouched

\* Once everything has been consumed MySQL holds, for every user who was not
\* disturbed, the state that Redis answered with, whatever redeliveries,
\* fallbacks, failed lookups and deaths of the processes came between
\* (setActionAsync, HandleActionChanged).
THEOREM StoresAgree == Spec => []QuiescentAgreement
<1>1. AgreeInv => QuiescentAgreement
  BY QuietMeans DEF QuiescentAgreement, Agree, InRedis, InMySQL
<1>2. Init => AgreeInv
  BY AgreeInit
<1>3. AgreeInv /\ [Next]_vars => AgreeInv'
  BY AgreeStep
<1> QED
  BY <1>1, <1>2, <1>3, PTL DEF Spec

-----------------------------------------------------------------------------
(* The hot score.                                                          *)

\* What user u's changes were worth, and what they should be: the difference
\* between the hash at first and the hash now.
Score(u) == hotScore[u] + hotScoreLikeWeight * missed[u]
Worth(u) == hotScoreLikeWeight * (Bit(InRedis(u)) - Bit(u \in Warm))

\* They are the same but for the change of a request on its way.
HotInv ==
    \A u \in Users \ disturbed :
        /\ (\A r \in Requests : Past(r) => req[r].user # u) => Score(u) = Worth(u)
        /\ \A r \in Requests : Past(r) /\ req[r].user = u =>
              Score(u) + hotScoreLikeWeight * req[r].delta = Worth(u)

\* Record counts a change once, as credited or as missed.
LEMMA Recorded ==
    ASSUME LedgerTypes, NEW u \in Users, NEW delta \in {-1, 0, 1}, Record(u, delta)
    PROVE  /\ Score(u)' = Score(u) + hotScoreLikeWeight * delta
           /\ \A v \in Users : v # u => Score(v)' = Score(v)
<1>1. PICK h \in Int, m \in Int : h = hotScore[u] /\ m = missed[u]
  BY DEF LedgerTypes
<1>2. \/ hotScore'[u] = h + delta * 3 /\ missed'[u] = m
      \/ hotScore'[u] = h /\ missed'[u] = m + delta
  BY <1>1 DEF Record, LedgerTypes, hotScoreLikeWeight
<1>3. hotScore'[u] + 3 * missed'[u] = (h + 3 * m) + 3 * delta
  BY <1>2
<1>4. \A v \in Users : v # u => hotScore'[v] = hotScore[v] /\ missed'[v] = missed[v]
  BY DEF Record, LedgerTypes
<1> QED
  BY <1>1, <1>3, <1>4 DEF Score, hotScoreLikeWeight

\* Steps that credit nothing to users who are not disturbed.
LEMMA CarriedHot ==
    ASSUME AgreeInv, HotInv, Carried, Ended, disturbed \subseteq disturbed',
           \A u \in Users \ disturbed' : InRedis(u)' = InRedis(u) /\ Score(u)' = Score(u)
    PROVE  HotInv'
<1> SUFFICES ASSUME NEW u \in Users \ disturbed'
             PROVE  /\ (\A r \in Requests : Past(r)' => req'[r].user # u) => Score(u)' = Worth(u)'
                    /\ \A r \in Requests : Past(r)' /\ req'[r].user = u =>
                          Score(u)' + hotScoreLikeWeight * req'[r].delta = Worth(u)'
  BY DEF HotInv
<1>1. Score(u)' = Score(u) /\ Worth(u)' = Worth(u) /\ u \in Users \ disturbed
  BY DEF Worth
<1>2. ASSUME \A r \in Requests : Past(r)' => req'[r].user # u
      PROVE  Score(u) = Worth(u)
  <2>1. CASE \A r \in Requests : Past(r) => req[r].user # u
    BY <1>1, <2>1 DEF HotInv
  <2>2. ASSUME NEW s \in Requests, Past(s), req[s].user = u
        PROVE  Score(u) = Worth(u)
    <3>1. ~Past(s)'
      <4>1. Past(s)' => InFlight(s)'
        BY DEF Past
      <4> QED
        BY <1>2, <2>2, <4>1 DEF Carried
    <3>2. req[s].delta = 0
      BY <2>2, <3>1 DEF Ended
    <3>3. Score(u) + 3 * 0 = Worth(u)
      BY <1>1, <2>2, <3>2 DEF HotInv, hotScoreLikeWeight
    <3>4. Score(u) \in Int
      BY DEF Score, hotScoreLikeWeight, AgreeInv, TypeInv, SideTypes, LedgerTypes
    <3> QED
      BY <3>3, <3>4
  <2> QED
    BY <2>1, <2>2
<1>3. ASSUME NEW r \in Requests, Past(r)', req'[r].user = u
      PROVE  Score(u) + hotScoreLikeWeight * req'[r].delta = Worth(u)
  <2>1. InFlight(r)'
    BY <1>3 DEF Past
  <2>2. Past(r) /\ req[r].user = u /\ req'[r].delta = req[r].delta
    BY <1>3, <2>1 DEF Carried
  <2> QED
    BY <1>1, <2>2 DEF HotInv
<1> QED
  BY <1>1, <1>2, <1>3

\* The end of a request credits its change.
LEMMA EndHot ==
    ASSUME AgreeInv, HotInv, NEW r \in Requests, NEW u \in Users, u = req[r].user,
           Past(r), ~Past(r)', \A s \in Requests : s # r => req'[s] = req[s],
           UNCHANGED <<hash, disturbed>>,
           u \notin disturbed => Score(u)' = Score(u) + hotScoreLikeWeight * req[r].delta,
           \A v \in Users : v # u => Score(v)' = Score(v)
    PROVE  HotInv'
<1>1. \A s \in Requests : s # r => Past(s)' = Past(s)
  BY DEF Past, InFlight
<1>2. \A v \in Users : Worth(v)' = Worth(v)
  BY DEF Worth, InRedis
<1>3. u \notin disturbed => \A s \in Requests : Past(s)' => req'[s].user # u
  BY <1>1 DEF AgreeInv, AgreeFacts, Apart, Past
<1>4. u \notin disturbed => Score(u)' = Worth(u)
  BY DEF HotInv
<1>5. \A v \in Users \ disturbed : v # u =>
         /\ (\A s \in Requests : Past(s)' => req'[s].user # v) => Score(v)' = Worth(v)'
         /\ \A s \in Requests : Past(s)' /\ req'[s].user = v =>
               Score(v)' + hotScoreLikeWeight * req'[s].delta = Worth(v)'
  BY <1>1, <1>2 DEF HotInv
<1> QED
  BY <1>2, <1>3, <1>4, <1>5 DEF HotInv

\* The script's change is not credited yet.
LEMMA ScriptHot ==
    ASSUME AgreeInv, HotInv, NEW r \in Requests, RunScript(r)
    PROVE  HotInv'
<1>1. /\ InFlight(r) /\ req[r] \in Handler
      /\ \A s \in Requests : s # r => req'[s] = req[s]
  BY RequestMoves DEF Request, AgreeInv, TypeInv, PipelineInv
<1>2. PICK u \in Users, active \in BOOLEAN, key \in Keys \cup {NoKey}, d \in {-1, 0, 1} :
         /\ u = req[r].user /\ active = req[r].active /\ key = req[r].key
         /\ d = ScriptDelta(hash[u], active, key)
  BY <1>1 DEF Handler, ScriptDelta
<1>3. /\ req'[r].pc = "base" /\ req'[r].user = u /\ req'[r].delta = d
  BY <1>1, <1>2 DEF RunScript, AgreeInv, TypeInv, PipelineInv, PipelineTypes, Handler
<1>4. Past(r)' /\ ~Past(r)
  <2>1. req[r].pc = "script"
    BY DEF RunScript
  <2> QED
    BY <1>3, <2>1 DEF InFlight, Past, Idle, Done
<1>5. \A s \in Requests : s # r => Past(s)' = Past(s)
  BY <1>1 DEF Past, InFlight
<1>6. u \notin disturbed => \A s \in Requests : Past(s) => req[s].user # u
  BY <1>1, <1>2, <1>4 DEF AgreeInv, AgreeFacts, Apart, Past
<1>7. d = Bit(active) - Bit(InRedis(u)) /\ (InRedis(u)' <=> active)
      /\ \A v \in Users : v # u => hash'[v] = hash[v]
  <2>1. Means(hash[u].key, hash[u].status) /\ Means(key, StatusOf(active)) /\ hash \in [Users -> Hash]
    BY <1>1, <1>2 DEF AgreeInv, AgreeFacts, KeyMeaning, HashMeaning, TypeInv, SideTypes
  <2>2. Script(u, active, key, req[r].initial)
    BY <1>2 DEF RunScript
  <2> QED
    BY <1>2, <2>1, <2>2, ScriptedState
<1>8. UNCHANGED <<disturbed, hotScore, missed>>
  BY DEF RunScript, sideVars
<1>9. \A v \in Users : Score(v)' = Score(v)
  BY <1>8 DEF Score
<1>10. \A v \in Users : v # u => Worth(v)' = Worth(v)
  BY <1>7 DEF Worth, InRedis
<1>11. Worth(u)' = Worth(u) + hotScoreLikeWeight * d
  <2>1. PICK b \in {0, 1}, c \in {0, 1}, w \in {0, 1} :
           b = Bit(InRedis(u)) /\ c = Bit(active) /\ w = Bit(u \in Warm)
    BY DEF Bit
  <2>2. Bit(InRedis(u))' = c
    BY <1>7, <2>1 DEF Bit
  <2>3. d = c - b /\ 3 * (c - w) = 3 * (b - w) + 3 * d
    BY <1>7, <2>1
  <2> QED
    BY <2>1, <2>2, <2>3 DEF Worth, hotScoreLikeWeight
<1>12. u \notin disturbed => Score(u) = Worth(u)
  BY <1>6 DEF HotInv
<1>13. ASSUME u \notin disturbed, NEW s \in Requests, Past(s)', req'[s].user = u
       PROVE  s = r
  BY <1>1, <1>5, <1>6, <1>13
<1>14. \A v \in Users \ disturbed : v # u =>
         /\ (\A s \in Requests : Past(s)' => req'[s].user # v) => Score(v)' = Worth(v)'
         /\ \A s \in Requests : Past(s)' /\ req'[s].user = v =>
               Score(v)' + hotScoreLikeWeight * req'[s].delta = Worth(v)'
  BY <1>1, <1>3, <1>4, <1>5, <1>9, <1>10 DEF HotInv
<1> QED
  BY <1>3, <1>4, <1>8, <1>9, <1>11, <1>12, <1>13, <1>14 DEF HotInv

\* A request that starts has changed nothing.
LEMMA StartHot ==
    ASSUME AgreeInv, HotInv, disturbed \subseteq disturbed',
           NEW r \in Requests, NEW u \in Users, NEW active \in BOOLEAN,
           NEW key \in KeysFor(active, sent), Start(r, u, active, key)
    PROVE  HotInv'
<1>1. /\ \A s \in Requests : s # r => req'[s] = req[s]
      /\ ~Past(r) /\ ~Past(r)' /\ UNCHANGED <<hash, hotScore, missed>>
  BY DEF Start, AgreeInv, TypeInv, PipelineInv, PipelineTypes, InFlight, Past, cacheVars, sideVars, Idle, Done
<1>2. \A s \in Requests : Past(s)' = Past(s) /\ (Past(s) => req'[s] = req[s])
  BY <1>1 DEF Past, InFlight
<1>3. \A v \in Users : Score(v)' = Score(v) /\ Worth(v)' = Worth(v)
  BY <1>1 DEF Score, Worth, InRedis
<1> QED
  BY <1>2, <1>3 DEF HotInv

\* Every step keeps the score.
LEMMA HotStep == AgreeInv /\ HotInv /\ [Next]_vars => HotInv'
<1> SUFFICES ASSUME AgreeInv, HotInv, [Next]_vars PROVE HotInv'
  OBVIOUS
<1>1. /\ disturbed \subseteq disturbed' /\ LedgerTypes
      /\ PipelineInv
  BY DisturbedGrows DEF AgreeInv, TypeInv, SideTypes
<1>2. ASSUME NEW r \in Requests,
             \/ ReadBase(r) \/ ReadShards(r) \/ FallBack(r)
             \/ WriteSyncFails(r) \/ Abandon(r) \/ Lost(r)
      PROVE  HotInv'
  <2>1. Carried /\ Ended /\ UNCHANGED hash
    BY <1>2, QuietRequest
  <2>2. \A u \in Users \ disturbed' : Score(u)' = Score(u)
    <3>1. CASE Lost(r)
      <4>1. PICK v \in Users, d \in {-1, 0, 1} : v = req[r].user /\ d = req[r].delta
        BY <1>1, <3>1, RequestKeys DEF Lost, Request, PipelineInv, Handler
      <4>2. v \in disturbed'
        BY <1>1, <3>1, <4>1, LostDisturbs
      <4>3. Record(v, d)
        BY <3>1, <4>1 DEF Lost, Publish
      <4> QED
        BY <1>1, <4>2, <4>3, Recorded
    <3>2. CASE ~Lost(r)
      <4>1. UNCHANGED <<hotScore, missed>>
        BY <1>2, <3>2 DEF ReadBase, ReadShards, FallBack, WriteSyncFails, Abandon, sideVars, historyVars
      <4> QED
        BY <4>1 DEF Score
    <3> QED
      BY <3>1, <3>2
  <2> QED
    BY <1>1, <2>1, <2>2, CarriedHot DEF InRedis
<1>3. ASSUME NEW r \in Requests,
             \/ Publish(r) /\ UNCHANGED disturbed
             \/ WriteSync(r)
      PROVE  HotInv'
  <2>1. /\ InFlight(r) /\ req[r] \in Handler
        /\ \A s \in Requests : s # r => req'[s] = req[s]
    BY <1>1, <1>3, RequestMoves DEF Request, PipelineInv
  <2>2. Past(r) /\ ~Past(r)' /\ UNCHANGED <<hash, disturbed>>
    BY <1>1, <1>3, <2>1 DEF Publish, WriteSync, Return, Past, InFlight, cacheVars,
                            PipelineInv, PipelineTypes
  <2>3. PICK u \in Users, active \in BOOLEAN, key \in Keys \cup {NoKey}, d \in {-1, 0, 1} :
           u = req[r].user /\ active = req[r].active /\ key = req[r].key /\ d = req[r].delta
    BY <2>1 DEF Handler
  <2>4. PICK e \in {-1, 0, 1} : Record(u, e) /\ (u \notin disturbed => e = d)
    <3>1. CASE Publish(r)
      BY <2>3, <3>1 DEF Publish
    <3>2. CASE WriteSync(r)
      <4>1. PICK e \in {-1, 0, 1} : e = RowDelta(rows[u], active, key)
        BY DEF RowDelta
      <4>2. Record(u, e)
        BY <2>3, <3>2, <4>1 DEF WriteSync
      <4> QED
        BY <2>3, <3>2, <4>1, <4>2, WriteSyncAgree
    <3> QED
      BY <1>3, <3>1, <3>2
  <2>5. /\ u \notin disturbed => Score(u)' = Score(u) + hotScoreLikeWeight * req[r].delta
        /\ \A v \in Users : v # u => Score(v)' = Score(v)
    BY <1>1, <2>3, <2>4, Recorded
  <2> QED
    BY <2>1, <2>2, <2>3, <2>5, EndHot
<1>4. ASSUME NEW r \in Requests, Request(r) \/ Abandon(r)
      PROVE  HotInv'
  BY <1>2, <1>3, <1>4, ScriptHot, PublishOrLost DEF Request
<1>5. ASSUME Worker PROVE HotInv'
  <2>1. UNCHANGED <<hash, hotScore, missed, req>>
    BY <1>5 DEF Worker, Deliver, Lookup, LookupFails, Apply, Ack, Requeue, cacheVars, sideVars, historyVars
  <2> QED
    BY <1>1, <2>1, RestCarried, CarriedHot DEF InRedis, Score
<1>6. ASSUME Outside PROVE HotInv'
  <2>1. /\ Carried /\ Ended /\ UNCHANGED <<hotScore, missed>>
        /\ \A u \in Users \ disturbed' : InRedis(u)' = InRedis(u)
    BY <1>1, <1>6, OutsideStep
  <2>2. \A u : Score(u)' = Score(u)
    BY <2>1 DEF Score
  <2> QED
    BY <1>1, <2>1, <2>2, CarriedHot
<1> QED
  BY <1>1, <1>4, <1>5, <1>6, StartHot DEF Next, Outside

\* At first nobody has changed anything.
LEMMA HotInit == Init => HotInv
<1> SUFFICES ASSUME Init PROVE HotInv
  OBVIOUS
<1>1. \A u \in Users : InRedis(u) <=> u \in Warm
  BY DEF Init, CacheInit, InRedis, NoHash, Absent, Active
<1>2. \A u \in Users : Score(u) = 0
  BY DEF Init, Score, hotScoreLikeWeight
<1>3. \A u \in Users : Worth(u) = 0
  BY <1>1 DEF Worth, Bit, hotScoreLikeWeight
<1>4. \A r \in Requests : ~Past(r)
  BY DEF Init, Past, InFlight
<1> QED
  BY <1>2, <1>3, <1>4 DEF HotInv

\* Once everything has been consumed the hot score of every user who was not
\* disturbed has each like and each cancellation that took effect exactly once,
\* but for those AddHotScore failed for (recordActionHotScore): a retry with the
\* same key, a repeated like, a fallback and a redelivery are worth nothing.
THEOREM HotScoreExact == Spec => []QuiescentHotScore
<1>1. HotInv => QuiescentHotScore
  <2> SUFFICES ASSUME HotInv, Quiet, NEW u \in Users \ disturbed
               PROVE  Score(u) = Worth(u)
    BY DEF QuiescentHotScore, Score, Worth, InRedis
  <2>1. \A r \in Requests : ~Past(r)
    BY DEF Quiet, Past
  <2> QED
    BY <2>1 DEF HotInv
<1>2. Init => AgreeInv /\ HotInv
  BY AgreeInit, HotInit
<1>3. AgreeInv /\ HotInv /\ [Next]_vars => AgreeInv' /\ HotInv'
  BY AgreeStep, HotStep
<1> QED
  BY <1>1, <1>2, <1>3, PTL DEF Spec

-----------------------------------------------------------------------------
(* The counter in Redis.                                                   *)

InRedisUsers == {u \in Users : InRedis(u)}

\* Base and shards count the likes in Redis, if the base was made from a count
\* that was exact and nobody is disturbed.
CountsInv ==
    disturbed = {} /\ base.live /\ ~askew => Total = Cardinality(InRedisUsers)

\* Users are finitely many, so their sets have cardinalities.
LEMMA UserCounts ==
    \A S \in SUBSET Users : IsFiniteSet(S) /\ Cardinality(S) \in Nat
BY UsersAssumption, FS_Subset, FS_CardinalityType

\* Steps that leave the caches alone.
LEMMA QuietCounts ==
    ASSUME CountsInv, disturbed \subseteq disturbed', UNCHANGED <<hash, base, shards, askew>>
    PROVE  CountsInv'
BY DEF CountsInv, Total, Matching, InRedisUsers, InRedis

\* When the snapshot is exact and nobody is disturbed, the stores agree.
LEMMA ExactSnapshot ==
    ASSUME AgreeInv, disturbed = {}, NEW r \in Requests, ~Past(r), SnapshotExact(r)
    PROVE  req[r].initial = Cardinality(InRedisUsers)
<1>1. /\ \A s \in Requests : ~Past(s)
      /\ Pending = {}
  BY DEF SnapshotExact, Pending
<1>2. \A v \in Users : Agree(v)
  BY <1>1 DEF AgreeInv, AgreeFacts, Untouched
<1>3. InRedisUsers = ActiveUsers
  BY <1>2 DEF InRedisUsers, ActiveUsers, Agree, InRedis, InMySQL
<1> QED
  BY <1>3 DEF SnapshotExact, AgreeInv, TypeInv, PipelineInv, StoreInv, CountIsActiveRows

\* The script counts its change, in the base that is there or in a new one.
LEMMA ScriptCounts ==
    ASSUME AgreeInv, CountsInv, NEW r \in Requests, RunScript(r)
    PROVE  CountsInv'
<1>1. /\ InFlight(r) /\ req[r] \in Handler
  BY RequestMoves DEF Request, AgreeInv, TypeInv, PipelineInv
<1>2. PICK u \in Users, active \in BOOLEAN, key \in Keys \cup {NoKey}, d \in {-1, 0, 1}, n \in Nat :
         /\ u = req[r].user /\ active = req[r].active /\ key = req[r].key /\ n = req[r].initial
         /\ d = ScriptDelta(hash[u], active, key)
  BY <1>1 DEF Handler, ScriptDelta
<1>3. Script(u, active, key, n) /\ ~Past(r) /\ UNCHANGED disturbed
      /\ (base.live => askew' = askew) /\ (~base.live => askew' = ~SnapshotExact(r))
  BY <1>2 DEF RunScript, Past
<1>4. CacheEpochs /\ hash \in [Users -> Hash]
  BY DEF AgreeInv, TypeInv, SideTypes
<1>5. base'.live /\ Total' = (IF base.live THEN Total ELSE n) + d
  BY <1>2, <1>3, <1>4, ScriptTotal
<1>6. d = Bit(active) - Bit(InRedis(u)) /\ (InRedis(u)' <=> active)
      /\ \A v \in Users : v # u => hash'[v] = hash[v]
  <2>1. Means(hash[u].key, hash[u].status) /\ Means(key, StatusOf(active))
    BY <1>1, <1>2 DEF AgreeInv, AgreeFacts, KeyMeaning, HashMeaning
  <2> QED
    BY <1>2, <1>3, <1>4, <2>1, ScriptedState
<1>7. /\ u \in InRedisUsers <=> InRedis(u)
      /\ u \in InRedisUsers' <=> active
      /\ \A v \in Users : v # u => (v \in InRedisUsers' <=> v \in InRedisUsers)
  BY <1>6 DEF InRedisUsers, InRedis
<1>8. InRedisUsers \in SUBSET Users /\ InRedisUsers' \in SUBSET Users
  BY DEF InRedisUsers
<1>9. IsFiniteSet(InRedisUsers) /\ Cardinality(InRedisUsers) \in Nat
  BY <1>8, UserCounts
<1>10. Cardinality(InRedisUsers') = Cardinality(InRedisUsers) + d
  <2>1. CASE d = 0
    <3>1. InRedis(u) <=> active
      BY <1>6, <2>1 DEF Bit
    <3>2. InRedisUsers' = InRedisUsers
      BY <1>7, <1>8, <3>1
    <3> QED
      BY <1>9, <2>1, <3>2
  <2>2. CASE d = 1
    <3>1. ~InRedis(u) /\ active
      BY <1>6, <2>2 DEF Bit
    <3>2. u \notin InRedisUsers /\ InRedisUsers' = InRedisUsers \cup {u}
      BY <1>7, <1>8, <3>1
    <3> QED
      BY <1>9, <2>2, <3>2, FS_AddElement
  <2>3. CASE d = -1
    <3>1. InRedis(u) /\ ~active
      BY <1>6, <2>3 DEF Bit
    <3>2. u \in InRedisUsers /\ InRedisUsers' = InRedisUsers \ {u}
      BY <1>7, <1>8, <3>1
    <3>3. Cardinality(InRedisUsers') = Cardinality(InRedisUsers) - 1
      BY <1>9, <3>2, FS_RemoveElement
    <3> QED
      BY <1>9, <2>3, <3>3
  <2> QED
    BY <2>1, <2>2, <2>3
<1>11. CASE base.live
  BY <1>3, <1>5, <1>10, <1>11 DEF CountsInv
<1>12. CASE ~base.live
  <2>1. disturbed = {} /\ ~askew' => n = Cardinality(InRedisUsers)
    BY <1>2, <1>3, <1>12, ExactSnapshot
  <2> QED
    BY <1>3, <1>5, <1>10, <1>12, <2>1 DEF CountsInv
<1> QED
  BY <1>11, <1>12

\* A key that is lost takes the counter with it, or makes it doubtful.
LEMMA LostCounts ==
    ASSUME AgreeInv, CountsInv, disturbed \subseteq disturbed', KeyLost
    PROVE  CountsInv'
<1>1. CASE ExpireJSON /\ UNCHANGED askew
  BY <1>1, QuietCounts DEF ExpireJSON
<1>2. ASSUME NEW s \in Shards, ExpireShard(s), askew' = (askew \/ base.live)
      PROVE  CountsInv'
  BY <1>2 DEF CountsInv, ExpireShard
<1>3. CASE EvictBase \/ ExpireCounters
  BY <1>3 DEF CountsInv, EvictBase, ExpireCounters, Gone
<1>4. ASSUME NEW u \in Users, ExpireHash(u), UNCHANGED askew,
             IF hash[u].status = Active THEN Disturb(u) ELSE UNCHANGED disturbed
      PROVE  CountsInv'
  <2>1. /\ hash'[u] = NoHash /\ \A v \in Users : v # u => hash'[v] = hash[v]
        /\ UNCHANGED <<base, shards>>
    BY <1>4 DEF ExpireHash, AgreeInv, TypeInv, SideTypes
  <2>2. CASE hash[u].status = Active
    <3>1. disturbed' # {}
      BY <1>4, <2>2 DEF Disturb
    <3> QED
      BY <3>1 DEF CountsInv
  <2>3. CASE hash[u].status # Active
    <3>1. \A v \in Users : InRedis(v)' <=> InRedis(v)
      BY <2>1, <2>3 DEF InRedis, NoHash, Absent, Active
    <3>2. InRedisUsers' = InRedisUsers /\ Total' = Total
      BY <2>1, <3>1 DEF InRedisUsers, Total, Matching
    <3> QED
      BY <1>4, <2>1, <3>2 DEF CountsInv
  <2> QED
    BY <2>2, <2>3
<1> QED
  BY <1>1, <1>2, <1>3, <1>4 DEF KeyLost

\* Every step keeps the count.
LEMMA CountsStep == AgreeInv /\ CountsInv /\ [Next]_vars => CountsInv'
<1> SUFFICES ASSUME AgreeInv, CountsInv, [Next]_vars PROVE CountsInv'
  OBVIOUS
<1>1. disturbed \subseteq disturbed'
  BY DisturbedGrows DEF AgreeInv
<1>2. ASSUME NEW r \in Requests, Request(r) \/ Abandon(r), ~RunScript(r)
      PROVE  CountsInv'
  <2>1. UNCHANGED <<hash, base, shards, askew>>
    BY <1>2 DEF Request, ReadBase, ReadShards, Publish, FallBack, WriteSync, WriteSyncFails, Abandon,
                cacheVars, historyVars
  <2> QED
    BY <1>1, <2>1, QuietCounts
<1>3. ASSUME NEW r \in Requests, NEW u \in Users, NEW active \in BOOLEAN,
             NEW key \in KeysFor(active, sent), Start(r, u, active, key)
      PROVE  CountsInv'
  <2>1. UNCHANGED <<hash, base, shards, askew>>
    BY <1>3 DEF Start, cacheVars
  <2> QED
    BY <1>1, <2>1, QuietCounts
<1>4. CASE Worker \/ Delete \/ TimePasses \/ UNCHANGED vars
  <2>1. UNCHANGED <<hash, base, shards, askew>>
    BY <1>4 DEF Worker, Deliver, Lookup, LookupFails, Apply, Ack, Requeue, Delete, TimePasses,
                vars, cacheVars, pipelineVars, historyVars
  <2> QED
    BY <1>1, <2>1, QuietCounts
<1> QED
  BY <1>1, <1>2, <1>3, <1>4, ScriptCounts, LostCounts DEF Next

\* At first there is no base.
LEMMA CountsInit == Init => CountsInv
BY DEF Init, CacheInit, CountsInv, Gone

\* Once everything has been consumed, base and shards add up to the counter of
\* video_stat, if nobody is disturbed, the base was made when MySQL had caught
\* up and no shard has expired under it (actionStateScript, SetAction).
THEOREM CountersAgree == Spec => []QuiescentCounts
<1>1. AgreeInv /\ CountsInv => QuiescentCounts
  <2> SUFFICES ASSUME AgreeInv, CountsInv, Quiet, base.live, ~askew, disturbed = {}
               PROVE  CountOver(base, shards) = likeCount
    BY DEF QuiescentCounts
  <2>1. InRedisUsers = ActiveUsers
    BY QuietMeans DEF InRedisUsers, ActiveUsers, Agree, InRedis, InMySQL
  <2>2. Total = likeCount /\ likeCount \in Nat
    BY <2>1 DEF CountsInv, AgreeInv, TypeInv, PipelineInv, StoreInv, StoreTypeOK, CountIsActiveRows
  <2>3. CountOver(base, shards) = Clamp(Total)
    BY DEF CountOver, Total
  <2> QED
    BY <2>2, <2>3 DEF Clamp
<1>2. Init => AgreeInv /\ CountsInv
  BY AgreeInit, CountsInit
<1>3. AgreeInv /\ CountsInv /\ [Next]_vars => AgreeInv' /\ CountsInv'
  BY AgreeStep, CountsStep
<1> QED
  BY <1>1, <1>2, <1>3, PTL DEF Spec
=============================================================================
