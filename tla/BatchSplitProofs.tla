-------------------------- MODULE BatchSplitProofs --------------------------
(***************************************************************************)
(* What the loop that cuts a list into calls does, for lists of any        *)
(* length, any sizes and any limit. SizeOf, Kept, Flattened and            *)
(* SendTraceBatches are recursive functions of a position. They are shown  *)
(* to be loops, values that go through a step for every item, so that what *)
(* a turn of the loop preserves holds at its end. The induction that this  *)
(* takes is a lemma about sets of naturals, proved from the well-          *)
(* foundedness of <.                                                       *)
(***************************************************************************)
EXTENDS BatchSplit, FiniteSets, WellFoundedInduction, TLAPS

(* A sequence with one more element, and two sequences one after the       *)
(* other.                                                                  *)
LEMMA AppendedIs ==
    ASSUME NEW S, NEW s \in Seq(S), NEW x \in S
    PROVE  /\ Append(s, x) \in Seq(S) /\ Len(Append(s, x)) = Len(s) + 1
           /\ \A i \in 1..Len(s) : Append(s, x)[i] = s[i]
           /\ Append(s, x)[Len(s) + 1] = x
OBVIOUS

(* Joining two sequences, and joining with nothing.                        *)
LEMMA JoinedIs ==
    ASSUME NEW S, NEW s \in Seq(S), NEW t \in Seq(S)
    PROVE  /\ s \o t \in Seq(S) /\ Len(s \o t) = Len(s) + Len(t)
           /\ s \o <<>> = s
OBVIOUS

(* Joining and appending commute.                                          *)
LEMMA JoinedAppend ==
    ASSUME NEW S, NEW s \in Seq(S), NEW t \in Seq(S), NEW x \in S
    PROVE  s \o Append(t, x) = Append(s \o t, x)
OBVIOUS

(* How many elements a set of none or of one has.                          *)
LEMMA CardinalityNone == Cardinality({}) = 0
<1> DEFINE CS == CHOOSE f : f = [T \in SUBSET {} |->
                     IF T = {} THEN 0 ELSE 1 + f[T \ {CHOOSE x : x \in T}]]
           g == [T \in SUBSET {} |-> 0]
<1>1. Cardinality({}) = CS[{}]
  BY DEF Cardinality
<1>2. \A T \in SUBSET {} : T = {}
  OBVIOUS
<1>3. g = [T \in SUBSET {} |-> IF T = {} THEN 0 ELSE 1 + g[T \ {CHOOSE x : x \in T}]]
  BY <1>2
<1>4. CS = [T \in SUBSET {} |-> IF T = {} THEN 0 ELSE 1 + CS[T \ {CHOOSE x : x \in T}]]
  <2> HIDE DEF g
  <2> QED BY <1>3
<1> HIDE DEF CS
<1>5. CS[{}] = 0
  BY <1>4
<1> QED BY <1>1, <1>5

(* The same for a set of one element.                                      *)
LEMMA CardinalityOne == ASSUME NEW p PROVE Cardinality({p}) = 1
<1> DEFINE CS == CHOOSE f : f = [T \in SUBSET {p} |->
                     IF T = {} THEN 0 ELSE 1 + f[T \ {CHOOSE x : x \in T}]]
           g == [T \in SUBSET {p} |-> IF T = {} THEN 0 ELSE 1]
<1>1. Cardinality({p}) = CS[{p}]
  BY DEF Cardinality
<1>2. \A T \in SUBSET {p} : T # {} => T = {p} /\ T \ {CHOOSE x : x \in T} = {}
  OBVIOUS
<1>3. \A T \in SUBSET {p} : g[T] = IF T = {} THEN 0 ELSE 1 + g[T \ {CHOOSE x : x \in T}]
  <2>1. g[{}] = 0
    OBVIOUS
  <2>2. \A T \in SUBSET {p} : T # {} => g[T] = 1
    OBVIOUS
  <2> HIDE DEF g
  <2>3. ASSUME NEW T \in SUBSET {p}, T # {} PROVE g[T] = 1 + g[T \ {CHOOSE x : x \in T}]
    <3>1. T \ {CHOOSE x : x \in T} = {}
      BY <1>2, <2>3
    <3>2. g[T] = 1
      BY <2>2, <2>3
    <3>3. g[T \ {CHOOSE x : x \in T}] = g[{}]
      BY <3>1, Zenon
    <3> QED BY <2>1, <3>2, <3>3
  <2> QED BY Zenon, <2>1, <2>3
<1>4. g = [T \in SUBSET {p} |-> IF T = {} THEN 0 ELSE 1 + g[T \ {CHOOSE x : x \in T}]]
  <2>1. g = [T \in SUBSET {p} |-> g[T]]
    OBVIOUS
  <2> HIDE DEF g
  <2> QED BY Zenon, <1>3, <2>1
<1>5. CS = [T \in SUBSET {p} |-> IF T = {} THEN 0 ELSE 1 + CS[T \ {CHOOSE x : x \in T}]]
  <2> HIDE DEF g
  <2> QED BY Zenon, <1>4
<1> HIDE DEF CS
<1>6. CS[{}] = 0
  BY <1>5
<1>7. {p} # {} /\ {p} \in SUBSET {p} /\ {p} \ {CHOOSE x : x \in {p}} = {}
  BY <1>2
<1>8. CS[{p}] = 1 + CS[{p} \ {CHOOSE x : x \in {p}}]
  BY <1>5, <1>7
<1> QED BY <1>1, <1>6, <1>7, <1>8

(* A set of naturals that is not empty has a least element, from the well- *)
(* foundedness of <.                                                       *)
LEMMA LeastNatural ==
    ASSUME NEW S, S \subseteq Nat, S # {}
    PROVE  \E m \in S : \A k \in S : m <= k
<1> DEFINE R == OpToRel(<, Nat)
<1>1. IsWellFoundedOn(R, Nat)
  BY NatLessThanWellFounded
<1>2. PICK m \in S : \A k \in S : ~ (<<k, m>> \in R)
  <2> HIDE DEF R
  <2> QED BY Zenon, <1>1, WFMin
<1>3. ASSUME NEW k \in S, k < m PROVE FALSE
  <2>1. <<k, m>> \in R
    BY <1>3 DEF OpToRel
  <2> QED BY <1>2, <2>1
<1> QED BY <1>3

(* Induction up to n: a set of numbers that has 0, and with a number below *)
(* n the next one, has all up to n.                                        *)
LEMMA Induction ==
    ASSUME NEW n \in Nat, NEW P, 0 \in P, \A i \in 1..n : i - 1 \in P => i \in P
    PROVE  \A i \in 0..n : i \in P
<1> DEFINE B == {i \in 0..n : i \notin P}
<1> SUFFICES ASSUME B # {} PROVE FALSE
  OBVIOUS
<1>1. PICK m \in B : \A k \in B : m <= k
  <2>1. B \subseteq Nat
    OBVIOUS
  <2> HIDE DEF B
  <2> QED BY Zenon, <2>1, LeastNatural
<1>2. m \in 1..n /\ m - 1 \in 0..n
  OBVIOUS
<1>3. m - 1 \notin B
  BY <1>1, <1>2
<1> QED BY <1>1, <1>2, <1>3

(* f goes from v, by step, in n turns.                                     *)
IsLoop(f, n, v, step) ==
    f[0] = v /\ \A i \in 1..n : f[i] = step[i][f[i - 1]]

(* There is a loop for any start value and any steps.                      *)
LEMMA LoopExists ==
    ASSUME NEW n \in Nat, NEW V, NEW v \in V, NEW step \in [1..n -> [V -> V]]
    PROVE  \E f \in [0..n -> V] : IsLoop(f, n, v, step)
<1> DEFINE P == {k \in 0..n : \E f \in [0..k -> V] : IsLoop(f, k, v, step)}
<1>1. 0 \in P
  <2>1. [i \in 0..0 |-> v] \in [0..0 -> V] /\ IsLoop([i \in 0..0 |-> v], 0, v, step)
    BY DEF IsLoop
  <2> QED BY <2>1
<1>2. ASSUME NEW k \in 1..n, k - 1 \in P PROVE k \in P
  <2>1. PICK g \in [0..(k - 1) -> V] : IsLoop(g, k - 1, v, step)
    BY <1>2
  <2> DEFINE h == [i \in 0..k |-> IF i = k THEN step[k][g[k - 1]] ELSE g[i]]
  <2>2. h \in [0..k -> V]
    BY <2>1
  <2>3. IsLoop(h, k, v, step)
    <3>1. h[0] = v
      BY <2>1 DEF IsLoop
    <3>2. ASSUME NEW i \in 1..k PROVE h[i] = step[i][h[i - 1]]
      <4>1. i - 1 \in 0..k /\ i - 1 # k /\ h[i - 1] = g[i - 1]
        OBVIOUS
      <4>2. CASE i = k
        BY <4>1, <4>2
      <4>3. CASE i # k
        <5>1. i \in 1..(k - 1) /\ h[i] = g[i]
          BY <4>3
        <5> QED BY <5>1, <4>1, <2>1 DEF IsLoop
      <4> QED BY <4>2, <4>3
    <3> QED BY Zenon, <3>1, <3>2 DEF IsLoop
  <2> QED BY <2>2, <2>3
<1>3. \A i \in 0..n : i \in P
  <2> HIDE DEF P
  <2> QED BY Zenon, <1>1, <1>2, Induction
<1> QED BY <1>3

(* Two loops from the same value through the same steps are the same.      *)
LEMMA LoopUnique ==
    ASSUME NEW n \in Nat, NEW v, NEW step, NEW f, NEW g,
           IsLoop(f, n, v, step), IsLoop(g, n, v, step)
    PROVE  \A i \in 0..n : f[i] = g[i]
<1> DEFINE P == {i \in 0..n : f[i] = g[i]}
<1>1. 0 \in P
  BY DEF IsLoop
<1>2. ASSUME NEW i \in 1..n, i - 1 \in P PROVE i \in P
  <2>1. f[i - 1] = g[i - 1] /\ i \in 0..n
    BY <1>2
  <2>2. f[i] = step[i][f[i - 1]] /\ g[i] = step[i][g[i - 1]]
    BY DEF IsLoop
  <2> QED BY <2>1, <2>2
<1>3. \A i \in 0..n : i \in P
  <2> HIDE DEF P
  <2> QED BY <1>1, <1>2, Induction
<1> QED BY <1>3

(* In particular they end in the same value.                               *)
LEMMA LoopEnd ==
    ASSUME NEW n \in Nat, NEW v, NEW step, NEW f, NEW g,
           IsLoop(f, n, v, step), IsLoop(g, n, v, step)
    PROVE  f[n] = g[n]
BY LoopUnique

(* SizeOf adds up the sizes. *)
SumStep(b, size) == [i \in 1..Len(b) |-> [v \in Nat |-> v + size[b[i]]]]

(* SizeOf is the loop that adds up the sizes.                              *)
LEMMA SizeIsLoop ==
    ASSUME NEW T, NEW b \in Seq(T), NEW size \in [T -> Nat]
    PROVE  \E f \in [0..Len(b) -> Nat] : /\ IsLoop(f, Len(b), 0, SumStep(b, size))
                                         /\ SizeOf(b, size) = f[Len(b)]
<1> DEFINE n == Len(b)
           st == SumStep(b, size)
           F == CHOOSE sum : sum = [i \in 0..Len(b) |-> IF i = 0 THEN 0 ELSE sum[i - 1] + size[b[i]]]
<1>1. SizeOf(b, size) = F[n]
  BY DEF SizeOf
<1>2. n \in Nat /\ \A i \in 1..n : size[b[i]] \in Nat
  OBVIOUS
<1>3. st \in [1..n -> [Nat -> Nat]]
  BY <1>2 DEF SumStep
<1>4. PICK g \in [0..n -> Nat] : IsLoop(g, n, 0, st)
  <2> HIDE DEF st, n
  <2> QED BY Zenon, <1>2, <1>3, LoopExists
<1>5. g = [i \in 0..n |-> IF i = 0 THEN 0 ELSE g[i - 1] + size[b[i]]]
  <2> SUFFICES ASSUME NEW i \in 1..n PROVE g[i] = g[i - 1] + size[b[i]]
    BY <1>2, <1>4 DEF IsLoop
  <2>1. g[i] = st[i][g[i - 1]]
    BY <1>4 DEF IsLoop
  <2>2. g[i - 1] \in Nat
    <3>1. i - 1 \in 0..n
      <4> HIDE DEF n
      <4> QED BY <1>2
    <3> QED BY Zenon, <3>1
  <2> QED BY <2>1, <2>2 DEF SumStep
<1>6. F = [i \in 0..n |-> IF i = 0 THEN 0 ELSE F[i - 1] + size[b[i]]]
  BY Zenon, <1>5
<1> HIDE DEF F
<1>7. \A i \in 0..n : F[i] = g[i]
  <2> DEFINE Q == {i \in 0..n : F[i] = g[i]}
  <2>1. 0 \in Q
    BY <1>2, <1>6, <1>5
  <2>2. ASSUME NEW i \in 1..n, i - 1 \in Q PROVE i \in Q
    <3>1. F[i - 1] = g[i - 1] /\ i \in 0..n /\ i # 0
      BY <2>2, <1>2
    <3>2. F[i] = F[i - 1] + size[b[i]] /\ g[i] = g[i - 1] + size[b[i]]
      BY Zenon, <1>5, <1>6, <3>1
    <3> QED BY <3>1, <3>2
  <2>3. \A i \in 0..n : i \in Q
    <3> HIDE DEF Q, n
    <3> QED BY Zenon, <1>2, <2>1, <2>2, Induction
  <2> QED BY <2>3
<1> QED BY <1>1, <1>2, <1>4, <1>7

(* No items have size 0.                                                   *)
LEMMA SizeEmpty == ASSUME NEW T, NEW size \in [T -> Nat] PROVE SizeOf(<<>>, size) = 0
<1>1. <<>> \in Seq(T) /\ Len(<<>>) = 0
  OBVIOUS
<1>2. PICK f \in [0..Len(<<>>) -> Nat] : /\ IsLoop(f, Len(<<>>), 0, SumStep(<<>>, size))
                                        /\ SizeOf(<<>>, size) = f[Len(<<>>)]
  BY Zenon, <1>1, SizeIsLoop
<1> QED BY <1>1, <1>2 DEF IsLoop

(* Sizes are natural numbers.                                              *)
LEMMA SizeType ==
    ASSUME NEW T, NEW b \in Seq(T), NEW size \in [T -> Nat]
    PROVE  SizeOf(b, size) \in Nat
<1>1. Len(b) \in 0..Len(b)
  OBVIOUS
<1> QED BY <1>1, SizeIsLoop

(* An item adds its size.                                                  *)
LEMMA SizeAppend ==
    ASSUME NEW T, NEW b \in Seq(T), NEW size \in [T -> Nat], NEW x \in T
    PROVE  SizeOf(Append(b, x), size) = SizeOf(b, size) + size[x]
<1>0. PICK n \in Nat : n = Len(b)
  OBVIOUS
<1>1. PICK c \in Seq(T) : c = Append(b, x)
  BY Zenon, AppendedIs
<1>2. Len(c) = n + 1 /\ c[n + 1] = x /\ \A i \in 1..n : c[i] = b[i]
  BY <1>0, <1>1
<1>3. PICK f \in [0..n -> Nat] : IsLoop(f, n, 0, SumStep(b, size)) /\ SizeOf(b, size) = f[n]
  BY Zenon, <1>0, SizeIsLoop
<1>4. PICK g \in [0..(n + 1) -> Nat] :
         IsLoop(g, n + 1, 0, SumStep(c, size)) /\ SizeOf(c, size) = g[n + 1]
  BY Zenon, <1>2, SizeIsLoop
<1>5. IsLoop(g, n, 0, SumStep(b, size))
  <2>1. g[0] = 0
    BY <1>4 DEF IsLoop
  <2>2. ASSUME NEW i \in 1..n PROVE g[i] = SumStep(b, size)[i][g[i - 1]]
    <3>1. i \in 1..(n + 1) /\ g[i] = SumStep(c, size)[i][g[i - 1]]
      BY <1>4 DEF IsLoop
    <3>2. SumStep(c, size)[i] = SumStep(b, size)[i]
      BY <1>0, <1>2, <3>1 DEF SumStep
    <3> QED BY <3>1, <3>2
  <2> QED BY <2>1, <2>2 DEF IsLoop
<1>6. f[n] = g[n] /\ g[n] \in Nat
  <2>1. f[n] = g[n]
    BY Zenon, <1>3, <1>5, LoopEnd
  <2> QED BY <2>1
<1>7. g[n + 1] = g[n] + size[x]
  <2>1. n + 1 \in 1..(n + 1) /\ (n + 1) - 1 = n
    OBVIOUS
  <2>2. g[n + 1] = SumStep(c, size)[n + 1][g[n]]
    BY <1>4, <2>1 DEF IsLoop
  <2> QED BY <1>2, <1>6, <2>1, <2>2 DEF SumStep
<1> QED BY <1>1, <1>3, <1>4, <1>6, <1>7

-----------------------------------------------------------------------------
(* Kept is computed from left to right.                                    *)
KeptLoop(f, n, T, list, S) ==
    /\ f \in [0..n -> Seq(T)] /\ f[0] = <<>> /\ Kept(list, S) = f[n]
    /\ \A i \in 1..n : f[i] = IF list[i] \in S THEN Append(f[i - 1], list[i]) ELSE f[i - 1]

(* Kept is the loop that appends the elements of S.                        *)
LEMMA KeptIsLoop ==
    ASSUME NEW T, NEW list \in Seq(T), NEW S, NEW n \in Nat, n = Len(list)
    PROVE  \E f : KeptLoop(f, n, T, list, S)
<1> DEFINE V == Seq(T)
           turn(i, v) == IF list[i] \in S THEN Append(v, list[i]) ELSE v
           st == [i \in 1..n |-> [v \in V |-> turn(i, v)]]
           F == CHOOSE f : f = [i \in 0..Len(list) |->
                    IF i = 0 THEN <<>>
                    ELSE IF list[i] \in S THEN Append(f[i - 1], list[i]) ELSE f[i - 1]]
<1>1. Kept(list, S) = F[n]
  BY DEF Kept
<1>2. \A i \in 1..n : list[i] \in T
  OBVIOUS
<1>3. st \in [1..n -> [V -> V]] /\ <<>> \in V
  BY <1>2, AppendedIs
<1>4. PICK g \in [0..n -> V] : IsLoop(g, n, <<>>, st)
  <2> HIDE DEF st, V
  <2> QED BY Zenon, <1>3, LoopExists
<1>5. \A i \in 1..n : g[i] = turn(i, g[i - 1])
  <2> SUFFICES ASSUME NEW i \in 1..n PROVE g[i] = turn(i, g[i - 1])
    OBVIOUS
  <2>1. g[i] = st[i][g[i - 1]]
    BY <1>4 DEF IsLoop
  <2>2. g[i - 1] \in V
    <3>1. i - 1 \in 0..n
      OBVIOUS
    <3> HIDE DEF V
    <3> QED BY <3>1
  <2> HIDE DEF V, turn
  <2> QED BY <2>1, <2>2
<1>6. g[0] = <<>>
  BY <1>4 DEF IsLoop
<1>7. g = [i \in 0..n |-> IF i = 0 THEN <<>>
                          ELSE IF list[i] \in S THEN Append(g[i - 1], list[i]) ELSE g[i - 1]]
  <2>1. ASSUME NEW i \in 0..n, i # 0 PROVE g[i] = turn(i, g[i - 1])
    <3>1. i \in 1..n
      BY <2>1
    <3> HIDE DEF turn, V
    <3> QED BY <1>5, <3>1
  <2>2. g = [i \in 0..n |-> g[i]]
    <3> HIDE DEF V
    <3> QED OBVIOUS
  <2>3. \A i \in 0..n : g[i] = IF i = 0 THEN <<>> ELSE turn(i, g[i - 1])
    <3> HIDE DEF turn
    <3> QED BY <1>6, <2>1
  <2> HIDE DEF V
  <2> QED BY Zenon, <2>2, <2>3
<1>8. F = [i \in 0..n |-> IF i = 0 THEN <<>>
                          ELSE IF list[i] \in S THEN Append(F[i - 1], list[i]) ELSE F[i - 1]]
  BY Zenon, <1>7
<1> HIDE DEF F, V
<1>9. F = g
  <2> DEFINE Q == {i \in 0..n : F[i] = g[i]}
  <2>1. 0 \in Q
    BY <1>6, <1>8
  <2>2. ASSUME NEW i \in 1..n, i - 1 \in Q PROVE i \in Q
    <3>1. F[i - 1] = g[i - 1] /\ i \in 0..n /\ i # 0
      BY <2>2
    <3>2. F[i] = turn(i, F[i - 1]) /\ g[i] = turn(i, g[i - 1])
      BY Zenon, <1>5, <1>8, <3>1
    <3> HIDE DEF turn
    <3> QED BY <3>1, <3>2
  <2>3. \A i \in 0..n : i \in Q
    <3> HIDE DEF Q
    <3> QED BY Zenon, <2>1, <2>2, Induction
  <2>4. \A i \in 0..n : F[i] = g[i]
    BY <2>3
  <2> HIDE DEF Q
  <2> QED BY <1>7, <1>8, <2>4
<1>10. KeptLoop(g, n, T, list, S)
  BY <1>1, <1>5, <1>6, <1>9 DEF V, KeptLoop
<1> QED BY <1>10

(* A sequence without repetition.                                          *)
Distinct(s) == \A i, j \in DOMAIN s : s[i] = s[j] => i = j

(* What appending, and taking the tail, do to the elements of a sequence.  *)
LEMMA AppendElements ==
    ASSUME NEW T, NEW s \in Seq(T), NEW x \in T
    PROVE  /\ Append(s, x) \in Seq(T)
           /\ Range(Append(s, x)) = Range(s) \cup {x}
           /\ Distinct(s) /\ x \notin Range(s) => Distinct(Append(s, x))
<1> PICK n \in Nat : n = Len(s)
  OBVIOUS
<1> DEFINE r == Append(s, x)
<1>1. r \in Seq(T) /\ DOMAIN s = 1..n /\ DOMAIN r = 1..(n + 1)
      /\ r[n + 1] = x /\ \A i \in 1..n : r[i] = s[i]
  OBVIOUS
<1> HIDE DEF r
<1>2. Range(r) = Range(s) \cup {x}
  <2>1. ASSUME NEW y \in Range(r) PROVE y \in Range(s) \cup {x}
    BY <1>1, <2>1 DEF Range
  <2>2. ASSUME NEW y \in Range(s) \cup {x} PROVE y \in Range(r)
    BY <1>1, <2>2 DEF Range
  <2> QED BY <2>1, <2>2
<1>3. ASSUME Distinct(s), x \notin Range(s) PROVE Distinct(r)
  BY <1>1, <1>3 DEF Distinct, Range
<1> QED BY <1>1, <1>2, <1>3 DEF r

(* Taking the first of distinct elements.                                  *)
LEMMA TailElements ==
    ASSUME NEW T, NEW s \in Seq(T), s # <<>>, Distinct(s)
    PROVE  /\ Tail(s) \in Seq(T) /\ Head(s) \in Range(s)
           /\ Range(Tail(s)) = Range(s) \ {Head(s)}
           /\ Distinct(Tail(s))
<1> PICK n \in Nat : n = Len(s)
  OBVIOUS
<1> DEFINE r == Tail(s)
           h == Head(s)
<1>1. r \in Seq(T) /\ DOMAIN s = 1..n /\ n # 0 /\ DOMAIN r = 1..(n - 1)
      /\ h = s[1] /\ \A i \in 1..(n - 1) : r[i] = s[i + 1]
  OBVIOUS
<1> HIDE DEF r, h
<1>2. ASSUME NEW y \in Range(r) PROVE y \in Range(s) \ {h}
  <2> PICK i \in 1..(n - 1) : y = r[i]
    BY <1>1 DEF Range
  <2>1. i + 1 \in 1..n /\ 1 \in 1..n /\ i + 1 # 1 /\ y = s[i + 1]
    BY <1>1
  <2> QED BY Zenon, <2>1, <1>1 DEF Distinct, Range
<1>3. ASSUME NEW y \in Range(s) \ {h} PROVE y \in Range(r)
  <2> PICK i \in 1..n : y = s[i]
    BY <1>1 DEF Range
  <2>1. i # 1
    BY <1>1
  <2>2. i - 1 \in 1..(n - 1) /\ (i - 1) + 1 = i
    BY <2>1
  <2>3. y = r[i - 1]
    BY <1>1, <2>2
  <2> QED BY Zenon, <2>2, <2>3, <1>1 DEF Range
<1>4. Distinct(r)
  <2> SUFFICES ASSUME NEW i \in 1..(n - 1), NEW j \in 1..(n - 1), r[i] = r[j] PROVE i = j
    BY <1>1 DEF Distinct
  <2>1. i + 1 \in 1..n /\ j + 1 \in 1..n /\ s[i + 1] = s[j + 1]
    BY <1>1
  <2>2. i + 1 = j + 1
    BY Zenon, <2>1, <1>1 DEF Distinct
  <2> QED BY <2>2
<1>5. h \in Range(s)
  BY <1>1 DEF Range
<1> QED BY <1>1, <1>2, <1>3, <1>4, <1>5 DEF r, h

(* Kept has the elements of the list that are in the set, each once if the *)
(* list has each once.                                                     *)
LEMMA KeptElements ==
    ASSUME NEW T, NEW list \in Seq(T), NEW S
    PROVE  /\ Kept(list, S) \in Seq(T)
           /\ Range(Kept(list, S)) = Range(list) \cap S
           /\ Distinct(list) => Distinct(Kept(list, S))
<1> PICK n \in Nat : n = Len(list)
  OBVIOUS
<1>0. PICK f : KeptLoop(f, n, T, list, S)
  BY Zenon, KeptIsLoop
<1>1. f \in [0..n -> Seq(T)] /\ f[0] = <<>> /\ Kept(list, S) = f[n]
      /\ \A i \in 1..n : f[i] = IF list[i] \in S THEN Append(f[i - 1], list[i]) ELSE f[i - 1]
  BY <1>0 DEF KeptLoop
<1>2. DOMAIN list = 1..n /\ \A i \in 1..n : list[i] \in T
  OBVIOUS
<1> DEFINE Upto(i) == {list[j] : j \in 1..i}
           P == {i \in 0..n : /\ Range(f[i]) = Upto(i) \cap S
                              /\ Distinct(list) => Distinct(f[i])}
<1>3. 0 \in P
  <2>1. Range(f[0]) = {} /\ Distinct(f[0]) /\ Upto(0) = {}
    BY <1>1 DEF Range, Distinct
  <2> QED BY <2>1
<1>4. ASSUME NEW i \in 1..n, i - 1 \in P PROVE i \in P
  <2>0. i - 1 \in 0..n /\ i \in 0..n
    OBVIOUS
  <2>1. i - 1 \in 0..n /\ i \in 0..n /\ f[i - 1] \in Seq(T) /\ list[i] \in T
    BY Zenon, <1>1, <1>2, <2>0
  <2> PICK s \in Seq(T) : s = f[i - 1]
    BY <2>1
  <2>2. Range(s) = Upto(i - 1) \cap S /\ (Distinct(list) => Distinct(s))
    BY <1>4
  <2>3. f[i] = IF list[i] \in S THEN Append(s, list[i]) ELSE s
    BY <1>1
  <2>4. Upto(i) = Upto(i - 1) \cup {list[i]}
    <3>1. 1..i = 1..(i - 1) \cup {i}
      OBVIOUS
    <3> QED BY <3>1
  <2>5. Distinct(list) => list[i] \notin Upto(i - 1)
    <3> SUFFICES ASSUME Distinct(list), NEW j \in 1..(i - 1) PROVE list[i] # list[j]
      OBVIOUS
    <3>1. j \in 1..n /\ j # i
      OBVIOUS
    <3> QED BY <1>2, <3>1 DEF Distinct
  <2> HIDE DEF Upto
  <2>6. CASE list[i] \in S
    <3>1. f[i] = Append(s, list[i])
      BY <2>3, <2>6
    <3>2. Range(Append(s, list[i])) = Range(s) \cup {list[i]}
          /\ (Distinct(s) /\ list[i] \notin Range(s) => Distinct(Append(s, list[i])))
      BY <2>1, AppendElements
    <3>3. Range(f[i]) = Upto(i) \cap S
      BY <3>1, <3>2, <2>2, <2>4, <2>6
    <3>4. Distinct(list) => Distinct(f[i])
      BY <3>1, <3>2, <2>2, <2>5
    <3> QED BY <3>3, <3>4, <2>1
  <2>7. CASE list[i] \notin S
    <3>1. f[i] = s
      BY <2>3, <2>7
    <3> QED BY <3>1, <2>1, <2>2, <2>4, <2>7
  <2> QED BY <2>6, <2>7
<1>5. n \in P
  <2>1. n \in 0..n
    OBVIOUS
  <2> HIDE DEF P
  <2>2. \A i \in 0..n : i \in P
    BY Zenon, <1>3, <1>4, Induction
  <2> QED BY <2>1, <2>2
<1>6. Range(list) = Upto(n)
  BY <1>2 DEF Range
<1>7. f[n] \in Seq(T)
  BY <1>1
<1> HIDE DEF Upto
<1> QED BY <1>1, <1>5, <1>6, <1>7

-----------------------------------------------------------------------------
(* Flattened is computed from left to right.                               *)
FlattenLoop(f, n, T, bs) ==
    /\ f \in [0..n -> Seq(T)] /\ f[0] = <<>> /\ Flattened(bs) = f[n]
    /\ \A i \in 1..n : f[i] = f[i - 1] \o bs[i]

(* Flattened is the loop that joins the batches.                           *)
LEMMA FlattenIsLoop ==
    ASSUME NEW T, NEW bs \in Seq(Seq(T)), NEW n \in Nat, n = Len(bs)
    PROVE  \E f : FlattenLoop(f, n, T, bs)
<1> DEFINE V == Seq(T)
           turn(i, v) == v \o bs[i]
           st == [i \in 1..n |-> [v \in V |-> turn(i, v)]]
           F == CHOOSE f : f = [i \in 0..Len(bs) |->
                                   IF i = 0 THEN <<>> ELSE f[i - 1] \o bs[i]]
<1>1. Flattened(bs) = F[n]
  BY DEF Flattened
<1>2. \A i \in 1..n : bs[i] \in Seq(T)
  OBVIOUS
<1>3. st \in [1..n -> [V -> V]] /\ <<>> \in V
  BY <1>2, JoinedIs
<1>4. PICK g \in [0..n -> V] : IsLoop(g, n, <<>>, st)
  <2> HIDE DEF st, V
  <2> QED BY Zenon, <1>3, LoopExists
<1>5. \A i \in 1..n : g[i - 1] \in V /\ g[i] = turn(i, g[i - 1])
  <2> SUFFICES ASSUME NEW i \in 1..n PROVE g[i - 1] \in V /\ g[i] = turn(i, g[i - 1])
    BY Zenon
  <2>1. g[i] = st[i][g[i - 1]]
    BY Zenon, <1>4 DEF IsLoop
  <2>2. g[i - 1] \in V
    <3>1. i - 1 \in 0..n
      OBVIOUS
    <3> HIDE DEF V
    <3> QED BY Zenon, <3>1
  <2> HIDE DEF V, turn
  <2> QED BY <2>1, <2>2
<1>6. g[0] = <<>>
  BY <1>4 DEF IsLoop
<1>7. g = [i \in 0..n |-> IF i = 0 THEN <<>> ELSE g[i - 1] \o bs[i]]
  <2>1. ASSUME NEW i \in 0..n, i # 0 PROVE g[i] = turn(i, g[i - 1])
    <3>1. i \in 1..n
      BY <2>1
    <3> HIDE DEF turn, V
    <3> QED BY <1>5, <3>1
  <2>2. g = [i \in 0..n |-> g[i]]
    <3> HIDE DEF V
    <3> QED OBVIOUS
  <2>3. \A i \in 0..n : g[i] = IF i = 0 THEN <<>> ELSE turn(i, g[i - 1])
    <3> HIDE DEF turn
    <3> QED BY <1>6, <2>1
  <2> HIDE DEF V
  <2> QED BY Zenon, <2>2, <2>3
<1>8. F = [i \in 0..n |-> IF i = 0 THEN <<>> ELSE F[i - 1] \o bs[i]]
  BY Zenon, <1>7
<1> HIDE DEF F, V
<1>9. F = g
  <2> DEFINE Q == {i \in 0..n : F[i] = g[i]}
  <2>1. 0 \in Q
    BY <1>6, <1>8
  <2>2. ASSUME NEW i \in 1..n, i - 1 \in Q PROVE i \in Q
    <3>1. F[i - 1] = g[i - 1] /\ i \in 0..n /\ i # 0
      BY <2>2
    <3>2. F[i] = turn(i, F[i - 1]) /\ g[i] = turn(i, g[i - 1])
      BY Zenon, <1>5, <1>8, <3>1
    <3> HIDE DEF turn
    <3> QED BY <3>1, <3>2
  <2>3. \A i \in 0..n : i \in Q
    <3> HIDE DEF Q
    <3> QED BY Zenon, <2>1, <2>2, Induction
  <2>4. \A i \in 0..n : F[i] = g[i]
    BY <2>3
  <2> HIDE DEF Q
  <2> QED BY Zenon, <1>7, <1>8, <2>4
<1>10. Flattened(bs) = g[n]
  BY <1>1, <1>9
<1>11. FlattenLoop(g, n, T, bs)
  BY Zenon, <1>5, <1>6, <1>10 DEF V, FlattenLoop
<1> QED BY <1>11

(* Flattening a sequence of sequences, from the last one.                  *)
LEMMA FlattenEmpty == Flattened(<<>>) = <<>>
<1>1. <<>> \in Seq(Seq({})) /\ 0 \in Nat /\ 0 = Len(<<>>)
  OBVIOUS
<1>2. PICK f : FlattenLoop(f, 0, {}, <<>>)
  BY Zenon, <1>1, FlattenIsLoop
<1> QED BY <1>2 DEF FlattenLoop

(* A further batch comes last in the flattened sequence.                   *)
LEMMA FlattenAppend ==
    ASSUME NEW T, NEW bs \in Seq(Seq(T)), NEW b \in Seq(T)
    PROVE  /\ Flattened(bs) \in Seq(T)
           /\ Flattened(Append(bs, b)) = Flattened(bs) \o b
<1> PICK n \in Nat : n = Len(bs)
  OBVIOUS
<1>0. Append(bs, b) \in Seq(Seq(T))
  BY AppendedIs
<1> PICK r \in Seq(Seq(T)) : r = Append(bs, b)
  BY Zenon, <1>0
<1>1. n + 1 \in Nat /\ n + 1 = Len(r) /\ r[n + 1] = b /\ \A i \in 1..n : r[i] = bs[i]
  OBVIOUS
<1>2. PICK f : FlattenLoop(f, n, T, bs)
  BY FlattenIsLoop
<1>3. PICK g : FlattenLoop(g, n + 1, T, r)
  BY Zenon, <1>1, FlattenIsLoop
<1> DEFINE Q == {i \in 0..n : f[i] = g[i]}
<1>4. 0 \in Q
  BY <1>2, <1>3 DEF FlattenLoop
<1>5. ASSUME NEW i \in 1..n, i - 1 \in Q PROVE i \in Q
  <2>1. i \in 0..n /\ i \in 1..(n + 1)
    OBVIOUS
  <2>2. f[i - 1] = g[i - 1]
    BY <1>5
  <2>3. f[i] = f[i - 1] \o bs[i] /\ g[i] = g[i - 1] \o r[i] /\ r[i] = bs[i]
    BY Zenon, <1>1, <1>2, <1>3, <2>1 DEF FlattenLoop
  <2> QED BY Zenon, <2>1, <2>2, <2>3
<1>6. \A i \in 0..n : i \in Q
  <2> HIDE DEF Q
  <2> QED BY Zenon, <1>4, <1>5, Induction
<1>7. n \in 0..n /\ n + 1 \in 1..(n + 1) /\ (n + 1) - 1 = n
  OBVIOUS
<1>8. f[n] = g[n]
  BY <1>6, <1>7
<1>9. g[n + 1] = g[(n + 1) - 1] \o r[n + 1]
  BY Zenon, <1>3, <1>7 DEF FlattenLoop
<1>10. Flattened(bs) = f[n] /\ Flattened(r) = g[n + 1] /\ f[n] \in Seq(T)
  BY Zenon, <1>2, <1>3, <1>7 DEF FlattenLoop
<1> QED BY <1>1, <1>7, <1>8, <1>9, <1>10

-----------------------------------------------------------------------------
(* The loop of SendTraceBatches: the state of the loop, and the batches    *)
(* and the items it leaves as one sequence.                                *)
Acc(T) == [batches : Seq(Seq(T)), items : Seq(T), batchSize : Nat]
Flat(acc) == Flattened(acc.batches) \o acc.items

(* No batch is empty or too large, and none could take the first item of   *)
(* the next one.                                                           *)
Cutting(acc, size) ==
    /\ acc.batchSize = SizeOf(acc.items, size) /\ acc.batchSize <= maxApiSize
    /\ \A k \in DOMAIN acc.batches : /\ acc.batches[k] # <<>>
                                     /\ SizeOf(acc.batches[k], size) <= maxApiSize
    /\ \A k \in 1..(Len(acc.batches) - 1) :
          SizeOf(acc.batches[k], size) + size[Head(acc.batches[k + 1])] > maxApiSize
    /\ acc.items # <<>> /\ acc.batches # <<>> =>
          SizeOf(acc.batches[Len(acc.batches)], size) + size[Head(acc.items)] > maxApiSize

(* A batch is filled in as long as no call has been made without it.       *)
Filling(acc) == acc.items = <<>> => acc.batches = <<>>

(* Before the first item the loop of the splitters is under way.           *)
LEMMA NoBatchCuts ==
    ASSUME NEW T, NEW size \in [T -> Nat]
    PROVE  NoBatch \in Acc(T) /\ Cutting(NoBatch, size) /\ Filling(NoBatch) /\ Flat(NoBatch) = <<>>
<1>1. SizeOf(<<>>, size) = 0
  BY SizeEmpty
<1>2. Flattened(<<>>) \o <<>> = <<>>
  BY FlattenEmpty
<1>3. <<>> \in Seq(T) /\ <<>> \in Seq(Seq(T))
  OBVIOUS
<1> QED BY <1>1, <1>2, <1>3, SplitAssumption DEF NoBatch, Acc, Cutting, Filling, Flat

(* Closing a batch that holds items keeps the loop sound and loses         *)
(* nothing.                                                                *)
LEMMA CloseCuts ==
    ASSUME NEW T, NEW size \in [T -> Nat], NEW acc \in Acc(T),
           Cutting(acc, size), acc.items # <<>>
    PROVE  LET r == Close(acc)
           IN /\ r \in Acc(T) /\ Cutting(r, size) /\ Flat(r) = Flat(acc)
              /\ r.items = <<>> /\ r.batchSize = 0
              /\ r.batches # <<>> /\ r.batches[Len(r.batches)] = acc.items
<1> PICK bs \in Seq(Seq(T)) : bs = acc.batches
  BY DEF Acc
<1> PICK b \in Seq(T) : b = acc.items
  BY DEF Acc
<1>1. Append(bs, b) \in Seq(Seq(T))
  BY AppendedIs
<1> PICK c \in Seq(Seq(T)) : c = Append(bs, b)
  BY Zenon, <1>1
<1>2. Close(acc) = [batches |-> c, items |-> <<>>, batchSize |-> 0]
  BY DEF Close
<1> PICK r : r = Close(acc)
  OBVIOUS
<1>3. r \in Acc(T) /\ r.items = <<>> /\ r.batchSize = 0 /\ r.batches = c
  BY <1>2 DEF Acc
<1>4. Flattened(c) = Flattened(bs) \o b /\ Flattened(bs) \o b \in Seq(T)
  BY ZenonT(40), SMT, FlattenAppend
<1>5. Flat(r) = Flat(acc)
  <2>1. Flattened(c) \o <<>> = Flattened(c)
    BY <1>4, JoinedIs
  <2> QED BY <2>1, <1>3, <1>4 DEF Flat
<1> PICK n \in Nat : n = Len(bs)
  OBVIOUS
<1>6. /\ Len(c) = n + 1 /\ DOMAIN c = 1..(n + 1) /\ c[n + 1] = b /\ c # <<>>
      /\ \A k \in 1..n : c[k] = bs[k]
      /\ DOMAIN bs = 1..n /\ (n # 0 => bs # <<>>)
  OBVIOUS
<1>7. Cutting(r, size)
  <2>1. r.batchSize = SizeOf(r.items, size) /\ r.batchSize <= maxApiSize
    BY <1>3, SizeEmpty, SplitAssumption
  <2>2. ASSUME NEW k \in 1..(n + 1)
        PROVE  c[k] # <<>> /\ SizeOf(c[k], size) <= maxApiSize
    <3>1. CASE k = n + 1
      BY <3>1, <1>6 DEF Cutting
    <3>2. CASE k # n + 1
      <4>1. k \in 1..n
        BY <3>2
      <4> QED BY Zenon, <4>1, <1>6 DEF Cutting
    <3> QED BY <3>1, <3>2
  <2>3. ASSUME NEW k \in 1..n
        PROVE  SizeOf(c[k], size) + size[Head(c[k + 1])] > maxApiSize
    <3>1. CASE k = n
      <4>1. c[k] = bs[Len(bs)] /\ c[k + 1] = b /\ bs # <<>>
        BY <3>1, <1>6
      <4> QED BY <4>1 DEF Cutting
    <3>2. CASE k # n
      <4>1. k \in 1..(n - 1) /\ k + 1 \in 1..n
        BY <3>2
      <4>2. c[k] = bs[k] /\ c[k + 1] = bs[k + 1]
        BY <4>1, <1>6
      <4> QED BY Zenon, <4>1, <4>2 DEF Cutting
    <3> QED BY <3>1, <3>2
  <2>4. Len(r.batches) - 1 = n
    BY <1>3, <1>6
  <2> QED BY ZenonT(40), SMT, <2>1, <2>2, <2>3, <2>4, <1>3, <1>6 DEF Cutting
<1> QED BY <1>3, <1>5, <1>6, <1>7

(* Putting an item that fits keeps the loop sound; after a closed batch it *)
(* must be one that had no room there.                                     *)
LEMMA PutCuts ==
    ASSUME NEW T, NEW size \in [T -> Nat], NEW acc \in Acc(T), NEW x \in T,
           Cutting(acc, size), acc.batchSize + size[x] <= maxApiSize,
           acc.items = <<>> /\ acc.batches # <<>> =>
              SizeOf(acc.batches[Len(acc.batches)], size) + size[x] > maxApiSize
    PROVE  LET r == Put(acc, x, size)
           IN /\ r \in Acc(T) /\ Cutting(r, size) /\ Flat(r) = Append(Flat(acc), x)
              /\ r.items # <<>>
<1>0. \A q, s \in Seq(T) : q \o Append(s, x) = Append(q \o s, x)
  BY SMT, Z3, JoinedAppend
<1> PICK bs \in Seq(Seq(T)) : bs = acc.batches
  BY DEF Acc
<1> PICK b \in Seq(T) : b = acc.items
  BY DEF Acc
<1> PICK z \in Nat : z = acc.batchSize
  BY DEF Acc
<1>1. Append(b, x) \in Seq(T)
  BY AppendedIs
<1> PICK c \in Seq(T) : c = Append(b, x)
  BY Zenon, <1>1
<1>2. Put(acc, x, size) = [batches |-> bs, items |-> c, batchSize |-> z + size[x]]
  BY DEF Put, Acc
<1> PICK r : r = Put(acc, x, size)
  OBVIOUS
<1>3. size[x] \in Nat /\ z + size[x] \in Nat
  BY SMT, Z3
<1>4. r \in Acc(T) /\ r.items = c /\ r.batchSize = z + size[x] /\ r.batches = bs
  BY <1>2, <1>3 DEF Acc
<1>5. Flattened(bs) \in Seq(T)
  BY FlattenAppend
<1>6. Flat(r) = Append(Flat(acc), x)
  <2> PICK q \in Seq(T) : q = Flattened(bs)
    BY <1>5
  <2>1. q \o Append(b, x) = Append(q \o b, x)
    BY <1>0, Zenon
  <2>2. Flat(r) = q \o c /\ Flat(acc) = q \o b
    BY <1>4 DEF Flat
  <2> QED BY Zenon, <2>1, <2>2
<1>7. c # <<>> /\ Head(c) = IF b = <<>> THEN x ELSE Head(b)
  <2>1. \A s \in Seq(T) : Len(s) # 0 => s # <<>> /\ Head(s) = s[1]
    OBVIOUS
  <2>2. \A s \in Seq(T) : Len(s) = 0 <=> s = <<>>
    OBVIOUS
  <2>3. /\ Len(b) \in Nat /\ Len(c) = Len(b) + 1 /\ c[Len(b) + 1] = x
        /\ \A i \in 1..Len(b) : c[i] = b[i]
    BY SMT, Z3, AppendedIs
  <2>4. CASE Len(b) = 0
    BY <2>1, <2>2, <2>3, <2>4
  <2>5. CASE Len(b) # 0
    <3>1. b # <<>> /\ Head(b) = b[1]
      BY Zenon, <2>1, <2>5
    <3>2. 1 \in 1..Len(b) /\ Len(c) # 0
      BY SMTT(20), Z3T(20), <2>3, <2>5
    <3>3. c # <<>> /\ Head(c) = c[1] /\ c[1] = b[1]
      BY Zenon, <2>1, <2>3, <3>2
    <3> QED BY Zenon, <3>1, <3>3
  <2> QED BY Zenon, <2>4, <2>5
<1>8. SizeOf(c, size) = SizeOf(b, size) + size[x]
  BY Zenon, SizeAppend
<1>9. Cutting(r, size)
  <2>1. r.batchSize = SizeOf(r.items, size) /\ r.batchSize <= maxApiSize
    BY <1>4, <1>8 DEF Cutting
  <2>2. bs # <<>> => SizeOf(bs[Len(bs)], size) + size[Head(c)] > maxApiSize
    BY <1>7 DEF Cutting
  <2> QED BY <2>1, <2>2, <1>4 DEF Cutting
<1> QED BY <1>4, <1>6, <1>7, <1>9

(* One turn: the item is put if it fits at all, and a last one closes.      *)
Turned(r, acc, x, last, size) ==
    /\ Cutting(r, size)
    /\ Flat(r) = IF size[x] <= maxApiSize THEN Append(Flat(acc), x) ELSE Flat(acc)
    /\ ~last => Filling(r)
    /\ last /\ r.items # <<>> => size[x] > maxApiSize

(* A turn of the loop of SendTraceBatches or SendLogBatches does what      *)
(* Turned says.                                                            *)
LEMMA TurnCuts ==
    ASSUME NEW T, NEW size \in [T -> Nat], NEW acc \in Acc(T), NEW x \in T,
           NEW last \in BOOLEAN, Cutting(acc, size), Filling(acc)
    PROVE  Turned(Turn(acc, x, last, size), acc, x, last, size)
<1>0. size[x] \in Nat /\ acc.batchSize \in Nat /\ maxApiSize \in Nat
  BY SplitAssumption DEF Acc
<1>1. CASE size[x] > maxApiSize
  <2>1. Turn(acc, x, last, size) = acc /\ ~(size[x] <= maxApiSize)
    BY <1>0, <1>1 DEF Turn
  <2> QED BY <2>1, <1>1 DEF Turned
<1>2. CASE ~(size[x] > maxApiSize)
  <2> DEFINE full == size[x] + acc.batchSize > maxApiSize
  <2> PICK a : a = IF full THEN Close(acc) ELSE acc
    OBVIOUS
  <2>1. /\ a \in Acc(T) /\ Cutting(a, size) /\ Flat(a) = Flat(acc)
        /\ a.batchSize + size[x] <= maxApiSize
        /\ a.items = <<>> /\ a.batches # <<>> =>
              SizeOf(a.batches[Len(a.batches)], size) + size[x] > maxApiSize
    <3>1. CASE full
      <4>1. acc.items # <<>>
        <5>1. acc.items = <<>> => acc.batchSize = 0
          BY SizeEmpty DEF Cutting
        <5> QED BY <5>1, <3>1, <1>0, <1>2
      <4>2. a = Close(acc)
        BY <3>1
      <4> HIDE DEF full
      <4>3. /\ a \in Acc(T) /\ Cutting(a, size) /\ Flat(a) = Flat(acc)
            /\ a.batchSize = 0 /\ a.batches[Len(a.batches)] = acc.items
        BY <4>1, <4>2, CloseCuts
      <4>4. SizeOf(acc.items, size) = acc.batchSize
        BY DEF Cutting
      <4> QED BY <4>3, <4>4, <3>1, <1>0, <1>2 DEF full
    <3>2. CASE ~full
      BY <3>2, <1>0 DEF Filling
    <3> QED BY <3>1, <3>2
  <2> HIDE DEF full
  <2> PICK p : p = Put(a, x, size)
    OBVIOUS
  <2>2. p \in Acc(T) /\ Cutting(p, size) /\ Flat(p) = Append(Flat(acc), x) /\ p.items # <<>>
    BY <2>1, PutCuts
  <2>3. Turn(acc, x, last, size) = IF last THEN Close(p) ELSE p
    BY <1>2 DEF Turn, full
  <2>4. size[x] <= maxApiSize
    BY <1>0, <1>2
  <2>5. CASE last
    <3>1. /\ Close(p) \in Acc(T) /\ Cutting(Close(p), size) /\ Flat(Close(p)) = Flat(p)
          /\ Close(p).items = <<>>
      BY <2>2, CloseCuts
    <3> QED BY <3>1, <2>2, <2>3, <2>4, <2>5 DEF Turned
  <2>6. CASE ~last
    BY <2>2, <2>3, <2>4, <2>6 DEF Filling, Turned
  <2> QED BY <2>5, <2>6
<1> QED BY <1>1, <1>2

(* No two calls share an item, and what the loop has seen is all they have. *)
Apart(acc, X) ==
    /\ Range(acc.items) \subseteq X
    /\ \A k \in DOMAIN acc.batches : /\ Range(acc.batches[k]) \subseteq X
                                     /\ Range(acc.batches[k]) \cap Range(acc.items) = {}
    /\ \A k, l \in DOMAIN acc.batches :
          k # l => Range(acc.batches[k]) \cap Range(acc.batches[l]) = {}

(* Closing a batch keeps the batches apart.                                *)
LEMMA CloseApart ==
    ASSUME NEW T, NEW acc \in Acc(T), NEW X, Apart(acc, X)
    PROVE  Close(acc) \in Acc(T) /\ Apart(Close(acc), X)
<1> PICK bs \in Seq(Seq(T)) : bs = acc.batches
  BY DEF Acc
<1> PICK b \in Seq(T) : b = acc.items
  BY DEF Acc
<1> PICK n \in Nat : n = Len(bs)
  OBVIOUS
<1>1. Append(bs, b) \in Seq(Seq(T))
  BY AppendedIs
<1> PICK c \in Seq(Seq(T)) : c = Append(bs, b)
  BY Zenon, <1>1
<1>2. Close(acc) = [batches |-> c, items |-> <<>>, batchSize |-> 0]
  BY DEF Close
<1>3. Close(acc) \in Acc(T) /\ Close(acc).batches = c /\ Range(Close(acc).items) = {}
  BY <1>2 DEF Acc, Range
<1>4. /\ DOMAIN c = 1..(n + 1) /\ c[n + 1] = b /\ \A k \in 1..n : c[k] = bs[k]
      /\ DOMAIN bs = 1..n
  OBVIOUS
<1>5. ASSUME NEW k \in 1..(n + 1) PROVE k = n + 1 \/ k \in 1..n
  OBVIOUS
<1>6. ASSUME NEW k \in 1..(n + 1) PROVE Range(c[k]) \subseteq X
  BY Zenon, <1>4, <1>5 DEF Apart
<1>7. ASSUME NEW k \in 1..(n + 1), NEW l \in 1..(n + 1), k # l
      PROVE  Range(c[k]) \cap Range(c[l]) = {}
  <2>1. CASE k = n + 1
    <3>1. l \in 1..n
      BY <2>1, <1>5, <1>7
    <3>2. c[k] = b /\ c[l] = bs[l] /\ Range(bs[l]) \cap Range(b) = {}
      BY Zenon, <2>1, <3>1, <1>4 DEF Apart
    <3> QED BY <3>2
  <2>2. CASE l = n + 1
    <3>1. k \in 1..n
      BY <2>2, <1>5, <1>7
    <3>2. c[l] = b /\ c[k] = bs[k] /\ Range(bs[k]) \cap Range(b) = {}
      BY Zenon, <2>2, <3>1, <1>4 DEF Apart
    <3> QED BY <3>2
  <2>3. CASE k \in 1..n /\ l \in 1..n
    BY Zenon, <2>3, <1>4, <1>7 DEF Apart
  <2> QED BY Zenon, <2>1, <2>2, <2>3, <1>5
<1> QED BY Zenon, <1>3, <1>4, <1>6, <1>7 DEF Apart

(* Putting a new item keeps the batches apart.                             *)
LEMMA PutApart ==
    ASSUME NEW T, NEW size \in [T -> Nat], NEW acc \in Acc(T), NEW X,
           NEW x \in T, x \notin X, Apart(acc, X)
    PROVE  Put(acc, x, size) \in Acc(T) /\ Apart(Put(acc, x, size), X \cup {x})
<1> PICK bs \in Seq(Seq(T)) : bs = acc.batches
  BY DEF Acc
<1> PICK b \in Seq(T) : b = acc.items
  BY DEF Acc
<1> PICK z \in Nat : z = acc.batchSize
  BY DEF Acc
<1>1. Append(b, x) \in Seq(T) /\ Range(Append(b, x)) = Range(b) \cup {x}
  BY AppendElements
<1> PICK c \in Seq(T) : c = Append(b, x)
  BY Zenon, <1>1
<1>2. Put(acc, x, size) = [batches |-> bs, items |-> c, batchSize |-> z + size[x]]
  BY DEF Put
<1>3. z + size[x] \in Nat
  OBVIOUS
<1> PICK r : r = Put(acc, x, size)
  OBVIOUS
<1>4. r \in Acc(T) /\ r.batches = bs /\ Range(r.items) = Range(b) \cup {x}
  BY <1>1, <1>2, <1>3 DEF Acc
<1>5. Range(r.items) \subseteq X \cup {x}
  BY <1>4 DEF Apart
<1>6. ASSUME NEW k \in DOMAIN bs
      PROVE  Range(bs[k]) \subseteq X \cup {x} /\ Range(bs[k]) \cap Range(r.items) = {}
  <2>1. Range(bs[k]) \subseteq X /\ Range(bs[k]) \cap Range(b) = {}
    BY DEF Apart
  <2> QED BY <2>1, <1>4
<1>7. \A k, l \in DOMAIN bs : k # l => Range(bs[k]) \cap Range(bs[l]) = {}
  BY Zenon DEF Apart
<1> QED BY ZenonT(40), SMT, <1>4, <1>5, <1>6, <1>7 DEF Apart

(* A turn keeps the batches apart.                                         *)
LEMMA TurnApart ==
    ASSUME NEW T, NEW size \in [T -> Nat], NEW acc \in Acc(T), NEW X,
           NEW x \in T, x \notin X, NEW last \in BOOLEAN, Apart(acc, X)
    PROVE  LET r == Turn(acc, x, last, size)
           IN r \in Acc(T) /\ Apart(r, X \cup {x})
<1>1. CASE size[x] > maxApiSize
  <2>1. Turn(acc, x, last, size) = acc
    BY <1>1 DEF Turn
  <2>2. Apart(acc, X \cup {x})
    BY DEF Apart
  <2> QED BY <2>1, <2>2
<1>2. CASE ~(size[x] > maxApiSize)
  <2> DEFINE full == size[x] + acc.batchSize > maxApiSize
  <2> PICK a : a = IF full THEN Close(acc) ELSE acc
    OBVIOUS
  <2>1. a \in Acc(T) /\ Apart(a, X)
    BY CloseApart
  <2> PICK p : p = Put(a, x, size)
    OBVIOUS
  <2>2. p \in Acc(T) /\ Apart(p, X \cup {x})
    <3> HIDE DEF full
    <3> QED BY <2>1, PutApart
  <2>3. Turn(acc, x, last, size) = IF last THEN Close(p) ELSE p
    BY <1>2 DEF Turn
  <2> HIDE DEF full
  <2>4. Close(p) \in Acc(T) /\ Apart(Close(p), X \cup {x})
    BY <2>2, CloseApart
  <2> QED BY <2>2, <2>3, <2>4
<1> QED BY <1>1, <1>2

(* A turn keeps the types of the loop.                                     *)
LEMMA TurnType ==
    ASSUME NEW T, NEW size \in [T -> Nat], NEW acc \in Acc(T), NEW x \in T,
           NEW last \in BOOLEAN
    PROVE  Turn(acc, x, last, size) \in Acc(T)
<1>1. ASSUME NEW a \in Acc(T) PROVE Close(a) \in Acc(T)
  <2> PICK bs \in Seq(Seq(T)) : bs = a.batches
    BY DEF Acc
  <2> PICK b \in Seq(T) : b = a.items
    BY DEF Acc
  <2>1. Append(bs, b) \in Seq(Seq(T))
    BY AppendedIs
  <2> QED BY <2>1 DEF Close, Acc
<1>2. ASSUME NEW a \in Acc(T) PROVE Put(a, x, size) \in Acc(T)
  <2>1. Append(a.items, x) \in Seq(T) /\ a.batchSize + size[x] \in Nat
    BY DEF Acc
  <2> QED BY <2>1 DEF Put, Acc
<1> QED BY <1>1, <1>2 DEF Turn

(* SendTraceBatches is computed from left to right.                        *)
CutLoop(f, n, T, list, size) ==
    /\ f \in [0..n -> Acc(T)] /\ f[0] = NoBatch /\ SendTraceBatches(list, size) = f[n]
    /\ \A i \in 1..n : f[i] = Turn(f[i - 1], list[i], i = n, size)

(* The batches of a list are made by a loop of turns.                      *)
LEMMA CutIsLoop ==
    ASSUME NEW T, NEW list \in Seq(T), NEW size \in [T -> Nat], NEW n \in Nat, n = Len(list)
    PROVE  \E f : CutLoop(f, n, T, list, size)
<1> DEFINE V == Acc(T)
           turn(i, v) == Turn(v, list[i], i = n, size)
           once(i, v) == CHOOSE next \in {Turn(acc, list[i], i = Len(list), size) : acc \in {v}} : TRUE
           st == [i \in 1..n |-> [v \in V |-> turn(i, v)]]
           F == CHOOSE f : f = [i \in 0..Len(list) |->
                    IF i = 0 THEN NoBatch
                    ELSE CHOOSE next \in {Turn(acc, list[i], i = Len(list), size) :
                                            acc \in {f[i - 1]}} : TRUE]
<1>0. \A i, v : once(i, v) = turn(i, v)
  OBVIOUS
<1>1. SendTraceBatches(list, size) = F[n]
  BY DEF SendTraceBatches
<1>2. \A i \in 1..n : list[i] \in T
  OBVIOUS
<1>3. st \in [1..n -> [V -> V]]
  <2> SUFFICES ASSUME NEW i \in 1..n, NEW v \in V PROVE turn(i, v) \in V
    OBVIOUS
  <2>1. list[i] \in T /\ (i = n) \in BOOLEAN
    BY <1>2
  <2> QED BY Zenon, <2>1, TurnType
<1>4. NoBatch \in V
  BY NoBatchCuts
<1>5. PICK g \in [0..n -> V] : IsLoop(g, n, NoBatch, st)
  <2> HIDE DEF st, V
  <2> QED BY Zenon, <1>3, <1>4, LoopExists
<1>6. \A i \in 1..n : g[i] = turn(i, g[i - 1])
  <2> SUFFICES ASSUME NEW i \in 1..n PROVE g[i] = turn(i, g[i - 1])
    OBVIOUS
  <2>1. g[i] = st[i][g[i - 1]]
    BY Zenon, <1>5 DEF IsLoop
  <2>2. g[i - 1] \in V
    <3>1. i - 1 \in 0..n
      OBVIOUS
    <3> HIDE DEF V
    <3> QED BY Zenon, <3>1
  <2> HIDE DEF V, turn
  <2> QED BY <2>1, <2>2
<1>7. g[0] = NoBatch
  BY <1>5 DEF IsLoop
<1>8. g = [i \in 0..n |-> IF i = 0 THEN NoBatch ELSE once(i, g[i - 1])]
  <2>1. ASSUME NEW i \in 0..n, i # 0 PROVE g[i] = once(i, g[i - 1])
    <3>1. i \in 1..n
      BY <2>1
    <3> HIDE DEF turn, V, once
    <3> QED BY <1>0, <1>6, <3>1
  <2> HIDE DEF V, once
  <2>2. \A i \in 0..n : g[i] = IF i = 0 THEN NoBatch ELSE once(i, g[i - 1])
    BY <1>7, <2>1
  <2> QED BY <2>2
<1>9. F = [i \in 0..n |-> IF i = 0 THEN NoBatch ELSE once(i, F[i - 1])]
  BY Zenon, <1>8
<1> HIDE DEF F, V, once, turn
<1>10. F = g
  <2> DEFINE Q == {i \in 0..n : F[i] = g[i]}
  <2>1. 0 \in Q
    BY <1>8, <1>9
  <2>2. ASSUME NEW i \in 1..n, i - 1 \in Q PROVE i \in Q
    <3>1. F[i - 1] = g[i - 1] /\ i \in 0..n /\ i # 0
      BY <2>2
    <3>2. F[i] = once(i, F[i - 1]) /\ g[i] = once(i, g[i - 1])
      BY Zenon, <1>8, <1>9, <3>1
    <3> QED BY <3>1, <3>2
  <2>3. \A i \in 0..n : i \in Q
    <3> HIDE DEF Q
    <3> QED BY Zenon, <2>1, <2>2, Induction
  <2>4. \A i \in 0..n : F[i] = g[i]
    BY <2>3
  <2> HIDE DEF Q
  <2> QED BY <1>8, <1>9, <2>4
<1>11. CutLoop(g, n, T, list, size)
  BY <1>1, <1>6, <1>7, <1>10 DEF V, turn, CutLoop
<1> QED BY <1>11

(* What SendTraceBatches returns for every list and every size of its items. *)
LEMMA SplitIsGreedy ==
    ASSUME NEW T, NEW list \in Seq(T), NEW size \in [T -> Nat]
    PROVE  LET c == SendTraceBatches(list, size)
           IN /\ c \in Acc(T) /\ Cutting(c, size)
              /\ Flat(c) = Fitting(list, size)
              /\ c.items # <<>> => size[list[Len(list)]] > maxApiSize
              /\ Distinct(list) => Apart(c, Range(list))
<1> PICK n \in Nat : n = Len(list)
  OBVIOUS
<1> DEFINE Fits == {x \in DOMAIN size : size[x] <= maxApiSize}
           Upto(i) == {list[j] : j \in 1..i}
<1>0. PICK f : CutLoop(f, n, T, list, size)
  BY CutIsLoop
<1>1. PICK h : KeptLoop(h, n, T, list, Fits)
  <2> HIDE DEF Fits
  <2> QED BY Zenon, KeptIsLoop
<1>2. DOMAIN list = 1..n /\ \A i \in 1..n : list[i] \in T
  OBVIOUS
<1>3. /\ \A i \in 0..n : f[i] \in Acc(T)
      /\ f[0] = NoBatch /\ SendTraceBatches(list, size) = f[n]
      /\ \A i \in 1..n : f[i] = Turn(f[i - 1], list[i], i = n, size)
  BY Zenon, <1>0 DEF CutLoop
<1>4. /\ h[0] = <<>> /\ Fitting(list, size) = h[n]
      /\ \A i \in 1..n : h[i] = IF list[i] \in Fits THEN Append(h[i - 1], list[i]) ELSE h[i - 1]
  <2> HIDE DEF Fits
  <2>1. Fitting(list, size) = Kept(list, Fits)
    BY DEF Fitting, Fits
  <2> QED BY <1>1, <2>1 DEF KeptLoop
<1> DEFINE P == {i \in 0..n : /\ Cutting(f[i], size) /\ Flat(f[i]) = h[i]
                              /\ i # n => Filling(f[i])
                              /\ i = n /\ i # 0 /\ f[i].items # <<>> => size[list[i]] > maxApiSize
                              /\ Distinct(list) => Apart(f[i], Upto(i))}
<1>5. 0 \in P
  <2>1. Apart(NoBatch, Upto(0))
    <3>1. Range(<<>>) = {} /\ DOMAIN <<>> = {}
      BY DEF Range
    <3> QED BY <3>1 DEF Apart, NoBatch
  <2>2. Cutting(NoBatch, size) /\ Filling(NoBatch) /\ Flat(NoBatch) = <<>>
    BY NoBatchCuts
  <2> HIDE DEF Upto
  <2> QED BY <2>1, <2>2, <1>3, <1>4
<1>6. ASSUME NEW i \in 1..n, i - 1 \in P PROVE i \in P
  <2>1. i - 1 \in 0..n /\ i \in 0..n /\ i - 1 # n /\ i # 0
    OBVIOUS
  <2> PICK acc \in Acc(T) : acc = f[i - 1]
    BY <1>3, <2>1
  <2> PICK x \in T : x = list[i]
    BY <1>2
  <2>2. PICK last \in BOOLEAN : f[i] = Turn(acc, x, last, size) /\ (last <=> i = n)
    <3>1. f[i] = Turn(acc, x, i = n, size)
      BY <1>3
    <3>2. CASE i = n
      <4>1. (i = n) = TRUE
        BY <3>2
      <4>2. f[i] = Turn(acc, x, TRUE, size)
        BY <3>1, <4>1, Zenon
      <4> QED BY Zenon, <3>2, <4>2
    <3>3. CASE i # n
      <4>1. (i = n) = FALSE
        BY <3>3
      <4>2. f[i] = Turn(acc, x, FALSE, size)
        BY <3>1, <4>1, Zenon
      <4> QED BY Zenon, <3>3, <4>2
    <3> QED BY <3>2, <3>3
  <2> PICK r : r = f[i]
    OBVIOUS
  <2>3. Cutting(acc, size) /\ Flat(acc) = h[i - 1] /\ Filling(acc)
        /\ (Distinct(list) => Apart(acc, Upto(i - 1)))
    <3> HIDE DEF Upto
    <3> QED BY <1>6, <2>1
  <2>4. /\ Cutting(r, size)
        /\ Flat(r) = IF size[x] <= maxApiSize THEN Append(Flat(acc), x) ELSE Flat(acc)
        /\ ~last => Filling(r)
        /\ last /\ r.items # <<>> => size[x] > maxApiSize
    <3>1. Turned(Turn(acc, x, last, size), acc, x, last, size)
      BY <2>3, TurnCuts
    <3>2. Turned(r, acc, x, last, size)
      BY <3>1, <2>2
    <3> QED BY <3>2 DEF Turned
  <2>5. Flat(r) = h[i]
    <3>1. (x \in Fits) <=> (size[x] <= maxApiSize)
      OBVIOUS
    <3>2. h[i] = IF x \in Fits THEN Append(h[i - 1], x) ELSE h[i - 1]
      BY <1>4
    <3> HIDE DEF Fits
    <3> QED BY <3>1, <3>2, <2>3, <2>4
  <2>6. Upto(i) = Upto(i - 1) \cup {x}
    <3>1. 1..i = 1..(i - 1) \cup {i}
      OBVIOUS
    <3> QED BY <3>1
  <2>7. Distinct(list) => x \notin Upto(i - 1)
    <3> SUFFICES ASSUME Distinct(list), NEW j \in 1..(i - 1) PROVE list[i] # list[j]
      BY Zenon
    <3>1. j \in 1..n /\ j # i
      OBVIOUS
    <3> QED BY Zenon, <1>2, <3>1 DEF Distinct
  <2>8. Distinct(list) => Apart(r, Upto(i))
    <3> HIDE DEF Upto
    <3>1. ASSUME NEW X, x \notin X, Apart(acc, X) PROVE Apart(r, X \cup {x})
      BY SMT, Z3, <2>2, <3>1, TurnApart
    <3> QED BY <2>3, <2>6, <2>7, <3>1
  <2> HIDE DEF Upto
  <2> QED BY <2>1, <2>2, <2>4, <2>5, <2>8
<1>7. n \in P /\ n \in 0..n
  <2>1. n \in 0..n
    OBVIOUS
  <2> HIDE DEF P
  <2>2. \A i \in 0..n : i \in P
    BY Zenon, <1>5, <1>6, Induction
  <2> QED BY <2>1, <2>2
<1>8. Range(list) = Upto(n)
  BY <1>2 DEF Range
<1> HIDE DEF Upto
<1>9. f[n].items # <<>> => n # 0
  BY <1>3 DEF NoBatch
<1> QED BY <1>3, <1>4, <1>7, <1>8, <1>9
=============================================================================
