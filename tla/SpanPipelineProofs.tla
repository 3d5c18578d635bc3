-------------------------- MODULE SpanPipelineProofs --------------------------
(***************************************************************************)
(* Proofs about the pipeline of spans: the span metrics processor always   *)
(* finds the dimensions of what it collects; the three exporters neither   *)
(* write through a closed connection nor lose what they have acknowledged; *)
(* every span is counted and metered once for each call of the processor;  *)
(* and the series that are stored are well formed.  All of it for any settings, spans and points,
   any     *)
(* number of pushes, retries and failing statements.                       *)
(*                                                                         *)
(* Each exporter is looked at alone: of a step of the pipeline it sees one *)
(* of its own, a new push at the end of its sequence of pushes, or none.   *)
(* Counting needs the laws of sums over finite sets, and the series need   *)
(* what the caches and the keys of the processor do from flush to flush.   *)
(***************************************************************************)
EXTENDS SpanPipeline, SequenceTheorems, FiniteSetTheorems, WellFoundedInduction, TLAPS

-----------------------------------------------------------------------------
(* Sequences of pushes. *)

Sequence(s) == s \in Seq(Range(s))

(* One element set, and one appended. *)
SetsAt(s, t, i, e) ==
  /\ DOMAIN t = DOMAIN s /\ t[i] = e
  /\ \A j \in DOMAIN s : j # i => t[j] = s[j]

AppendsTo(s, t, e) ==
  \E n : /\ n \notin DOMAIN s /\ DOMAIN t = DOMAIN s \cup {n} /\ t[n] = e
         /\ \A j \in DOMAIN s : t[j] = s[j]

(* A function on the numbers up to n is a sequence. *)
LEMMA SequenceIs ==
  ASSUME NEW s, NEW n \in Nat, DOMAIN s = 1..n, s = [i \in 1..n |-> s[i]]
  PROVE  Sequence(s)
PROOF
  BY DEF Sequence, Range

(* Setting an element. *)
LEMMA SetsAtIs ==
  ASSUME NEW s, Sequence(s), NEW i \in DOMAIN s, NEW e, NEW t, t = [s EXCEPT ![i] = e]
  PROVE  Sequence(t) /\ SetsAt(s, t, i, e)
PROOF
<1>1. SetsAt(s, t, i, e)
    BY DEF SetsAt, Sequence
<1>2. Len(s) \in Nat /\ DOMAIN s = 1..Len(s)
    BY DEF Sequence
<1>3. DOMAIN t = 1..Len(s) /\ t = [j \in 1..Len(s) |-> t[j]]
    BY <1>2
<1> QED BY <1>1, <1>2, <1>3, SequenceIs

(* Appending one. *)
LEMMA AppendsToIs ==
  ASSUME NEW s, Sequence(s), NEW e, NEW t, t = Append(s, e)
  PROVE  Sequence(t) /\ AppendsTo(s, t, e)
PROOF
<1>1. Len(s) \in Nat /\ DOMAIN s = 1..Len(s)
    BY DEF Sequence
<1> DEFINE n == Len(s) + 1
<1>2. s \in Seq(Range(s) \cup {e}) /\ e \in Range(s) \cup {e}
    BY DEF Sequence
<1>3. DOMAIN t = 1..n /\ t = [j \in 1..n |-> t[j]]
  <2>1. t \in Seq(Range(s) \cup {e}) /\ Len(t) = n
      BY <1>1, <1>2
  <2>2. t \in [1..n -> Range(s) \cup {e}]
      BY <2>1, LenProperties
  <2> QED BY <2>2
<1>4. n \in Nat /\ n \notin DOMAIN s /\ 1..n = DOMAIN s \cup {n}
    BY <1>1
<1>5. t[n] = e /\ \A j \in DOMAIN s : t[j] = s[j]
    BY <1>1, <1>2
<1> HIDE DEF n
<1> QED BY <1>3, <1>4, <1>5, SequenceIs DEF AppendsTo

-----------------------------------------------------------------------------
(* Sums of counts.  A fold is a recursive function on the subsets of a      *)
(* finite set; what it computes is shown by induction on their size, for a  *)
(* set of natural numbers.                                                  *)

(* Induction on the natural numbers, for a set of them. *)
LEMMA NatInduct ==
  ASSUME NEW G, 0 \in G, \A n \in Nat : n \in G => n + 1 \in G
  PROVE  Nat \subseteq G
PROOF
<1> DEFINE R == {p \in Nat \X Nat : p[1] < p[2]}
           T == Nat \ G
<1>1. IsWellFoundedOn(R, Nat)
    BY NatLessThanWellFounded DEF OpToRel
<1>2. ASSUME NEW x \in Nat, NEW y \in Nat, y < x
      PROVE  <<y, x>> \in R
    BY <1>2
<1> HIDE DEF R
<1>3. SUFFICES ASSUME T # {}
               PROVE  FALSE
    OBVIOUS
<1>4. PICK x \in T : \A y \in T : ~(<<y, x>> \in R)
    BY <1>1, <1>3, WFMin
<1>5. x \in Nat /\ x # 0 /\ x - 1 \in Nat /\ x - 1 < x
    BY <1>4
<1>6. x - 1 \in G
    BY <1>2, <1>4, <1>5
<1>7. (x - 1) + 1 \in G
    BY <1>5, <1>6
<1> QED BY <1>4, <1>5, <1>7

(* The element a fold takes first. *)
First(s) == CHOOSE x \in s : TRUE

(* The partial sums of f over the subsets of S. *)
Partial(f, S, g) ==
  g = [s \in SUBSET S |-> IF s = {} THEN 0 ELSE f[First(s)] + g[s \ {First(s)}]]

(* It is one of them. *)
LEMMA FirstIn ==
  ASSUME NEW s, s # {}
  PROVE  First(s) \in s
PROOF
  BY DEF First

(* A finite set without its first element. *)
LEMMA Smaller ==
  ASSUME NEW S, IsFiniteSet(S), NEW s \in SUBSET S
  PROVE  /\ IsFiniteSet(s) /\ Cardinality(s) \in Nat /\ Cardinality(s) <= Cardinality(S)
         /\ Cardinality(s) = 0 <=> s = {}
         /\ s # {} => /\ s \ {First(s)} \in SUBSET S
                      /\ Cardinality(s \ {First(s)}) = Cardinality(s) - 1
PROOF
<1>1. IsFiniteSet(s) /\ Cardinality(s) \in Nat /\ Cardinality(s) <= Cardinality(S)
    BY FS_Subset, FS_CardinalityType
<1>2. Cardinality(s) = 0 <=> s = {}
    BY <1>1, FS_EmptySet
<1>3. s # {} => Cardinality(s \ {First(s)}) = Cardinality(s) - 1
    BY <1>1, FS_RemoveElement, FirstIn
<1> QED BY <1>1, <1>2, <1>3

(* A subset of n + 1 elements has a first one and n others. *)
LEMMA OneMore ==
  ASSUME NEW S, IsFiniteSet(S), NEW T \in SUBSET S, NEW n \in Nat, Cardinality(T) = n + 1
  PROVE  /\ IsFiniteSet(T) /\ T # {} /\ First(T) \in T
         /\ \A x \in T : T \ {x} \in SUBSET S /\ Cardinality(T \ {x}) = n
PROOF
<1>1. IsFiniteSet(T)
    BY FS_Subset
<1>2. Cardinality(T) # 0
    OBVIOUS
<1>3. T # {}
    BY <1>1, <1>2, FS_EmptySet
<1>4. ASSUME NEW x \in T PROVE Cardinality(T \ {x}) = n
  <2>1. Cardinality(T \ {x}) = Cardinality(T) - 1
      BY <1>1, FS_RemoveElement
  <2> QED BY <2>1
<1> QED BY <1>1, <1>3, <1>4, FirstIn

(* There are partial sums, *)
LEMMA PartialExists ==
  ASSUME NEW f, NEW S, IsFiniteSet(S)
  PROVE  \E g : Partial(f, S, g)
PROOF
<1> DEFINE Sub(n) == {s \in SUBSET S : Cardinality(s) <= n}
           Def(n, g) == g = [s \in Sub(n) |-> IF s = {} THEN 0
                                              ELSE f[First(s)] + g[s \ {First(s)}]]
           Good == {n \in Nat : \E g : Def(n, g)}
<1>0. ASSUME NEW s \in SUBSET S
      PROVE  /\ IsFiniteSet(s) /\ Cardinality(s) \in Nat /\ Cardinality(s) <= Cardinality(S)
             /\ Cardinality(s) = 0 <=> s = {}
             /\ s # {} => /\ s \ {First(s)} \in SUBSET S
                          /\ Cardinality(s \ {First(s)}) = Cardinality(s) - 1
    BY Smaller
<1>1. 0 \in Good
  <2> DEFINE g == [s \in Sub(0) |-> 0]
  <2>1. ASSUME NEW s \in Sub(0) PROVE s = {}
    <3>1. s \in SUBSET S /\ Cardinality(s) <= 0
        OBVIOUS
    <3>2. Cardinality(s) \in Nat
        BY <1>0, <3>1
    <3>3. Cardinality(s) = 0
        BY <3>1, <3>2
    <3> QED BY <1>0, <3>1, <3>3
  <2>2. Def(0, g)
      BY <2>1
  <2> QED BY <2>2
<1>2. ASSUME NEW n \in Nat, n \in Good PROVE n + 1 \in Good
  <2>1. PICK g : Def(n, g)
      BY <1>2
  <2> DEFINE h == [s \in Sub(n + 1) |-> IF s = {} THEN 0 ELSE f[First(s)] + g[s \ {First(s)}]]
  <2>2. ASSUME NEW s \in Sub(n + 1), s # {}
        PROVE  s \ {First(s)} \in Sub(n) /\ s \ {First(s)} \in Sub(n + 1)
      BY <1>0, <2>2
  <2>3. ASSUME NEW s \in Sub(n) PROVE s \in Sub(n + 1)
    <3>1. s \in SUBSET S /\ Cardinality(s) <= n
        OBVIOUS
    <3>2. Cardinality(s) \in Nat
        BY <1>0, <3>1
    <3> QED BY <3>1, <3>2
  <2> HIDE DEF Sub
  <2>4. ASSUME NEW s \in Sub(n) PROVE h[s] = g[s]
      BY <2>1, <2>3
  <2>5. Def(n + 1, h)
      BY <2>2, <2>4
  <2>6. \E x : Def(n + 1, x)
    <3> HIDE DEF h
    <3> QED BY <2>5
  <2> HIDE DEF h, Def
  <2> QED BY <2>6
<1>3. Cardinality(S) \in Nat
    BY FS_CardinalityType
<1> HIDE DEF Good
<1>4. Cardinality(S) \in Good
    BY <1>1, <1>2, <1>3, NatInduct
<1>5. PICK g : Def(Cardinality(S), g)
    BY <1>4 DEF Good
<1>6. Sub(Cardinality(S)) = SUBSET S
    BY <1>0
<1> QED BY <1>5, <1>6 DEF Partial

(* and those over a part of the set are the same. *)
LEMMA PartialUnique ==
  ASSUME NEW f, NEW S, IsFiniteSet(S), NEW T \in SUBSET S, NEW g, NEW h,
         Partial(f, S, g), Partial(f, T, h)
  PROVE  g[T] = h[T]
PROOF
<1> DEFINE Good == {n \in Nat : \A s \in SUBSET T : Cardinality(s) = n => g[s] = h[s]}
<1>0. ASSUME NEW s \in SUBSET T
      PROVE  /\ g[s] = IF s = {} THEN 0 ELSE f[First(s)] + g[s \ {First(s)}]
             /\ h[s] = IF s = {} THEN 0 ELSE f[First(s)] + h[s \ {First(s)}]
             /\ s \in SUBSET S
    BY DEF Partial
<1>1. 0 \in Good
    BY <1>0, Smaller
<1>2. ASSUME NEW n \in Nat, n \in Good PROVE n + 1 \in Good
  <2> SUFFICES ASSUME NEW s \in SUBSET T, Cardinality(s) = n + 1 PROVE g[s] = h[s]
      OBVIOUS
  <2>1. s # {} /\ s \ {First(s)} \in SUBSET T /\ Cardinality(s \ {First(s)}) = n
      BY Smaller
  <2>2. g[s \ {First(s)}] = h[s \ {First(s)}]
      BY <1>2, <2>1
  <2> QED BY <1>0, <2>1, <2>2
<1> HIDE DEF Good
<1>3. Cardinality(T) \in Nat
    BY Smaller
<1>4. Cardinality(T) \in Good
    BY <1>1, <1>2, <1>3, NatInduct
<1> QED BY <1>4 DEF Good

(* A sum is the last of its partial sums. *)
LEMMA SumIs ==
  ASSUME NEW f, NEW S, IsFiniteSet(S)
  PROVE  \E g : Partial(f, S, g) /\ SumFunctionOnSet(f, S) = g[S]
PROOF
<1>1. PICK g : Partial(f, S, g)
    BY PartialExists
<1>2. g = [s \in SUBSET S |-> IF s = {} THEN 0
             ELSE f[CHOOSE x \in s : TRUE] + g[s \ {CHOOSE x \in s : TRUE}]]
    BY <1>1 DEF Partial, First
<1>3. \E h : /\ h = [s \in SUBSET S |-> IF s = {} THEN 0
                     ELSE f[CHOOSE x \in s : TRUE] + h[s \ {CHOOSE x \in s : TRUE}]]
             /\ SumFunctionOnSet(f, S) = h[S]
    BY <1>2 DEF SumFunctionOnSet, FoldFunctionOnSet, MapThenFoldSet
<1> QED BY <1>3 DEF Partial, First

(* The sum over no elements, *)
LEMMA SumEmpty ==
  ASSUME NEW f
  PROVE  SumFunctionOnSet(f, {}) = 0
PROOF
<1>1. IsFiniteSet({})
    BY FS_EmptySet
<1>2. PICK g : Partial(f, {}, g) /\ SumFunctionOnSet(f, {}) = g[{}]
    BY <1>1, SumIs
<1> QED BY <1>2 DEF Partial

(* and over some: the first one and the others. *)
LEMMA SumFirst ==
  ASSUME NEW f, NEW S, IsFiniteSet(S), S # {}
  PROVE  SumFunctionOnSet(f, S) = f[First(S)] + SumFunctionOnSet(f, S \ {First(S)})
PROOF
<1> DEFINE T == S \ {First(S)}
<1>1. IsFiniteSet(T) /\ T \in SUBSET S
    BY FS_Subset
<1>2. PICK g : Partial(f, S, g) /\ SumFunctionOnSet(f, S) = g[S]
    BY SumIs
<1>3. PICK h : Partial(f, T, h) /\ SumFunctionOnSet(f, T) = h[T]
    BY <1>1, SumIs
<1>4. g[T] = h[T]
    BY <1>1, <1>2, <1>3, PartialUnique
<1>5. g[S] = f[First(S)] + g[T]
    BY <1>2 DEF Partial
<1> QED BY <1>2, <1>3, <1>4, <1>5

(* Counts have a natural number as their sum, *)
LEMMA SumNat ==
  ASSUME NEW f, NEW S, IsFiniteSet(S), \A x \in S : f[x] \in Nat
  PROVE  SumFunctionOnSet(f, S) \in Nat
PROOF
<1> DEFINE Sum(T) == SumFunctionOnSet(f, T)
           Good == {n \in Nat : \A T \in SUBSET S : Cardinality(T) = n => Sum(T) \in Nat}
<1>0. ASSUME NEW s \in SUBSET S
      PROVE  /\ IsFiniteSet(s) /\ Cardinality(s) \in Nat /\ Cardinality(s) <= Cardinality(S)
             /\ Cardinality(s) = 0 <=> s = {}
             /\ s # {} => /\ s \ {First(s)} \in SUBSET S
                          /\ Cardinality(s \ {First(s)}) = Cardinality(s) - 1
    BY Smaller
<1>1. 0 \in Good
    BY <1>0, SumEmpty
<1>2. ASSUME NEW n \in Nat, n \in Good PROVE n + 1 \in Good
  <2> SUFFICES ASSUME NEW T \in SUBSET S, Cardinality(T) = n + 1 PROVE Sum(T) \in Nat
      OBVIOUS
  <2> DEFINE y == First(T)
             U == T \ {y}
  <2>1. T # {} /\ IsFiniteSet(T)
      BY OneMore
  <2>2. U \in SUBSET S /\ Cardinality(U) = n
      BY OneMore
  <2>3. y \in S
      BY <2>1, FirstIn
  <2>4. Sum(U) \in Nat
      BY <1>2, <2>2
  <2>5. Sum(T) = f[y] + Sum(U)
      BY <2>1, SumFirst
  <2> HIDE DEF Sum, y, U
  <2> QED BY <2>3, <2>4, <2>5
<1> HIDE DEF Good
<1>3. Cardinality(S) \in Good
    BY <1>0, <1>1, <1>2, NatInduct
<1> QED BY <1>3 DEF Good

(* and any of them may be taken out of it. *)
LEMMA SumRemove ==
  ASSUME NEW f, NEW S, IsFiniteSet(S), \A x \in S : f[x] \in Nat
  PROVE  \A x \in S : SumFunctionOnSet(f, S) = f[x] + SumFunctionOnSet(f, S \ {x})
PROOF
<1> DEFINE Sum(T) == SumFunctionOnSet(f, T)
           Holds(T) == \A x \in T : Sum(T) = f[x] + Sum(T \ {x})
           Good == {n \in Nat : \A T \in SUBSET S : Cardinality(T) = n => Holds(T)}
<1>0. ASSUME NEW s \in SUBSET S
      PROVE  /\ IsFiniteSet(s) /\ Cardinality(s) \in Nat /\ Cardinality(s) <= Cardinality(S)
             /\ Cardinality(s) = 0 <=> s = {}
             /\ s # {} => /\ s \ {First(s)} \in SUBSET S
                          /\ Cardinality(s \ {First(s)}) = Cardinality(s) - 1
    BY Smaller
<1>n. ASSUME NEW T \in SUBSET S PROVE Sum(T) \in Nat
    BY <1>0, SumNat
<1>1. 0 \in Good
    BY <1>0
<1>2. ASSUME NEW n \in Nat, n \in Good PROVE n + 1 \in Good
  <2> SUFFICES ASSUME NEW T \in SUBSET S, Cardinality(T) = n + 1, NEW x \in T
               PROVE  Sum(T) = f[x] + Sum(T \ {x})
      OBVIOUS
  <2> DEFINE y == First(T)
             U == T \ {y}
             V == T \ {x}
  <2>1. T # {} /\ IsFiniteSet(T)
      BY OneMore
  <2>2. U \in SUBSET S /\ Cardinality(U) = n
      BY OneMore
  <2>3. y \in T
      BY <2>1, FirstIn
  <2>4. Sum(T) = f[y] + Sum(U)
      BY <2>1, SumFirst
  <2>5. V \in SUBSET S /\ Cardinality(V) = n
      BY OneMore
  <2>6. Holds(U) /\ Holds(V)
      BY <1>2, <2>2, <2>5
  <2> HIDE DEF Sum, y
  <2>7. CASE x # y
    <3>1. V \ {y} = U \ {x} /\ x \in U /\ y \in V
        BY <2>3, <2>7
    <3>2. Sum(V) = f[y] + Sum(U \ {x}) /\ Sum(U) = f[x] + Sum(U \ {x})
        BY <2>6, <3>1
    <3>3. Sum(U \ {x}) \in Nat /\ f[x] \in Nat /\ f[y] \in Nat
        BY <1>n, <2>3
    <3> QED BY <2>4, <3>2, <3>3
  <2> QED BY <2>4, <2>7
<1> HIDE DEF Good
<1>3. Cardinality(S) \in Good
    BY <1>0, <1>1, <1>2, NatInduct
<1> QED BY <1>3 DEF Good

(* The image of a finite set is finite. *)
LEMMA ImageFinite ==
  ASSUME NEW S, IsFiniteSet(S), NEW b
  PROVE  IsFiniteSet({b[x] : x \in S})
PROOF
<1> DEFINE T == {b[x] : x \in S}
           c == [x \in S |-> b[x]]
<1>1. c \in Surjection(S, T)
    BY DEF Surjection
<1> QED BY <1>1, FS_Surjection DEF ExistsSurjection

(* Functions with the same values have the same sum, *)
LEMMA SumSame ==
  ASSUME NEW f, NEW g, NEW S, IsFiniteSet(S), \A x \in S : f[x] = g[x]
  PROVE  SumFunctionOnSet(f, S) = SumFunctionOnSet(g, S)
PROOF
<1> DEFINE Good == {n \in Nat : \A T \in SUBSET S : Cardinality(T) = n =>
                      SumFunctionOnSet(f, T) = SumFunctionOnSet(g, T)}
<1>0. ASSUME NEW s \in SUBSET S
      PROVE  /\ IsFiniteSet(s) /\ Cardinality(s) \in Nat /\ Cardinality(s) <= Cardinality(S)
             /\ Cardinality(s) = 0 <=> s = {}
             /\ s # {} => /\ s \ {First(s)} \in SUBSET S
                          /\ Cardinality(s \ {First(s)}) = Cardinality(s) - 1
    BY Smaller
<1>1. 0 \in Good
    BY <1>0, SumEmpty
<1>2. ASSUME NEW n \in Nat, n \in Good PROVE n + 1 \in Good
  <2> SUFFICES ASSUME NEW T \in SUBSET S, Cardinality(T) = n + 1
               PROVE  SumFunctionOnSet(f, T) = SumFunctionOnSet(g, T)
      OBVIOUS
  <2> DEFINE y == First(T)
             U == T \ {y}
  <2>1. T # {} /\ IsFiniteSet(T)
      BY OneMore
  <2>2. U \in SUBSET S /\ Cardinality(U) = n
      BY OneMore
  <2>3. y \in S
      BY <2>1, FirstIn
  <2>4. SumFunctionOnSet(f, U) = SumFunctionOnSet(g, U)
      BY <1>2, <2>2
  <2>5. /\ SumFunctionOnSet(f, T) = f[y] + SumFunctionOnSet(f, U)
        /\ SumFunctionOnSet(g, T) = g[y] + SumFunctionOnSet(g, U)
      BY <2>1, SumFirst
  <2> HIDE DEF y
  <2> QED BY <2>3, <2>4, <2>5
<1> HIDE DEF Good
<1>3. Cardinality(S) \in Good
    BY <1>0, <1>1, <1>2, NatInduct
<1> QED BY <1>3 DEF Good

(* also when they are counted under other names. *)
LEMMA SumRenamed ==
  ASSUME NEW f, NEW S, IsFiniteSet(S), NEW g, NEW b, \A x \in S : f[x] \in Nat,
         \A x \in S : g[b[x]] = f[x], \A x, y \in S : b[x] = b[y] => x = y
  PROVE  SumFunctionOnSet(g, {b[x] : x \in S}) = SumFunctionOnSet(f, S)
PROOF
<1> DEFINE Image(T) == {b[x] : x \in T}
           Good == {n \in Nat : \A T \in SUBSET S : Cardinality(T) = n =>
                      SumFunctionOnSet(g, Image(T)) = SumFunctionOnSet(f, T)}
<1>0. ASSUME NEW s \in SUBSET S
      PROVE  /\ IsFiniteSet(s) /\ Cardinality(s) \in Nat /\ Cardinality(s) <= Cardinality(S)
             /\ Cardinality(s) = 0 <=> s = {}
             /\ s # {} => /\ s \ {First(s)} \in SUBSET S
                          /\ Cardinality(s \ {First(s)}) = Cardinality(s) - 1
    BY Smaller
<1>1. 0 \in Good
  <2>1. ASSUME NEW T \in SUBSET S, Cardinality(T) = 0 PROVE T = {} /\ Image(T) = {}
    <3>1. T = {}
        BY <1>0, <2>1
    <3> QED BY <3>1
  <2> HIDE DEF Image
  <2> QED BY <2>1, SumEmpty
<1>2. ASSUME NEW n \in Nat, n \in Good PROVE n + 1 \in Good
  <2> SUFFICES ASSUME NEW T \in SUBSET S, Cardinality(T) = n + 1
               PROVE  SumFunctionOnSet(g, Image(T)) = SumFunctionOnSet(f, T)
      OBVIOUS
  <2> DEFINE y == First(T)
             U == T \ {y}
  <2>1. T # {} /\ IsFiniteSet(T)
      BY OneMore
  <2>2. U \in SUBSET S /\ Cardinality(U) = n
      BY OneMore
  <2>3. y \in T
      BY <2>1, FirstIn
  <2>4. SumFunctionOnSet(g, Image(U)) = SumFunctionOnSet(f, U)
      BY <1>2, <2>2
  <2>5. SumFunctionOnSet(f, T) = f[y] + SumFunctionOnSet(f, U)
      BY <2>1, SumFirst
  <2> HIDE DEF y
  <2>6. b[y] \in Image(T) /\ Image(T) \ {b[y]} = Image(U)
      BY <2>3
  <2>7. IsFiniteSet(Image(T)) /\ \A z \in Image(T) : g[z] \in Nat
      BY <2>1, ImageFinite
  <2> HIDE DEF Image, U
  <2>8. SumFunctionOnSet(g, Image(T)) = g[b[y]] + SumFunctionOnSet(g, Image(U))
      BY <2>6, <2>7, SumRemove
  <2> QED BY <2>3, <2>4, <2>5, <2>8
<1> HIDE DEF Good
<1>3. Cardinality(S) \in Good
    BY <1>0, <1>1, <1>2, NatInduct
<1> QED BY <1>3 DEF Good

(* One count grows, or is new: the sum grows by as much. *)
LEMMA SumGrows ==
  ASSUME NEW f, IsFiniteSet(DOMAIN f), \A x \in DOMAIN f : f[x] \in Nat, NEW k, NEW d \in Nat,
         NEW g, DOMAIN g = DOMAIN f \cup {k}, \A x \in DOMAIN f : x # k => g[x] = f[x],
         g[k] = (IF k \in DOMAIN f THEN f[k] ELSE 0) + d
  PROVE  SumFunction(g) = SumFunction(f) + d
PROOF
<1> DEFINE S == DOMAIN f \ {k}
<1>1. IsFiniteSet(DOMAIN g) /\ IsFiniteSet(S) /\ \A x \in DOMAIN g : g[x] \in Nat
    BY FS_AddElement, FS_Subset
<1>2. DOMAIN g \ {k} = S /\ k \in DOMAIN g
    OBVIOUS
<1>3. SumFunction(g) = g[k] + SumFunctionOnSet(g, S)
    BY <1>1, <1>2, SumRemove DEF SumFunction
<1>4. SumFunctionOnSet(g, S) = SumFunctionOnSet(f, S) /\ SumFunctionOnSet(f, S) \in Nat
    BY <1>1, SumSame, SumNat
<1>5. SumFunction(f) = (IF k \in DOMAIN f THEN f[k] ELSE 0) + SumFunctionOnSet(f, S)
  <2>1. CASE k \in DOMAIN f
      BY <2>1, SumRemove DEF SumFunction
  <2>2. CASE k \notin DOMAIN f
    <3>1. S = DOMAIN f
        BY <2>2
    <3> QED BY <2>2, <3>1, <1>4 DEF SumFunction
  <2> QED BY <2>1, <2>2
<1> HIDE DEF S
<1> QED BY <1>3, <1>4, <1>5

(* A function whose values are counts, of finitely many. *)
Counts(f) ==
  /\ f = [x \in DOMAIN f |-> f[x]] /\ IsFiniteSet(DOMAIN f)
  /\ \A x \in DOMAIN f : f[x] \in Nat

-----------------------------------------------------------------------------
(* The metrics exporter. *)

MetricRecord(pc, points, left, series, failed, tries) ==
  [pc |-> pc, points |-> points, left |-> left, series |-> series, failed |-> failed,
      tries |-> tries]

MetricFields(x) == x = MetricRecord(x.pc, x.points, x.left, x.series, x.failed, x.tries)

MetricShape ==
  /\ Sequence(metricPush)
  /\ \A i \in DOMAIN metricPush :
       /\ MetricFields(metricPush[i]) /\ metricPush[i].failed \in BOOLEAN
       /\ metricPush[i].pc \in {"enter", "check", "write", "done"}
  /\ metricTable = [t \in Tables |-> metricTable[t]]

(* Only a push that writes has writers at work, and its series are         *)
(* appended before they are sent.                                          *)
MetricLeft ==
  \A i \in DOMAIN metricPush :
    /\ metricPush[i].pc # "write" => metricPush[i].left = {}
    /\ "ts" \in metricPush[i].left => "send" \notin metricPush[i].left

MetricClosed ==
  metricExp = "closed" => \A i \in DOMAIN metricPush : metricPush[i].pc # "write"

(* What a push that has not failed has to write is still to be written or  *)
(* is in its table, its series in the cache.                               *)
MetricRowsOf(i) ==
  metricPush[i].pc \in {"write", "done"} /\ ~metricPush[i].failed =>
    LET rows == PrepareBatch(metricPush[i].points)
    IN  /\ \A t \in {"samples", "exphist"} :
             t \in metricPush[i].left \/ rows[t] \subseteq metricTable[t]
        /\ "ts" \in metricPush[i].left \/ rows["ts"] \subseteq tsCache

MetricWritten == \A i \in DOMAIN metricPush : MetricRowsOf(i)

(* The cache holds what is stored or about to be sent. *)
MetricCached ==
  faults = 0 => tsCache \subseteq metricTable["ts"] \cup SeriesUnderWay

MetricInv == MetricShape /\ MetricLeft /\ MetricClosed /\ MetricWritten /\ MetricCached

(* A step of push i: what it leaves, and the tables, cache and faults.     *)
MetricGoes(i, pc, left, series, failed) ==
  /\ Sequence(metricPush') /\ DOMAIN metricPush' = DOMAIN metricPush
  /\ \A j \in DOMAIN metricPush : j # i => metricPush'[j] = metricPush[j]
  /\ MetricFields(metricPush'[i]) /\ metricPush'[i].points = metricPush[i].points
  /\ metricPush'[i].pc = pc /\ metricPush'[i].left = left
  /\ metricPush'[i].series = series /\ metricPush'[i].failed = failed

MetricRest == UNCHANGED <<metricTable, tsCache, metricExp, faults>>

MetricMoves(i) ==
  /\ MetricRest
  /\ \/ /\ metricPush[i].pc = "enter"
        /\ MetricGoes(i, "check", metricPush[i].left, metricPush[i].series,
             metricPush[i].failed)
     \/ /\ metricPush[i].pc = "check"
        /\ MetricGoes(i, "done", metricPush[i].left, metricPush[i].series, TRUE)
     \/ /\ metricPush[i].pc = "done" /\ metricPush[i].failed
        /\ MetricGoes(i, "enter", metricPush[i].left, metricPush[i].series, FALSE)
     \/ /\ metricPush[i].pc = "write" /\ metricPush[i].left = {}
        /\ MetricGoes(i, "done", metricPush[i].left, metricPush[i].series,
             metricPush[i].failed)

MetricAdmits(i) ==
  /\ MetricRest /\ metricPush[i].pc = "check" /\ metricExp = "open"
  /\ MetricGoes(i, "write", Writers(metricPush[i].points), metricPush[i].series, FALSE)

MetricAppends(i) ==
  \E new :
    /\ metricPush[i].pc = "write" /\ "ts" \in metricPush[i].left
    /\ new = PrepareBatch(metricPush[i].points).ts \ tsCache /\ tsCache' = tsCache \cup new
    /\ MetricGoes(i, "write", (metricPush[i].left \ {"ts"}) \cup {"send"}, new,
                  metricPush[i].failed)
    /\ UNCHANGED <<metricTable, metricExp, faults>>

MetricSends(i, t) ==
  \E table, rows :
    /\ metricPush[i].pc = "write" /\ t \in metricPush[i].left
    /\ \/ t = "send" /\ table = "ts" /\ rows = metricPush[i].series
       \/ t \in Tables \ {"ts"} /\ table = t /\ rows = PrepareBatch(metricPush[i].points)[t]
    /\ metricTable' = [metricTable EXCEPT ![table] = @ \cup rows]
    /\ MetricGoes(i, "write", metricPush[i].left \ {t}, metricPush[i].series,
                  metricPush[i].failed)
    /\ UNCHANGED <<tsCache, metricExp, faults>>

MetricFails(i, t) ==
  /\ metricPush[i].pc = "write" /\ t \in metricPush[i].left
  /\ MetricGoes(i, "write", metricPush[i].left \ {t}, metricPush[i].series,
                metricPush[i].failed \/ t # "metadata")
  /\ faults' = faults + 1 /\ UNCHANGED <<metricTable, tsCache, metricExp>>

MetricCloses ==
  /\ UNCHANGED <<metricPush, metricTable, tsCache, faults>>
  /\ \/ metricExp' = "closing"
     \/ /\ metricExp' = "closed"
        /\ \A i \in DOMAIN metricPush : metricPush[i].pc \in {"enter", "done"}

MetricReceives ==
  /\ UNCHANGED <<metricTable, tsCache, metricExp, faults>> /\ Sequence(metricPush')
  /\ \E points : AppendsTo(metricPush, metricPush', NewMetricPush(points))

MetricIdles == UNCHANGED metricVars /\ faults' \in {faults, faults + 1}

(* What the exporter does of its own, and all that it sees. *)
MetricActs ==
  \/ MetricCloses
  \/ \E i \in DOMAIN metricPush :
       \/ MetricMoves(i) \/ MetricAdmits(i) \/ MetricAppends(i)
       \/ \E t : MetricSends(i, t) \/ MetricFails(i, t)

MetricKinds == MetricActs \/ MetricReceives \/ MetricIdles

(* A push after some of its fields were set: its place; *)
LEMMA MetricPc ==
  ASSUME NEW x, MetricFields(x), NEW u
  PROVE  [x EXCEPT !.pc = u]
           = MetricRecord(u, x.points, x.left, x.series, x.failed, x.tries)
PROOF
<1> DEFINE x0 == MetricRecord(x.pc, x.points, x.left, x.series, x.failed, x.tries)
           x1 == MetricRecord(u, x.points, x.left, x.series, x.failed, x.tries)
<1>1. [x0 EXCEPT !.pc = u] = x1
    BY DEF MetricRecord
<1> HIDE DEF x0
<1>2. x = x0
    BY DEF x0, MetricFields
<1> QED BY <1>1, <1>2

(* another try; *)
LEMMA MetricEntered ==
  ASSUME NEW x, MetricFields(x), NEW u, NEW v
  PROVE  [x EXCEPT !.pc = u, !.tries = v]
           = MetricRecord(u, x.points, x.left, x.series, x.failed, v)
PROOF
<1> DEFINE x0 == MetricRecord(x.pc, x.points, x.left, x.series, x.failed, x.tries)
           x1 == MetricRecord(u, x.points, x.left, x.series, x.failed, x.tries)
           x2 == MetricRecord(u, x.points, x.left, x.series, x.failed, v)
<1>1. [x0 EXCEPT !.pc = u] = x1
    BY DEF MetricRecord
<1>2. [x1 EXCEPT !.tries = v] = x2
    BY DEF MetricRecord
<1> HIDE DEF x0, x1
<1>3. x = x0
    BY DEF x0, MetricFields
<1>4. [x EXCEPT !.pc = u, !.tries = v]
        = [[x EXCEPT !.pc = u] EXCEPT !.tries = v]
    OBVIOUS
<1> QED BY <1>1, <1>2, <1>3, <1>4

(* whether it failed; *)
LEMMA MetricFailed ==
  ASSUME NEW x, MetricFields(x), NEW u, NEW v
  PROVE  [x EXCEPT !.pc = u, !.failed = v]
           = MetricRecord(u, x.points, x.left, x.series, v, x.tries)
PROOF
<1> DEFINE x0 == MetricRecord(x.pc, x.points, x.left, x.series, x.failed, x.tries)
           x1 == MetricRecord(u, x.points, x.left, x.series, x.failed, x.tries)
           x2 == MetricRecord(u, x.points, x.left, x.series, v, x.tries)
<1>1. [x0 EXCEPT !.pc = u] = x1
    BY DEF MetricRecord
<1>2. [x1 EXCEPT !.failed = v] = x2
    BY DEF MetricRecord
<1> HIDE DEF x0, x1
<1>3. x = x0
    BY DEF x0, MetricFields
<1>4. [x EXCEPT !.pc = u, !.failed = v]
        = [[x EXCEPT !.pc = u] EXCEPT !.failed = v]
    OBVIOUS
<1> QED BY <1>1, <1>2, <1>3, <1>4

(* the writers it starts; *)
LEMMA MetricAdmitted ==
  ASSUME NEW x, MetricFields(x), NEW u, NEW v, NEW w
  PROVE  [x EXCEPT !.pc = u, !.failed = v, !.left = w]
           = MetricRecord(u, x.points, w, x.series, v, x.tries)
PROOF
<1> DEFINE x0 == MetricRecord(x.pc, x.points, x.left, x.series, x.failed, x.tries)
           x1 == MetricRecord(u, x.points, x.left, x.series, x.failed, x.tries)
           x2 == MetricRecord(u, x.points, x.left, x.series, v, x.tries)
           x3 == MetricRecord(u, x.points, w, x.series, v, x.tries)
<1>1. [x0 EXCEPT !.pc = u] = x1
    BY DEF MetricRecord
<1>2. [x1 EXCEPT !.failed = v] = x2
    BY DEF MetricRecord
<1>3. [x2 EXCEPT !.left = w] = x3
    BY DEF MetricRecord
<1> HIDE DEF x0, x1, x2
<1>4. x = x0
    BY DEF x0, MetricFields
<1>5. [x EXCEPT !.pc = u, !.failed = v, !.left = w]
        = [[[x EXCEPT !.pc = u] EXCEPT !.failed = v] EXCEPT !.left = w]
    OBVIOUS
<1> QED BY <1>1, <1>2, <1>3, <1>4, <1>5

(* one that has sent its statement; *)
LEMMA MetricSent ==
  ASSUME NEW x, MetricFields(x), NEW u
  PROVE  [x EXCEPT !.left = u]
           = MetricRecord(x.pc, x.points, u, x.series, x.failed, x.tries)
PROOF
<1> DEFINE x0 == MetricRecord(x.pc, x.points, x.left, x.series, x.failed, x.tries)
           x1 == MetricRecord(x.pc, x.points, u, x.series, x.failed, x.tries)
<1>1. [x0 EXCEPT !.left = u] = x1
    BY DEF MetricRecord
<1> HIDE DEF x0
<1>2. x = x0
    BY DEF x0, MetricFields
<1> QED BY <1>1, <1>2

(* one whose statement failed; *)
LEMMA MetricNotSent ==
  ASSUME NEW x, MetricFields(x), NEW u, NEW v
  PROVE  [x EXCEPT !.left = u, !.failed = v]
           = MetricRecord(x.pc, x.points, u, x.series, v, x.tries)
PROOF
<1> DEFINE x0 == MetricRecord(x.pc, x.points, x.left, x.series, x.failed, x.tries)
           x1 == MetricRecord(x.pc, x.points, u, x.series, x.failed, x.tries)
           x2 == MetricRecord(x.pc, x.points, u, x.series, v, x.tries)
<1>1. [x0 EXCEPT !.left = u] = x1
    BY DEF MetricRecord
<1>2. [x1 EXCEPT !.failed = v] = x2
    BY DEF MetricRecord
<1> HIDE DEF x0, x1
<1>3. x = x0
    BY DEF x0, MetricFields
<1>4. [x EXCEPT !.left = u, !.failed = v]
        = [[x EXCEPT !.left = u] EXCEPT !.failed = v]
    OBVIOUS
<1> QED BY <1>1, <1>2, <1>3, <1>4

(* and one that has appended its series. *)
LEMMA MetricAppended ==
  ASSUME NEW x, MetricFields(x), NEW u, NEW v
  PROVE  [x EXCEPT !.left = u, !.series = v]
           = MetricRecord(x.pc, x.points, u, v, x.failed, x.tries)
PROOF
<1> DEFINE x0 == MetricRecord(x.pc, x.points, x.left, x.series, x.failed, x.tries)
           x1 == MetricRecord(x.pc, x.points, u, x.series, x.failed, x.tries)
           x2 == MetricRecord(x.pc, x.points, u, v, x.failed, x.tries)
<1>1. [x0 EXCEPT !.left = u] = x1
    BY DEF MetricRecord
<1>2. [x1 EXCEPT !.series = v] = x2
    BY DEF MetricRecord
<1> HIDE DEF x0, x1
<1>3. x = x0
    BY DEF x0, MetricFields
<1>4. [x EXCEPT !.left = u, !.series = v]
        = [[x EXCEPT !.left = u] EXCEPT !.series = v]
    OBVIOUS
<1> QED BY <1>1, <1>2, <1>3, <1>4

(* The push becomes the record. *)
LEMMA MetricGoesIs ==
  ASSUME MetricShape, NEW i \in DOMAIN metricPush, NEW pc, NEW left, NEW series, NEW failed,
         NEW tries,
         SetMetricPush(i, MetricRecord(pc, metricPush[i].points, left, series, failed,
             tries))
  PROVE  MetricGoes(i, pc, left, series, failed)
PROOF
<1> DEFINE rec == MetricRecord(pc, metricPush[i].points, left, series, failed, tries)
<1>1. /\ MetricFields(rec) /\ rec.pc = pc /\ rec.points = metricPush[i].points
      /\ rec.left = left /\ rec.series = series /\ rec.failed = failed
    BY DEF MetricRecord, MetricFields
<1> HIDE DEF rec
<1>2. metricPush' = [metricPush EXCEPT ![i] = rec] /\ Sequence(metricPush)
    BY DEF SetMetricPush, rec, MetricShape
<1>3. Sequence(metricPush') /\ SetsAt(metricPush, metricPush', i, rec)
    BY <1>2, SetsAtIs
<1> QED BY <1>1, <1>3 DEF MetricGoes, SetsAt

(* A writer whose statement is sent, and one whose statement fails. *)
LEMMA SentIs ==
  ASSUME MetricShape, NEW i \in DOMAIN metricPush, NEW t, NEW table, NEW rows,
         Sent(i, t, table, rows)
  PROVE  /\ MetricGoes(i, metricPush[i].pc, metricPush[i].left \ {t}, metricPush[i].series,
                       metricPush[i].failed)
         /\ metricTable' = [metricTable EXCEPT ![table] = @ \cup rows]
         /\ UNCHANGED <<tsCache, metricExp, faults>>
PROOF
<1> DEFINE left == metricPush[i].left \ {t}
<1>1. SetMetricPush(i, [metricPush[i] EXCEPT !.left = left])
    BY DEF Sent
<1>2. MetricGoes(i, metricPush[i].pc, left, metricPush[i].series, metricPush[i].failed)
  <2> HIDE DEF left
  <2>1. [metricPush[i] EXCEPT !.left = left]
          = MetricRecord(metricPush[i].pc, metricPush[i].points, left, metricPush[i].series,
                         metricPush[i].failed, metricPush[i].tries)
      BY MetricSent DEF MetricShape
  <2> QED BY <1>1, <2>1, MetricGoesIs
<1> QED BY <1>2 DEF Sent

(* A statement that fails is noted, except that of the metadata. *)
LEMMA NotSentIs ==
  ASSUME MetricShape, NEW i \in DOMAIN metricPush, NEW t, NotSent(i, t),
         metricPush[i].pc = "write", t \in metricPush[i].left
  PROVE  MetricFails(i, t)
PROOF
<1> DEFINE left   == metricPush[i].left \ {t}
           failed == metricPush[i].failed \/ t # "metadata"
<1>1. SetMetricPush(i, [metricPush[i] EXCEPT !.left = left, !.failed = failed])
    BY DEF NotSent
<1>2. MetricGoes(i, metricPush[i].pc, left, metricPush[i].series, failed)
  <2> HIDE DEF left, failed
  <2>1. [metricPush[i] EXCEPT !.left = left, !.failed = failed]
          = MetricRecord(metricPush[i].pc, metricPush[i].points, left, metricPush[i].series,
                         failed, metricPush[i].tries)
      BY MetricNotSent DEF MetricShape
  <2> QED BY <1>1, <2>1, MetricGoesIs
<1> QED BY <1>2 DEF NotSent, StatementFails, MetricFails

(* Every step of the exporter is of one of the groups. *)
LEMMA MetricStepIs ==
  ASSUME MetricShape, MetricExporterStep
  PROVE  MetricActs
PROOF
<1>1. ASSUME NEW i \in DOMAIN metricPush, EnterMetricPush(i)
      PROVE  MetricActs
  <2>0. MetricFields(metricPush[i])
      BY DEF MetricShape
  <2>1. [metricPush[i] EXCEPT !.pc = "check", !.tries = metricPush[i].tries + 1]
          = MetricRecord("check", metricPush[i].points, metricPush[i].left,
              metricPush[i].series, metricPush[i].failed, metricPush[i].tries + 1)
      BY <2>0, MetricEntered
  <2>2. MetricGoes(i, "check", metricPush[i].left, metricPush[i].series,
          metricPush[i].failed)
      BY <1>1, <2>1, MetricGoesIs DEF EnterMetricPush
  <2> QED BY <1>1, <2>2 DEF EnterMetricPush, MetricMoves, MetricRest, MetricActs
<1>2. ASSUME NEW i \in DOMAIN metricPush, CheckMetricPush(i)
      PROVE  MetricActs
  <2>0. MetricFields(metricPush[i])
      BY DEF MetricShape
  <2>1. CASE metricExp # "open"
    <3>1. [metricPush[i] EXCEPT !.pc = "done", !.failed = TRUE]
            = MetricRecord("done", metricPush[i].points, metricPush[i].left,
                metricPush[i].series, TRUE, metricPush[i].tries)
        BY <2>0, MetricFailed
    <3>2. MetricGoes(i, "done", metricPush[i].left, metricPush[i].series, TRUE)
        BY <1>2, <2>1, <3>1, MetricGoesIs DEF CheckMetricPush
    <3> QED BY <1>2, <3>2 DEF CheckMetricPush, MetricMoves, MetricRest, MetricActs
  <2>2. CASE metricExp = "open"
    <3> DEFINE left == Writers(metricPush[i].points)
    <3>0. SetMetricPush(i, [metricPush[i] EXCEPT !.pc = "write", !.failed = FALSE,
            !.left = left])
        BY <1>2, <2>2 DEF CheckMetricPush
    <3>1. MetricGoes(i, "write", left, metricPush[i].series, FALSE)
      <4> HIDE DEF left
      <4>1. [metricPush[i] EXCEPT !.pc = "write", !.failed = FALSE, !.left = left]
              = MetricRecord("write", metricPush[i].points, left, metricPush[i].series,
                  FALSE, metricPush[i].tries)
          BY <2>0, MetricAdmitted
      <4> QED BY <3>0, <4>1, MetricGoesIs
    <3> QED BY <1>2, <2>2, <3>1 DEF CheckMetricPush, MetricAdmits, MetricRest, MetricActs
  <2> QED BY <2>1, <2>2
<1>3. ASSUME NEW i \in DOMAIN metricPush, AppendTimeSeries(i)
      PROVE  MetricActs
  <2>1. metricPush[i].pc = "write" /\ "ts" \in metricPush[i].left
      BY <1>3 DEF AppendTimeSeries
  <2>2. CASE NotSent(i, "ts")
      BY <2>1, <2>2, NotSentIs DEF MetricActs
  <2>3. CASE ~NotSent(i, "ts")
    <3> DEFINE new  == PrepareBatch(metricPush[i].points).ts \ tsCache
               left == (metricPush[i].left \ {"ts"}) \cup {"send"}
    <3>1. /\ tsCache' = tsCache \cup new /\ UNCHANGED <<metricTable, metricExp, faults>>
          /\ SetMetricPush(i, [metricPush[i] EXCEPT !.left = left, !.series = new])
        BY <1>3, <2>3 DEF AppendTimeSeries
    <3>2. MetricGoes(i, metricPush[i].pc, left, new, metricPush[i].failed)
      <4> HIDE DEF left, new
      <4>1. [metricPush[i] EXCEPT !.left = left, !.series = new]
              = MetricRecord(metricPush[i].pc, metricPush[i].points, left, new,
                  metricPush[i].failed, metricPush[i].tries)
          BY MetricAppended DEF MetricShape
      <4> QED BY <3>1, <4>1, MetricGoesIs
    <3> QED BY <2>1, <3>1, <3>2 DEF MetricAppends, MetricActs
  <2> QED BY <2>2, <2>3
<1>4. ASSUME NEW i \in DOMAIN metricPush, SendTimeSeries(i)
      PROVE  MetricActs
  <2>1. metricPush[i].pc = "write" /\ "send" \in metricPush[i].left
      BY <1>4 DEF SendTimeSeries
  <2>2. CASE NotSent(i, "send")
      BY <2>1, <2>2, NotSentIs DEF MetricActs
  <2>3. CASE Sent(i, "send", "ts", metricPush[i].series)
    <3>1. /\ MetricGoes(i, metricPush[i].pc, metricPush[i].left \ {"send"},
               metricPush[i].series, metricPush[i].failed)
          /\ metricTable' = [metricTable EXCEPT !["ts"] = @ \cup metricPush[i].series]
          /\ UNCHANGED <<tsCache, metricExp, faults>>
        BY <2>3, SentIs
    <3>2. MetricSends(i, "send")
        BY <2>1, <3>1 DEF MetricSends
    <3> QED BY <3>2 DEF MetricActs
  <2> QED BY <1>4, <2>2, <2>3 DEF SendTimeSeries
<1>5. ASSUME NEW i \in DOMAIN metricPush, JoinMetricErrors(i)
      PROVE  MetricActs
  <2>0. MetricFields(metricPush[i])
      BY DEF MetricShape
  <2>1. [metricPush[i] EXCEPT !.pc = "done"]
          = MetricRecord("done", metricPush[i].points, metricPush[i].left,
              metricPush[i].series, metricPush[i].failed, metricPush[i].tries)
      BY <2>0, MetricPc
  <2>2. MetricGoes(i, "done", metricPush[i].left, metricPush[i].series,
          metricPush[i].failed)
      BY <1>5, <2>1, MetricGoesIs DEF JoinMetricErrors
  <2> QED BY <1>5, <2>2 DEF JoinMetricErrors, MetricMoves, MetricRest, MetricActs
<1>6. ASSUME NEW i \in DOMAIN metricPush, RetryMetricPush(i)
      PROVE  MetricActs
  <2>0. MetricFields(metricPush[i])
      BY DEF MetricShape
  <2>1. [metricPush[i] EXCEPT !.pc = "enter", !.failed = FALSE]
          = MetricRecord("enter", metricPush[i].points, metricPush[i].left,
              metricPush[i].series, FALSE, metricPush[i].tries)
      BY <2>0, MetricFailed
  <2>2. MetricGoes(i, "enter", metricPush[i].left, metricPush[i].series, FALSE)
      BY <1>6, <2>1, MetricGoesIs DEF RetryMetricPush
  <2> QED BY <1>6, <2>2 DEF RetryMetricPush, MetricMoves, MetricRest, MetricActs,
      PushesAgain
<1>7. ASSUME NEW i \in DOMAIN metricPush, NEW t \in Tables \ {"ts"}, WriteTable(i, t)
      PROVE  MetricActs
  <2>1. metricPush[i].pc = "write" /\ t \in metricPush[i].left
      BY <1>7 DEF WriteTable
  <2>2. CASE NotSent(i, t)
      BY <2>1, <2>2, NotSentIs DEF MetricActs
  <2>3. CASE Sent(i, t, t, PrepareBatch(metricPush[i].points)[t])
    <3>1. /\ MetricGoes(i, metricPush[i].pc, metricPush[i].left \ {t},
               metricPush[i].series, metricPush[i].failed)
          /\ metricTable' = [metricTable EXCEPT ![t] = @ \cup PrepareBatch(metricPush[i].points)[t]]
          /\ UNCHANGED <<tsCache, metricExp, faults>>
        BY <2>3, SentIs
    <3>2. MetricSends(i, t)
        BY <2>1, <3>1 DEF MetricSends
    <3> QED BY <3>2 DEF MetricActs
  <2> QED BY <1>7, <2>2, <2>3 DEF WriteTable
<1>8. CASE ShutdownMetricExporter
    BY <1>8 DEF ShutdownMetricExporter, MetricCloses, MetricActs
<1>9. CASE CloseMetricConn
    BY <1>9 DEF CloseMetricConn, MetricCloses, MetricActs
<1> QED BY <1>1, <1>2, <1>3, <1>4, <1>5, <1>6, <1>7, <1>8, <1>9 DEF MetricExporterStep

(* The pushes keep their shape. *)
LEMMA MetricShapeStep ==
  ASSUME MetricShape, MetricKinds
  PROVE  MetricShape'
PROOF
<1>1. CASE MetricCloses
    BY <1>1 DEF MetricCloses, MetricShape
<1>2. CASE MetricReceives
  <2>1. PICK points : AppendsTo(metricPush, metricPush', NewMetricPush(points))
      BY <1>2 DEF MetricReceives
  <2>2. LET x == NewMetricPush(points) IN MetricFields(x) /\ x.failed = FALSE
          /\ x.pc = "enter"
      BY DEF NewMetricPush, MetricFields, MetricRecord
  <2>3. \A j \in DOMAIN metricPush' :
          /\ MetricFields(metricPush'[j]) /\ metricPush'[j].failed \in BOOLEAN
          /\ metricPush'[j].pc \in {"enter", "check", "write", "done"}
      BY <2>1, <2>2 DEF AppendsTo, MetricShape
  <2> QED BY <1>2, <2>3 DEF MetricReceives, MetricShape
<1>3. CASE MetricIdles
    BY <1>3 DEF MetricIdles, metricVars, MetricShape
<1>4. ASSUME NEW i \in DOMAIN metricPush, MetricMoves(i)
      PROVE  MetricShape'
    BY <1>4 DEF MetricMoves, MetricGoes, MetricRest, MetricShape
<1>5. ASSUME NEW i \in DOMAIN metricPush, MetricAdmits(i)
      PROVE  MetricShape'
    BY <1>5 DEF MetricAdmits, MetricGoes, MetricRest, MetricShape
<1>6. ASSUME NEW i \in DOMAIN metricPush, MetricAppends(i)
      PROVE  MetricShape'
    BY <1>6 DEF MetricAppends, MetricGoes, MetricRest, MetricShape
<1>7. ASSUME NEW i \in DOMAIN metricPush, NEW t, MetricSends(i, t)
      PROVE  MetricShape'
    BY <1>7 DEF MetricSends, MetricGoes, MetricShape
<1>8. ASSUME NEW i \in DOMAIN metricPush, NEW t, MetricFails(i, t)
      PROVE  MetricShape'
    BY <1>8 DEF MetricFails, MetricGoes, MetricRest, MetricShape
<1> QED BY <1>1, <1>2, <1>3, <1>4, <1>5, <1>6, <1>7, <1>8 DEF MetricKinds, MetricActs

(* Writers are at work in pushes that write only. *)
LEMMA MetricLeftStep ==
  ASSUME MetricShape, MetricLeft, MetricKinds
  PROVE  MetricLeft'
PROOF
<1>1. CASE MetricCloses
    BY <1>1 DEF MetricCloses, MetricLeft
<1>2. CASE MetricReceives
  <2>1. PICK points : AppendsTo(metricPush, metricPush', NewMetricPush(points))
      BY <1>2 DEF MetricReceives
  <2>2. LET x == NewMetricPush(points) IN x.pc = "enter" /\ x.left = {}
      BY DEF NewMetricPush
  <2> QED BY <1>2, <2>1, <2>2 DEF MetricReceives, AppendsTo, MetricLeft
<1>3. CASE MetricIdles
    BY <1>3 DEF MetricIdles, metricVars, MetricLeft
<1>4. ASSUME NEW i \in DOMAIN metricPush, MetricMoves(i)
      PROVE  MetricLeft'
    BY <1>4 DEF MetricMoves, MetricGoes, MetricRest, MetricLeft
<1>5. ASSUME NEW i \in DOMAIN metricPush, MetricAdmits(i)
      PROVE  MetricLeft'
  <2>1. "send" \notin Writers(metricPush[i].points)
      BY DEF Writers, Tables
  <2> QED BY <1>5, <2>1 DEF MetricAdmits, MetricGoes, MetricLeft
<1>6. ASSUME NEW i \in DOMAIN metricPush, MetricAppends(i)
      PROVE  MetricLeft'
    BY <1>6 DEF MetricAppends, MetricGoes, MetricRest, MetricLeft
<1>7. ASSUME NEW i \in DOMAIN metricPush, NEW t, MetricSends(i, t)
      PROVE  MetricLeft'
    BY <1>7 DEF MetricSends, MetricGoes, MetricRest, MetricLeft
<1>8. ASSUME NEW i \in DOMAIN metricPush, NEW t, MetricFails(i, t)
      PROVE  MetricLeft'
    BY <1>8 DEF MetricFails, MetricGoes, MetricRest, MetricLeft
<1> QED BY <1>1, <1>2, <1>3, <1>4, <1>5, <1>6, <1>7, <1>8 DEF MetricKinds, MetricActs

(* Nobody writes when the connection is closed. *)
LEMMA MetricClosedStep ==
  ASSUME MetricShape, MetricClosed, MetricKinds
  PROVE  MetricClosed'
PROOF
<1>1. CASE MetricCloses
    BY <1>1 DEF MetricCloses, MetricClosed
<1>2. CASE MetricReceives
  <2>1. PICK points : AppendsTo(metricPush, metricPush', NewMetricPush(points))
      BY <1>2 DEF MetricReceives
  <2>2. LET x == NewMetricPush(points) IN x.pc = "enter" /\ x.left = {}
      BY DEF NewMetricPush
  <2> QED BY <1>2, <2>1, <2>2 DEF MetricReceives, AppendsTo, MetricClosed
<1>3. CASE MetricIdles
    BY <1>3 DEF MetricIdles, metricVars, MetricClosed
<1>4. ASSUME NEW i \in DOMAIN metricPush, MetricMoves(i)
      PROVE  MetricClosed'
    BY <1>4 DEF MetricMoves, MetricGoes, MetricRest, MetricClosed
<1>5. ASSUME NEW i \in DOMAIN metricPush, MetricAdmits(i)
      PROVE  MetricClosed'
    BY <1>5 DEF MetricAdmits, MetricGoes, MetricRest, MetricClosed
<1>6. ASSUME NEW i \in DOMAIN metricPush, MetricAppends(i)
      PROVE  MetricClosed'
    BY <1>6 DEF MetricAppends, MetricGoes, MetricRest, MetricClosed
<1>7. ASSUME NEW i \in DOMAIN metricPush, NEW t, MetricSends(i, t)
      PROVE  MetricClosed'
    BY <1>7 DEF MetricSends, MetricGoes, MetricRest, MetricClosed
<1>8. ASSUME NEW i \in DOMAIN metricPush, NEW t, MetricFails(i, t)
      PROVE  MetricClosed'
    BY <1>8 DEF MetricFails, MetricGoes, MetricRest, MetricClosed
<1> QED BY <1>1, <1>2, <1>3, <1>4, <1>5, <1>6, <1>7, <1>8 DEF MetricKinds, MetricActs

(* Tables and cache only grow, so a push that does not step keeps its rows. *)
LEMMA MetricOthers ==
  ASSUME MetricShape, MetricWritten, NEW j \in DOMAIN metricPush,
         metricPush'[j] = metricPush[j], tsCache \subseteq tsCache',
         \A t \in Tables : metricTable[t] \subseteq metricTable'[t]
  PROVE  MetricRowsOf(j)'
PROOF
  BY DEF MetricWritten, MetricRowsOf, Tables

(* The tables and the cache of the metrics exporter only grow. *)
LEMMA MetricGrows ==
  ASSUME MetricShape, MetricKinds
  PROVE  tsCache \subseteq tsCache'
           /\ \A t \in Tables : metricTable[t] \subseteq metricTable'[t]
PROOF
<1>1. ASSUME NEW i \in DOMAIN metricPush, NEW t, MetricSends(i, t)
      PROVE  tsCache \subseteq tsCache'
               /\ \A s \in Tables : metricTable[s] \subseteq metricTable'[s]
    BY <1>1 DEF MetricSends, MetricShape
<1> QED BY <1>1 DEF MetricKinds, MetricActs, MetricCloses, MetricReceives, MetricIdles, MetricMoves,
        MetricAdmits, MetricAppends, MetricFails, MetricRest, metricVars

(* What a push has written stays written. *)
LEMMA MetricWrittenStep ==
  ASSUME MetricShape, MetricLeft, MetricWritten, MetricKinds
  PROVE  MetricWritten'
PROOF
<1>a. tsCache \subseteq tsCache'
        /\ \A t \in Tables : metricTable[t] \subseteq metricTable'[t]
    BY MetricGrows
<1>1. CASE MetricCloses
  <2>1. \A j \in DOMAIN metricPush : MetricRowsOf(j)'
      BY <1>1, <1>a, MetricOthers DEF MetricCloses
  <2> QED BY <1>1, <2>1 DEF MetricCloses, MetricWritten
<1>2. CASE MetricReceives
  <2>1. PICK points, n : /\ DOMAIN metricPush' = DOMAIN metricPush \cup {n}
                         /\ metricPush'[n] = NewMetricPush(points)
                         /\ \A j \in DOMAIN metricPush : metricPush'[j] = metricPush[j]
      BY <1>2 DEF MetricReceives, AppendsTo
  <2>2. metricPush'[n].pc = "enter"
      BY <2>1 DEF NewMetricPush
  <2>3. MetricRowsOf(n)'
      BY <2>2 DEF MetricRowsOf
  <2>4. \A j \in DOMAIN metricPush : MetricRowsOf(j)'
      BY <2>1, <1>a, MetricOthers
  <2> QED BY <2>1, <2>3, <2>4 DEF MetricWritten
<1>3. CASE MetricIdles
  <2>1. \A j \in DOMAIN metricPush : MetricRowsOf(j)'
      BY <1>3, <1>a, MetricOthers DEF MetricIdles, metricVars
  <2> QED BY <1>3, <2>1 DEF MetricIdles, metricVars, MetricWritten
<1>4. ASSUME NEW i \in DOMAIN metricPush, MetricMoves(i)
      PROVE  MetricWritten'
  <2>1. ASSUME NEW j \in DOMAIN metricPush, j # i PROVE MetricRowsOf(j)'
    <3>1. metricPush'[j] = metricPush[j]
        BY <1>4, <2>1 DEF MetricMoves, MetricGoes
    <3> QED BY <3>1, <1>a, MetricOthers
  <2>2. MetricRowsOf(i)'
      BY <1>4 DEF MetricMoves, MetricGoes, MetricRest, MetricWritten, MetricRowsOf,
          MetricLeft
  <2>3. DOMAIN metricPush' = DOMAIN metricPush
      BY <1>4 DEF MetricMoves, MetricGoes
  <2> QED BY <2>1, <2>2, <2>3 DEF MetricWritten
<1>5. ASSUME NEW i \in DOMAIN metricPush, MetricAdmits(i)
      PROVE  MetricWritten'
  <2>1. ASSUME NEW j \in DOMAIN metricPush, j # i PROVE MetricRowsOf(j)'
    <3>1. metricPush'[j] = metricPush[j]
        BY <1>5, <2>1 DEF MetricAdmits, MetricGoes
    <3> QED BY <3>1, <1>a, MetricOthers
  <2>a. \A t \in {"samples", "exphist", "ts"} :
          t \in Writers(metricPush[i].points) \/ PrepareBatch(metricPush[i].points)[t] = {}
      BY DEF Writers, Tables
  <2>2. MetricRowsOf(i)'
      BY <1>5, <2>a DEF MetricAdmits, MetricGoes, MetricRest, MetricWritten, MetricRowsOf,
          MetricLeft
  <2>3. DOMAIN metricPush' = DOMAIN metricPush
      BY <1>5 DEF MetricAdmits, MetricGoes
  <2> QED BY <2>1, <2>2, <2>3 DEF MetricWritten
<1>6. ASSUME NEW i \in DOMAIN metricPush, MetricAppends(i)
      PROVE  MetricWritten'
  <2>1. ASSUME NEW j \in DOMAIN metricPush, j # i PROVE MetricRowsOf(j)'
    <3>1. metricPush'[j] = metricPush[j]
        BY <1>6, <2>1 DEF MetricAppends, MetricGoes
    <3> QED BY <3>1, <1>a, MetricOthers
  <2>2. MetricRowsOf(i)'
      BY <1>6 DEF MetricAppends, MetricGoes, MetricRest, MetricWritten, MetricRowsOf,
          MetricLeft
  <2>3. DOMAIN metricPush' = DOMAIN metricPush
      BY <1>6 DEF MetricAppends, MetricGoes
  <2> QED BY <2>1, <2>2, <2>3 DEF MetricWritten
<1>7. ASSUME NEW i \in DOMAIN metricPush, NEW t, MetricSends(i, t)
      PROVE  MetricWritten'
  <2>1. ASSUME NEW j \in DOMAIN metricPush, j # i PROVE MetricRowsOf(j)'
    <3>1. metricPush'[j] = metricPush[j]
        BY <1>7, <2>1 DEF MetricSends, MetricGoes
    <3> QED BY <3>1, <1>a, MetricOthers
  <2>2. MetricRowsOf(i)'
      BY <1>7 DEF MetricSends, MetricGoes, MetricRest, MetricWritten, MetricRowsOf,
          MetricLeft, MetricShape, Tables
  <2>3. DOMAIN metricPush' = DOMAIN metricPush
      BY <1>7 DEF MetricSends, MetricGoes
  <2> QED BY <2>1, <2>2, <2>3 DEF MetricWritten
<1>8. ASSUME NEW i \in DOMAIN metricPush, NEW t, MetricFails(i, t)
      PROVE  MetricWritten'
  <2>1. ASSUME NEW j \in DOMAIN metricPush, j # i PROVE MetricRowsOf(j)'
    <3>1. metricPush'[j] = metricPush[j]
        BY <1>8, <2>1 DEF MetricFails, MetricGoes
    <3> QED BY <3>1, <1>a, MetricOthers
  <2>2. MetricRowsOf(i)'
      BY <1>8 DEF MetricFails, MetricGoes, MetricRest, MetricWritten, MetricRowsOf,
          MetricLeft
  <2>3. DOMAIN metricPush' = DOMAIN metricPush
      BY <1>8 DEF MetricFails, MetricGoes
  <2> QED BY <2>1, <2>2, <2>3 DEF MetricWritten
<1> QED BY <1>1, <1>2, <1>3, <1>4, <1>5, <1>6, <1>7, <1>8 DEF MetricKinds, MetricActs

(* A series is under way when the push that has it has not sent it. *)
LEMMA UnderWayIs ==
  ASSUME NEW x
  PROVE  x \in SeriesUnderWay <=> \E j \in DOMAIN metricPush :
                                    "send" \in metricPush[j].left
                                        /\ x \in metricPush[j].series
PROOF
  BY DEF SeriesUnderWay

(* What is in the cache is stored or under way, unless a statement failed. *)
LEMMA MetricCachedStep ==
  ASSUME MetricShape, MetricLeft, faults \in Nat, MetricCached, MetricKinds
  PROVE  MetricCached'
PROOF
<1>1. CASE MetricCloses
    BY <1>1 DEF MetricCloses, MetricCached, SeriesUnderWay
<1>2. CASE MetricReceives
  <2>1. SeriesUnderWay \subseteq SeriesUnderWay'
      BY <1>2 DEF MetricReceives, AppendsTo, SeriesUnderWay
  <2> QED BY <1>2, <2>1 DEF MetricReceives, MetricCached
<1>3. CASE MetricIdles
    BY <1>3 DEF MetricIdles, metricVars, MetricCached, SeriesUnderWay
<1>4. ASSUME NEW i \in DOMAIN metricPush, MetricMoves(i)
      PROVE  MetricCached'
  <2>1. SeriesUnderWay \subseteq SeriesUnderWay'
      BY <1>4 DEF MetricMoves, MetricGoes, MetricRest, MetricLeft, SeriesUnderWay
  <2> QED BY <1>4, <2>1 DEF MetricMoves, MetricRest, MetricCached
<1>5. ASSUME NEW i \in DOMAIN metricPush, MetricAdmits(i)
      PROVE  MetricCached'
  <2>1. SeriesUnderWay \subseteq SeriesUnderWay'
      BY <1>5 DEF MetricAdmits, MetricGoes, MetricRest, MetricLeft, SeriesUnderWay
  <2> QED BY <1>5, <2>1 DEF MetricAdmits, MetricRest, MetricCached
<1>6. ASSUME NEW i \in DOMAIN metricPush, MetricAppends(i)
      PROVE  MetricCached'
  <2>1. SeriesUnderWay \subseteq SeriesUnderWay'
          /\ metricPush'[i].series \subseteq SeriesUnderWay'
      BY <1>6 DEF MetricAppends, MetricGoes, MetricLeft, SeriesUnderWay
  <2> QED BY <1>6, <2>1 DEF MetricAppends, MetricGoes, MetricCached
<1>7. ASSUME NEW i \in DOMAIN metricPush, NEW t, MetricSends(i, t)
      PROVE  MetricCached'
  <2>1. CASE t = "send"
    <3>1. SeriesUnderWay \subseteq SeriesUnderWay' \cup metricPush[i].series
        BY <1>7, <2>1 DEF MetricSends, MetricGoes, SeriesUnderWay
    <3>2. metricTable'["ts"] = metricTable["ts"] \cup metricPush[i].series
        BY <1>7, <2>1 DEF MetricSends, MetricShape, Tables
    <3> QED BY <1>7, <3>1, <3>2 DEF MetricSends, MetricCached
  <2>2. CASE t # "send"
    <3>1. SeriesUnderWay \subseteq SeriesUnderWay'
        BY <1>7, <2>2 DEF MetricSends, MetricGoes, SeriesUnderWay
    <3>2. metricTable["ts"] \subseteq metricTable'["ts"]
        BY MetricGrows DEF Tables
    <3> QED BY <1>7, <3>1, <3>2 DEF MetricSends, MetricCached
  <2> QED BY <2>1, <2>2
<1>8. ASSUME NEW i \in DOMAIN metricPush, NEW t, MetricFails(i, t)
      PROVE  MetricCached'
    BY <1>8 DEF MetricFails, MetricCached
<1> QED BY <1>1, <1>2, <1>3, <1>4, <1>5, <1>6, <1>7, <1>8 DEF MetricKinds, MetricActs

(* The steps of the exporter keep its invariant. *)
LEMMA MetricInvStep ==
  ASSUME MetricInv, faults \in Nat, MetricKinds
  PROVE  MetricInv'
PROOF
  BY MetricShapeStep, MetricLeftStep, MetricClosedStep, MetricWrittenStep, MetricCachedStep
    DEF MetricInv

-----------------------------------------------------------------------------
(* The traces exporter. *)

TraceRecord(pc, span, left, rows, failed, tries) ==
  [pc |-> pc, span |-> span, left |-> left, rows |-> rows, failed |-> failed,
      tries |-> tries]

TraceFields(x) == x = TraceRecord(x.pc, x.span, x.left, x.rows, x.failed, x.tries)

TraceShape ==
  /\ Sequence(tracePush)
  /\ \A i \in DOMAIN tracePush :
       /\ TraceFields(tracePush[i]) /\ tracePush[i].failed \in BOOLEAN
       /\ tracePush[i].pc \in {"enter", "check", "write", "resources", "done"}
  /\ traceTable = [t \in TraceTables |-> traceTable[t]]

(* Writers are at work in a push that writes; its rows are in the statement *)
(* of the attribute keys, from when they are appended until they are sent, *)
(* or of the resources.                                                    *)
Tagging == {"values", "keys"}

TraceLeft ==
  \A i \in DOMAIN tracePush :
    /\ tracePush[i].pc # "write" => tracePush[i].left = {}
    /\ tracePush[i].pc # "resources" /\ tracePush[i].left \cap Tagging = {} =>
         tracePush[i].rows = {}
    /\ "tag" \in tracePush[i].left => tracePush[i].left \cap Tagging = {}

TraceClosed ==
  traceExp = "closed" => \A i \in DOMAIN tracePush : tracePush[i].pc \notin {"write",
      "resources"}

(* What a push that has not failed has to write is still to be written or  *)
(* in its table; tags too while no statement has failed; its attribute key *)
(* and its resource are in the caches before they are sent.                *)
TraceRowsOf(i) ==
  LET rows == NewStructuredSpan(tracePush[i].span)
  IN  /\ tracePush[i].pc \in {"write", "resources", "done"} /\ ~tracePush[i].failed =>
           /\ \A t \in {"index", "error"} :
                t \in tracePush[i].left \/ rows[t] \subseteq traceTable[t]
           /\ faults = 0 =>
                /\ \/ tracePush[i].left \cap {"tag", "values"} # {}
                   \/ rows["tag"] \subseteq traceTable["tag"]
                /\ "tag" \in tracePush[i].left \/ rows["tagkey"] \subseteq keysCache
      /\ tracePush[i].pc \in {"resources", "done"} /\ ~tracePush[i].failed =>
           rows["resource"] \subseteq rfCache

TraceWritten == \A i \in DOMAIN tracePush : TraceRowsOf(i)

(* The caches hold what is stored or about to be sent. *)
TraceCached ==
  faults = 0 => /\ keysCache \subseteq traceTable["tagkey"] \cup KeysUnderWay
                /\ rfCache \subseteq traceTable["resource"] \cup ResourcesUnderWay

TraceInv == TraceShape /\ TraceLeft /\ TraceClosed /\ TraceWritten /\ TraceCached

(* A step of push i, and the groups of steps. *)
TraceGoes(i, pc, left, rows, failed) ==
  /\ Sequence(tracePush') /\ DOMAIN tracePush' = DOMAIN tracePush
  /\ \A j \in DOMAIN tracePush : j # i => tracePush'[j] = tracePush[j]
  /\ TraceFields(tracePush'[i]) /\ tracePush'[i].span = tracePush[i].span
  /\ tracePush'[i].pc = pc /\ tracePush'[i].left = left
  /\ tracePush'[i].rows = rows /\ tracePush'[i].failed = failed

TraceRest == UNCHANGED <<traceTable, rfCache, keysCache, traceExp, faults>>

TraceMoves(i) ==
  /\ TraceRest
  /\ \/ /\ tracePush[i].pc = "enter"
        /\ TraceGoes(i, "check", tracePush[i].left, tracePush[i].rows, tracePush[i].failed)
     \/ /\ tracePush[i].pc = "check"
        /\ TraceGoes(i, "done", tracePush[i].left, tracePush[i].rows, TRUE)
     \/ /\ tracePush[i].pc = "check" /\ traceExp = "open"
        /\ TraceGoes(i, "write", SpanTables, tracePush[i].rows, tracePush[i].failed)
     \/ /\ tracePush[i].pc = "done" /\ tracePush[i].failed
        /\ TraceGoes(i, "enter", tracePush[i].left, tracePush[i].rows, FALSE)
     \/ /\ tracePush[i].pc = "write" /\ tracePush[i].left = {} /\ tracePush[i].failed
        /\ TraceGoes(i, "done", tracePush[i].left, {}, TRUE)

TraceWrites(i, t) ==
  /\ tracePush[i].pc = "write" /\ t \in tracePush[i].left \ {"tag"} /\ t \in SpanTables
  /\ traceTable' = [traceTable EXCEPT ![t] = @ \cup NewStructuredSpan(tracePush[i].span)[t]]
  /\ TraceGoes(i, "write", tracePush[i].left \ {t}, tracePush[i].rows, tracePush[i].failed)
  /\ UNCHANGED <<rfCache, keysCache, traceExp, faults>>

TraceFails(i, t) ==
  /\ tracePush[i].pc = "write" /\ t \in SpanTables
  /\ TraceGoes(i, "write", tracePush[i].left \ {t}, tracePush[i].rows, TRUE)
  /\ faults' = faults + 1 /\ UNCHANGED <<traceTable, rfCache, keysCache, traceExp>>

TraceTags(i) ==
  \E new :
    /\ tracePush[i].pc = "write" /\ "tag" \in tracePush[i].left
    /\ new = NewStructuredSpan(tracePush[i].span)["tagkey"] \ keysCache
    /\ keysCache' = keysCache \cup new
    /\ TraceGoes(i, "write", (tracePush[i].left \ {"tag"}) \cup {"values"}, new,
         tracePush[i].failed)
    /\ UNCHANGED <<traceTable, rfCache, traceExp, faults>>

TraceValues(i) ==
  /\ tracePush[i].pc = "write" /\ "values" \in tracePush[i].left
  /\ traceTable' = [traceTable EXCEPT !["tag"] = @ \cup NewStructuredSpan(tracePush[i].span).tag]
  /\ TraceGoes(i, "write", (tracePush[i].left \ {"values"}) \cup {"keys"}, tracePush[i].rows,
       tracePush[i].failed)
  /\ UNCHANGED <<rfCache, keysCache, traceExp, faults>>

TraceKeys(i) ==
  /\ tracePush[i].pc = "write" /\ "keys" \in tracePush[i].left
  /\ traceTable' = [traceTable EXCEPT !["tagkey"] = @ \cup tracePush[i].rows]
  /\ TraceGoes(i, "write", tracePush[i].left \ {"keys"}, {}, tracePush[i].failed)
  /\ UNCHANGED <<rfCache, keysCache, traceExp, faults>>

TraceTagsFail(i) ==
  /\ tracePush[i].pc = "write"
  /\ \/ TraceGoes(i, "write", tracePush[i].left \ {"tag"}, tracePush[i].rows, tracePush[i].failed)
     \/ TraceGoes(i, "write", tracePush[i].left \ Tagging, {}, tracePush[i].failed)
  /\ faults' = faults + 1 /\ UNCHANGED <<traceTable, rfCache, keysCache, traceExp>>

TraceAppends(i) ==
  \E new :
    /\ tracePush[i].pc = "write" /\ tracePush[i].left = {} /\ ~tracePush[i].failed
    /\ new = NewStructuredSpan(tracePush[i].span)["resource"] \ rfCache
    /\ rfCache' = rfCache \cup new
    /\ TraceGoes(i, "resources", tracePush[i].left, new, FALSE)
    /\ UNCHANGED <<traceTable, keysCache, traceExp, faults>>

TraceSends(i) ==
  /\ tracePush[i].pc = "resources" /\ UNCHANGED <<rfCache, keysCache, traceExp>>
  /\ \/ /\ traceTable' = [traceTable EXCEPT !["resource"] = @ \cup tracePush[i].rows]
        /\ TraceGoes(i, "done", tracePush[i].left, {}, tracePush[i].failed)
        /\ UNCHANGED faults
     \/ /\ TraceGoes(i, "done", tracePush[i].left, {}, TRUE)
        /\ faults' = faults + 1 /\ UNCHANGED traceTable

TraceCloses ==
  /\ UNCHANGED <<tracePush, traceTable, rfCache, keysCache, faults>>
  /\ \/ traceExp' = "closing"
     \/ /\ traceExp' = "closed"
        /\ \A i \in DOMAIN tracePush : tracePush[i].pc \in {"enter", "done"}

TraceReceives ==
  /\ UNCHANGED <<traceTable, rfCache, keysCache, traceExp, faults>> /\ Sequence(tracePush')
  /\ \E span : AppendsTo(tracePush, tracePush', NewTracePush(span))

TraceIdles == UNCHANGED traceVars /\ faults' \in {faults, faults + 1}

TraceKinds ==
  \/ TraceCloses \/ TraceReceives \/ TraceIdles
  \/ \E i \in DOMAIN tracePush :
       \/ TraceMoves(i) \/ TraceTags(i) \/ TraceValues(i) \/ TraceKeys(i) \/ TraceTagsFail(i)
       \/ TraceAppends(i) \/ TraceSends(i)
       \/ \E t : TraceWrites(i, t) \/ TraceFails(i, t)

(* A push after some of its fields were set: another try; *)
LEMMA TraceEntered ==
  ASSUME NEW x, TraceFields(x), NEW u, NEW v
  PROVE  [x EXCEPT !.pc = u, !.tries = v]
           = TraceRecord(u, x.span, x.left, x.rows, x.failed, v)
PROOF
<1> DEFINE x0 == TraceRecord(x.pc, x.span, x.left, x.rows, x.failed, x.tries)
           x1 == TraceRecord(u, x.span, x.left, x.rows, x.failed, x.tries)
           x2 == TraceRecord(u, x.span, x.left, x.rows, x.failed, v)
<1>1. [x0 EXCEPT !.pc = u] = x1
    BY DEF TraceRecord
<1>2. [x1 EXCEPT !.tries = v] = x2
    BY DEF TraceRecord
<1> HIDE DEF x0, x1
<1>3. x = x0
    BY DEF x0, TraceFields
<1>4. [x EXCEPT !.pc = u, !.tries = v]
        = [[x EXCEPT !.pc = u] EXCEPT !.tries = v]
    OBVIOUS
<1> QED BY <1>1, <1>2, <1>3, <1>4

(* whether it failed; *)
LEMMA TraceFailed ==
  ASSUME NEW x, TraceFields(x), NEW u, NEW v
  PROVE  [x EXCEPT !.pc = u, !.failed = v]
           = TraceRecord(u, x.span, x.left, x.rows, v, x.tries)
PROOF
<1> DEFINE x0 == TraceRecord(x.pc, x.span, x.left, x.rows, x.failed, x.tries)
           x1 == TraceRecord(u, x.span, x.left, x.rows, x.failed, x.tries)
           x2 == TraceRecord(u, x.span, x.left, x.rows, v, x.tries)
<1>1. [x0 EXCEPT !.pc = u] = x1
    BY DEF TraceRecord
<1>2. [x1 EXCEPT !.failed = v] = x2
    BY DEF TraceRecord
<1> HIDE DEF x0, x1
<1>3. x = x0
    BY DEF x0, TraceFields
<1>4. [x EXCEPT !.pc = u, !.failed = v]
        = [[x EXCEPT !.pc = u] EXCEPT !.failed = v]
    OBVIOUS
<1> QED BY <1>1, <1>2, <1>3, <1>4

(* the writers it starts; *)
LEMMA TraceAdmitted ==
  ASSUME NEW x, TraceFields(x), NEW u, NEW v
  PROVE  [x EXCEPT !.pc = u, !.left = v]
           = TraceRecord(u, x.span, v, x.rows, x.failed, x.tries)
PROOF
<1> DEFINE x0 == TraceRecord(x.pc, x.span, x.left, x.rows, x.failed, x.tries)
           x1 == TraceRecord(u, x.span, x.left, x.rows, x.failed, x.tries)
           x2 == TraceRecord(u, x.span, v, x.rows, x.failed, x.tries)
<1>1. [x0 EXCEPT !.pc = u] = x1
    BY DEF TraceRecord
<1>2. [x1 EXCEPT !.left = v] = x2
    BY DEF TraceRecord
<1> HIDE DEF x0, x1
<1>3. x = x0
    BY DEF x0, TraceFields
<1>4. [x EXCEPT !.pc = u, !.left = v]
        = [[x EXCEPT !.pc = u] EXCEPT !.left = v]
    OBVIOUS
<1> QED BY <1>1, <1>2, <1>3, <1>4

(* one that has sent its statement; *)
LEMMA TraceSent ==
  ASSUME NEW x, TraceFields(x), NEW u
  PROVE  [x EXCEPT !.left = u]
           = TraceRecord(x.pc, x.span, u, x.rows, x.failed, x.tries)
PROOF
<1> DEFINE x0 == TraceRecord(x.pc, x.span, x.left, x.rows, x.failed, x.tries)
           x1 == TraceRecord(x.pc, x.span, u, x.rows, x.failed, x.tries)
<1>1. [x0 EXCEPT !.left = u] = x1
    BY DEF TraceRecord
<1> HIDE DEF x0
<1>2. x = x0
    BY DEF x0, TraceFields
<1> QED BY <1>1, <1>2

(* and what is in the next; *)
LEMMA TraceTagged ==
  ASSUME NEW x, TraceFields(x), NEW u, NEW v
  PROVE  [x EXCEPT !.left = u, !.rows = v]
           = TraceRecord(x.pc, x.span, u, v, x.failed, x.tries)
PROOF
<1> DEFINE x0 == TraceRecord(x.pc, x.span, x.left, x.rows, x.failed, x.tries)
           x1 == TraceRecord(x.pc, x.span, u, x.rows, x.failed, x.tries)
           x2 == TraceRecord(x.pc, x.span, u, v, x.failed, x.tries)
<1>1. [x0 EXCEPT !.left = u] = x1
    BY DEF TraceRecord
<1>2. [x1 EXCEPT !.rows = v] = x2
    BY DEF TraceRecord
<1> HIDE DEF x0, x1
<1>3. x = x0
    BY DEF x0, TraceFields
<1>4. [x EXCEPT !.left = u, !.rows = v]
        = [[x EXCEPT !.left = u] EXCEPT !.rows = v]
    OBVIOUS
<1> QED BY <1>1, <1>2, <1>3, <1>4

(* one whose statement failed; *)
LEMMA TraceNotSent ==
  ASSUME NEW x, TraceFields(x), NEW u, NEW v
  PROVE  [x EXCEPT !.left = u, !.failed = v]
           = TraceRecord(x.pc, x.span, u, x.rows, v, x.tries)
PROOF
<1> DEFINE x0 == TraceRecord(x.pc, x.span, x.left, x.rows, x.failed, x.tries)
           x1 == TraceRecord(x.pc, x.span, u, x.rows, x.failed, x.tries)
           x2 == TraceRecord(x.pc, x.span, u, x.rows, v, x.tries)
<1>1. [x0 EXCEPT !.left = u] = x1
    BY DEF TraceRecord
<1>2. [x1 EXCEPT !.failed = v] = x2
    BY DEF TraceRecord
<1> HIDE DEF x0, x1
<1>3. x = x0
    BY DEF x0, TraceFields
<1>4. [x EXCEPT !.left = u, !.failed = v]
        = [[x EXCEPT !.left = u] EXCEPT !.failed = v]
    OBVIOUS
<1> QED BY <1>1, <1>2, <1>3, <1>4

(* the resources it has appended; *)
LEMMA TraceAppended ==
  ASSUME NEW x, TraceFields(x), NEW u, NEW v, NEW w
  PROVE  [x EXCEPT !.pc = u, !.failed = v, !.rows = w]
           = TraceRecord(u, x.span, x.left, w, v, x.tries)
PROOF
<1> DEFINE x0 == TraceRecord(x.pc, x.span, x.left, x.rows, x.failed, x.tries)
           x1 == TraceRecord(u, x.span, x.left, x.rows, x.failed, x.tries)
           x2 == TraceRecord(u, x.span, x.left, x.rows, v, x.tries)
           x3 == TraceRecord(u, x.span, x.left, w, v, x.tries)
<1>1. [x0 EXCEPT !.pc = u] = x1
    BY DEF TraceRecord
<1>2. [x1 EXCEPT !.failed = v] = x2
    BY DEF TraceRecord
<1>3. [x2 EXCEPT !.rows = w] = x3
    BY DEF TraceRecord
<1> HIDE DEF x0, x1, x2
<1>4. x = x0
    BY DEF x0, TraceFields
<1>5. [x EXCEPT !.pc = u, !.failed = v, !.rows = w]
        = [[[x EXCEPT !.pc = u] EXCEPT !.failed = v] EXCEPT !.rows = w]
    OBVIOUS
<1> QED BY <1>1, <1>2, <1>3, <1>4, <1>5

(* and sent, *)
LEMMA TraceRowsSent ==
  ASSUME NEW x, TraceFields(x), NEW u, NEW v
  PROVE  [x EXCEPT !.pc = u, !.rows = v]
           = TraceRecord(u, x.span, x.left, v, x.failed, x.tries)
PROOF
<1> DEFINE x0 == TraceRecord(x.pc, x.span, x.left, x.rows, x.failed, x.tries)
           x1 == TraceRecord(u, x.span, x.left, x.rows, x.failed, x.tries)
           x2 == TraceRecord(u, x.span, x.left, v, x.failed, x.tries)
<1>1. [x0 EXCEPT !.pc = u] = x1
    BY DEF TraceRecord
<1>2. [x1 EXCEPT !.rows = v] = x2
    BY DEF TraceRecord
<1> HIDE DEF x0, x1
<1>3. x = x0
    BY DEF x0, TraceFields
<1>4. [x EXCEPT !.pc = u, !.rows = v]
        = [[x EXCEPT !.pc = u] EXCEPT !.rows = v]
    OBVIOUS
<1> QED BY <1>1, <1>2, <1>3, <1>4

(* or not. *)
LEMMA TraceRowsFailed ==
  ASSUME NEW x, TraceFields(x), NEW u, NEW v, NEW w
  PROVE  [x EXCEPT !.pc = u, !.rows = v, !.failed = w]
           = TraceRecord(u, x.span, x.left, v, w, x.tries)
PROOF
<1> DEFINE x0 == TraceRecord(x.pc, x.span, x.left, x.rows, x.failed, x.tries)
           x1 == TraceRecord(u, x.span, x.left, x.rows, x.failed, x.tries)
           x2 == TraceRecord(u, x.span, x.left, v, x.failed, x.tries)
           x3 == TraceRecord(u, x.span, x.left, v, w, x.tries)
<1>1. [x0 EXCEPT !.pc = u] = x1
    BY DEF TraceRecord
<1>2. [x1 EXCEPT !.rows = v] = x2
    BY DEF TraceRecord
<1>3. [x2 EXCEPT !.failed = w] = x3
    BY DEF TraceRecord
<1> HIDE DEF x0, x1, x2
<1>4. x = x0
    BY DEF x0, TraceFields
<1>5. [x EXCEPT !.pc = u, !.rows = v, !.failed = w]
        = [[[x EXCEPT !.pc = u] EXCEPT !.rows = v] EXCEPT !.failed = w]
    OBVIOUS
<1> QED BY <1>1, <1>2, <1>3, <1>4, <1>5

(* The push becomes the record. *)
LEMMA TraceGoesIs ==
  ASSUME TraceShape, NEW i \in DOMAIN tracePush, NEW pc, NEW left, NEW rows, NEW failed,
         NEW tries,
         SetTracePush(i, TraceRecord(pc, tracePush[i].span, left, rows, failed, tries))
  PROVE  TraceGoes(i, pc, left, rows, failed)
PROOF
<1> DEFINE rec == TraceRecord(pc, tracePush[i].span, left, rows, failed, tries)
<1>1. /\ TraceFields(rec) /\ rec.pc = pc /\ rec.span = tracePush[i].span
      /\ rec.left = left /\ rec.rows = rows /\ rec.failed = failed
    BY DEF TraceRecord, TraceFields
<1> HIDE DEF rec
<1>2. tracePush' = [tracePush EXCEPT ![i] = rec] /\ Sequence(tracePush)
    BY DEF SetTracePush, rec, TraceShape
<1>3. Sequence(tracePush') /\ SetsAt(tracePush, tracePush', i, rec)
    BY <1>2, SetsAtIs
<1> QED BY <1>1, <1>3 DEF TraceGoes, SetsAt

(* Every step of the exporter is of one of the groups. *)
LEMMA TraceStepIs ==
  ASSUME TraceShape, TraceExporterStep
  PROVE  TraceKinds
PROOF
<1>f. ASSUME NEW i \in DOMAIN tracePush PROVE TraceFields(tracePush[i])
    BY DEF TraceShape
<1>1. ASSUME NEW i \in DOMAIN tracePush, EnterTracePush(i)
      PROVE  TraceKinds
  <2>1. [tracePush[i] EXCEPT !.pc = "check", !.tries = tracePush[i].tries + 1]
          = TraceRecord("check", tracePush[i].span, tracePush[i].left, tracePush[i].rows,
              tracePush[i].failed, tracePush[i].tries + 1)
      BY <1>f, TraceEntered
  <2>2. TraceGoes(i, "check", tracePush[i].left, tracePush[i].rows, tracePush[i].failed)
      BY <1>1, <2>1, TraceGoesIs DEF EnterTracePush
  <2> QED BY <1>1, <2>2 DEF EnterTracePush, TraceMoves, TraceRest, TraceKinds
<1>2. ASSUME NEW i \in DOMAIN tracePush, CheckTracePush(i)
      PROVE  TraceKinds
  <2>1. CASE traceExp # "open"
    <3>1. [tracePush[i] EXCEPT !.pc = "done", !.failed = TRUE]
            = TraceRecord("done", tracePush[i].span, tracePush[i].left, tracePush[i].rows,
                TRUE, tracePush[i].tries)
        BY <1>f, TraceFailed
    <3>2. TraceGoes(i, "done", tracePush[i].left, tracePush[i].rows, TRUE)
        BY <1>2, <2>1, <3>1, TraceGoesIs DEF CheckTracePush
    <3> QED BY <1>2, <3>2 DEF CheckTracePush, TraceMoves, TraceRest, TraceKinds
  <2>2. CASE traceExp = "open"
    <3>1. [tracePush[i] EXCEPT !.pc = "write", !.left = SpanTables]
            = TraceRecord("write", tracePush[i].span, SpanTables, tracePush[i].rows,
                tracePush[i].failed, tracePush[i].tries)
        BY <1>f, TraceAdmitted
    <3>2. TraceGoes(i, "write", SpanTables, tracePush[i].rows, tracePush[i].failed)
        BY <1>2, <2>2, <3>1, TraceGoesIs DEF CheckTracePush
    <3> QED BY <1>2, <2>2, <3>2 DEF CheckTracePush, TraceMoves, TraceRest, TraceKinds
  <2> QED BY <2>1, <2>2
<1>3. ASSUME NEW i \in DOMAIN tracePush, AppendTags(i)
      PROVE  TraceKinds
  <2> DEFINE new   == NewStructuredSpan(tracePush[i].span).tagkey \ keysCache
             left  == (tracePush[i].left \ {"tag"}) \cup {"values"}
             rest  == tracePush[i].left \ {"tag"}
  <2>1. /\ tracePush[i].pc = "write" /\ "tag" \in tracePush[i].left
           /\ UNCHANGED <<traceTable, rfCache, traceExp>>
        /\ \/ /\ keysCache' = keysCache \cup new /\ UNCHANGED faults
              /\ SetTracePush(i, [tracePush[i] EXCEPT !.left = left, !.rows = new])
           \/ /\ StatementFails /\ UNCHANGED keysCache
              /\ SetTracePush(i, [tracePush[i] EXCEPT !.left = rest])
      BY <1>3 DEF AppendTags
  <2>2. CASE /\ keysCache' = keysCache \cup new /\ UNCHANGED faults
             /\ SetTracePush(i, [tracePush[i] EXCEPT !.left = left, !.rows = new])
    <3>1. TraceGoes(i, tracePush[i].pc, left, new, tracePush[i].failed)
      <4> HIDE DEF left, new
      <4>1. [tracePush[i] EXCEPT !.left = left, !.rows = new]
              = TraceRecord(tracePush[i].pc, tracePush[i].span, left, new, tracePush[i].failed,
                  tracePush[i].tries)
          BY <1>f, TraceTagged
      <4> QED BY <2>2, <4>1, TraceGoesIs
    <3> QED BY <2>1, <2>2, <3>1 DEF TraceTags, TraceKinds
  <2>3. CASE /\ StatementFails /\ UNCHANGED keysCache
             /\ SetTracePush(i, [tracePush[i] EXCEPT !.left = rest])
    <3>1. TraceGoes(i, tracePush[i].pc, rest, tracePush[i].rows, tracePush[i].failed)
      <4> HIDE DEF rest
      <4>1. [tracePush[i] EXCEPT !.left = rest]
              = TraceRecord(tracePush[i].pc, tracePush[i].span, rest, tracePush[i].rows,
                  tracePush[i].failed, tracePush[i].tries)
          BY <1>f, TraceSent
      <4> QED BY <2>3, <4>1, TraceGoesIs
    <3> QED BY <2>1, <2>3, <3>1 DEF TraceTagsFail, TraceKinds, StatementFails
  <2> QED BY <2>1, <2>2, <2>3
<1>g. ASSUME NEW i \in DOMAIN tracePush, tracePush[i].pc = "write", TagsFail(i),
             UNCHANGED <<rfCache, keysCache, traceExp>>
      PROVE  TraceKinds
  <2> DEFINE left == tracePush[i].left \ Tagging
  <2>1. SetTracePush(i, [tracePush[i] EXCEPT !.left = left, !.rows = {}])
      BY <1>g DEF TagsFail, Tagging
  <2>2. TraceGoes(i, tracePush[i].pc, left, {}, tracePush[i].failed)
    <3> HIDE DEF left
    <3>1. [tracePush[i] EXCEPT !.left = left, !.rows = {}]
            = TraceRecord(tracePush[i].pc, tracePush[i].span, left, {}, tracePush[i].failed,
                tracePush[i].tries)
        BY <1>f, TraceTagged
    <3> QED BY <2>1, <3>1, TraceGoesIs
  <2> QED BY <1>g, <2>2 DEF TagsFail, TraceTagsFail, TraceKinds, StatementFails
<1>v. ASSUME NEW i \in DOMAIN tracePush, SendTagValues(i)
      PROVE  TraceKinds
  <2> DEFINE left == (tracePush[i].left \ {"values"}) \cup {"keys"}
  <2>1. /\ tracePush[i].pc = "write" /\ "values" \in tracePush[i].left
        /\ UNCHANGED <<rfCache, keysCache, traceExp>>
      BY <1>v DEF SendTagValues
  <2>2. CASE /\ traceTable' = [traceTable EXCEPT
                                !["tag"] = @ \cup NewStructuredSpan(tracePush[i].span).tag]
             /\ SetTracePush(i, [tracePush[i] EXCEPT !.left = left])
             /\ UNCHANGED faults
    <3>1. TraceGoes(i, tracePush[i].pc, left, tracePush[i].rows, tracePush[i].failed)
      <4> HIDE DEF left
      <4>1. [tracePush[i] EXCEPT !.left = left]
              = TraceRecord(tracePush[i].pc, tracePush[i].span, left, tracePush[i].rows,
                  tracePush[i].failed, tracePush[i].tries)
          BY <1>f, TraceSent
      <4> QED BY <2>2, <4>1, TraceGoesIs
    <3> QED BY <2>1, <2>2, <3>1 DEF TraceValues, TraceKinds
  <2> QED BY <1>v, <1>g, <2>1, <2>2 DEF SendTagValues
<1>k. ASSUME NEW i \in DOMAIN tracePush, SendTagKeys(i)
      PROVE  TraceKinds
  <2> DEFINE left == tracePush[i].left \ {"keys"}
  <2>1. /\ tracePush[i].pc = "write" /\ "keys" \in tracePush[i].left
        /\ UNCHANGED <<rfCache, keysCache, traceExp>>
      BY <1>k DEF SendTagKeys
  <2>2. CASE /\ traceTable' = [traceTable EXCEPT !["tagkey"] = @ \cup tracePush[i].rows]
             /\ SetTracePush(i, [tracePush[i] EXCEPT !.left = left, !.rows = {}])
             /\ UNCHANGED faults
    <3>1. TraceGoes(i, tracePush[i].pc, left, {}, tracePush[i].failed)
      <4> HIDE DEF left
      <4>1. [tracePush[i] EXCEPT !.left = left, !.rows = {}]
              = TraceRecord(tracePush[i].pc, tracePush[i].span, left, {}, tracePush[i].failed,
                  tracePush[i].tries)
          BY <1>f, TraceTagged
      <4> QED BY <2>2, <4>1, TraceGoesIs
    <3> QED BY <2>1, <2>2, <3>1 DEF TraceKeys, TraceKinds
  <2> QED BY <1>k, <1>g, <2>1, <2>2 DEF SendTagKeys
<1>4. ASSUME NEW i \in DOMAIN tracePush, WriteResources(i)
      PROVE  TraceKinds
  <2>0. tracePush[i].failed \in BOOLEAN
      BY DEF TraceShape
  <2>1. CASE tracePush[i].failed
    <3>1. /\ tracePush[i].pc = "write" /\ tracePush[i].left = {}
             /\ UNCHANGED <<traceTable, rfCache, keysCache, traceExp, faults>>
          /\ SetTracePush(i, [tracePush[i] EXCEPT !.pc = "done", !.failed = TRUE,
               !.rows = {}])
        BY <1>4, <2>0, <2>1 DEF WriteResources, ReportsError
    <3>2. [tracePush[i] EXCEPT !.pc = "done", !.failed = TRUE, !.rows = {}]
            = TraceRecord("done", tracePush[i].span, tracePush[i].left, {}, TRUE,
                tracePush[i].tries)
        BY <1>f, TraceAppended
    <3>4. SetTracePush(i, TraceRecord("done", tracePush[i].span, tracePush[i].left, {},
            TRUE, tracePush[i].tries))
        BY ONLY <3>1, <3>2
    <3>3. TraceGoes(i, "done", tracePush[i].left, {}, TRUE)
        BY <3>4, TraceGoesIs
    <3> QED BY <2>1, <3>1, <3>3 DEF TraceMoves, TraceRest, TraceKinds
  <2>2. CASE ~tracePush[i].failed
    <3> DEFINE new == NewStructuredSpan(tracePush[i].span).resource \ rfCache
    <3>1. /\ tracePush[i].pc = "write" /\ tracePush[i].left = {}
             /\ UNCHANGED <<traceTable, keysCache, traceExp, faults>>
          /\ rfCache' = rfCache \cup new
          /\ SetTracePush(i, [tracePush[i] EXCEPT !.pc = "resources", !.failed = FALSE,
               !.rows = new])
        BY <1>4, <2>0, <2>2 DEF WriteResources, ReportsError
    <3>2. TraceGoes(i, "resources", tracePush[i].left, new, FALSE)
      <4> HIDE DEF new
      <4>1. [tracePush[i] EXCEPT !.pc = "resources", !.failed = FALSE, !.rows = new]
              = TraceRecord("resources", tracePush[i].span, tracePush[i].left, new, FALSE,
                  tracePush[i].tries)
          BY <1>f, TraceAppended
      <4>2. SetTracePush(i, TraceRecord("resources", tracePush[i].span, tracePush[i].left,
              new, FALSE, tracePush[i].tries))
          BY ONLY <3>1, <4>1
      <4> QED BY <4>2, TraceGoesIs
    <3> QED BY <2>2, <3>1, <3>2 DEF TraceAppends, TraceKinds
  <2> QED BY <2>1, <2>2
<1>5. ASSUME NEW i \in DOMAIN tracePush, SendResources(i)
      PROVE  TraceKinds
  <2>0. tracePush[i].pc = "resources" /\ UNCHANGED <<rfCache, keysCache, traceExp>>
      BY <1>5 DEF SendResources
  <2>1. CASE /\ traceTable' = [traceTable EXCEPT !["resource"] = @ \cup tracePush[i].rows]
             /\ SetTracePush(i, [tracePush[i] EXCEPT !.pc = "done", !.rows = {}])
             /\ UNCHANGED faults
    <3>1. [tracePush[i] EXCEPT !.pc = "done", !.rows = {}]
            = TraceRecord("done", tracePush[i].span, tracePush[i].left, {},
                tracePush[i].failed, tracePush[i].tries)
        BY <1>f, TraceRowsSent
    <3>2. TraceGoes(i, "done", tracePush[i].left, {}, tracePush[i].failed)
        BY <2>1, <3>1, TraceGoesIs
    <3> QED BY <2>0, <2>1, <3>2 DEF TraceSends, TraceKinds
  <2>2. CASE /\ StatementFails /\ UNCHANGED traceTable
             /\ SetTracePush(i, [tracePush[i] EXCEPT !.pc = "done", !.rows = {},
                  !.failed = TRUE])
    <3>1. [tracePush[i] EXCEPT !.pc = "done", !.rows = {}, !.failed = TRUE]
            = TraceRecord("done", tracePush[i].span, tracePush[i].left, {}, TRUE,
                tracePush[i].tries)
        BY <1>f, TraceRowsFailed
    <3>2. TraceGoes(i, "done", tracePush[i].left, {}, TRUE)
        BY <2>2, <3>1, TraceGoesIs
    <3> QED BY <2>0, <2>2, <3>2 DEF TraceSends, TraceKinds, StatementFails
  <2> QED BY <1>5, <2>1, <2>2 DEF SendResources
<1>6. ASSUME NEW i \in DOMAIN tracePush, RetryTracePush(i)
      PROVE  TraceKinds
  <2>1. [tracePush[i] EXCEPT !.pc = "enter", !.failed = FALSE]
          = TraceRecord("enter", tracePush[i].span, tracePush[i].left, tracePush[i].rows,
              FALSE, tracePush[i].tries)
      BY <1>f, TraceFailed
  <2>2. TraceGoes(i, "enter", tracePush[i].left, tracePush[i].rows, FALSE)
      BY <1>6, <2>1, TraceGoesIs DEF RetryTracePush
  <2> QED BY <1>6, <2>2 DEF RetryTracePush, TraceMoves, TraceRest, TraceKinds, PushesAgain
<1>7. ASSUME NEW i \in DOMAIN tracePush, NEW t \in SpanTables, WriteSpans(i, t)
      PROVE  TraceKinds
  <2>0. tracePush[i].pc = "write" /\ t \in tracePush[i].left \ {"tag"}
          /\ UNCHANGED <<rfCache, keysCache, traceExp>>
      BY <1>7 DEF WriteSpans
  <2> DEFINE left == tracePush[i].left \ {t}
  <2>1. CASE /\ traceTable' = [traceTable EXCEPT
                                ![t] = @ \cup NewStructuredSpan(tracePush[i].span)[t]]
             /\ SetTracePush(i, [tracePush[i] EXCEPT !.left = left])
             /\ UNCHANGED faults
    <3>1. TraceGoes(i, tracePush[i].pc, left, tracePush[i].rows, tracePush[i].failed)
      <4> HIDE DEF left
      <4>1. [tracePush[i] EXCEPT !.left = left]
              = TraceRecord(tracePush[i].pc, tracePush[i].span, left, tracePush[i].rows,
                  tracePush[i].failed, tracePush[i].tries)
          BY <1>f, TraceSent
      <4> QED BY <2>1, <4>1, TraceGoesIs
    <3> QED BY <2>0, <2>1, <3>1 DEF TraceWrites, TraceKinds
  <2>2. CASE /\ StatementFails /\ UNCHANGED traceTable
             /\ SetTracePush(i, [tracePush[i] EXCEPT !.left = left, !.failed = TRUE])
    <3>1. TraceGoes(i, tracePush[i].pc, left, tracePush[i].rows, TRUE)
      <4> HIDE DEF left
      <4>1. [tracePush[i] EXCEPT !.left = left, !.failed = TRUE]
              = TraceRecord(tracePush[i].pc, tracePush[i].span, left, tracePush[i].rows,
                  TRUE, tracePush[i].tries)
          BY <1>f, TraceNotSent
      <4> QED BY <2>2, <4>1, TraceGoesIs
    <3> QED BY <2>0, <2>2, <3>1 DEF TraceFails, TraceKinds, StatementFails
  <2> QED BY <1>7, <2>1, <2>2 DEF WriteSpans
<1>8. CASE ShutdownTraceExporter
    BY <1>8 DEF ShutdownTraceExporter, TraceCloses, TraceKinds
<1>9. CASE CloseWriter
    BY <1>9 DEF CloseWriter, TraceCloses, TraceKinds
<1> QED BY <1>1, <1>2, <1>3, <1>v, <1>k, <1>4, <1>5, <1>6, <1>7, <1>8, <1>9
        DEF TraceExporterStep

(* The pushes keep their shape. *)
LEMMA TraceShapeStep ==
  ASSUME TraceShape, TraceKinds
  PROVE  TraceShape'
PROOF
<1>1. CASE TraceCloses
    BY <1>1 DEF TraceCloses, TraceShape
<1>2. CASE TraceReceives
  <2>1. PICK span : AppendsTo(tracePush, tracePush', NewTracePush(span))
      BY <1>2 DEF TraceReceives
  <2>2. LET x == NewTracePush(span) IN TraceFields(x) /\ x.failed = FALSE /\ x.pc = "enter"
      BY DEF NewTracePush, TraceFields, TraceRecord
  <2>3. \A j \in DOMAIN tracePush' :
          /\ TraceFields(tracePush'[j]) /\ tracePush'[j].failed \in BOOLEAN
          /\ tracePush'[j].pc \in {"enter", "check", "write", "resources", "done"}
      BY <2>1, <2>2 DEF AppendsTo, TraceShape
  <2> QED BY <1>2, <2>3 DEF TraceReceives, TraceShape
<1>3. CASE TraceIdles
    BY <1>3 DEF TraceIdles, traceVars, TraceShape
<1>4. ASSUME NEW i \in DOMAIN tracePush, TraceMoves(i)
      PROVE  TraceShape'
    BY <1>4 DEF TraceMoves, TraceGoes, TraceRest, TraceShape
<1>5. ASSUME NEW i \in DOMAIN tracePush, TraceTags(i)
      PROVE  TraceShape'
    BY <1>5 DEF TraceTags, TraceGoes, TraceRest, TraceShape
<1>v. ASSUME NEW i \in DOMAIN tracePush, TraceValues(i)
      PROVE  TraceShape'
    BY <1>v DEF TraceValues, TraceGoes, TraceRest, TraceShape
<1>k. ASSUME NEW i \in DOMAIN tracePush, TraceKeys(i)
      PROVE  TraceShape'
    BY <1>k DEF TraceKeys, TraceGoes, TraceRest, TraceShape
<1>g. ASSUME NEW i \in DOMAIN tracePush, TraceTagsFail(i)
      PROVE  TraceShape'
    BY <1>g DEF TraceTagsFail, TraceGoes, TraceRest, TraceShape
<1>6. ASSUME NEW i \in DOMAIN tracePush, TraceAppends(i)
      PROVE  TraceShape'
    BY <1>6 DEF TraceAppends, TraceGoes, TraceRest, TraceShape
<1>7. ASSUME NEW i \in DOMAIN tracePush, TraceSends(i)
      PROVE  TraceShape'
    BY <1>7 DEF TraceSends, TraceGoes, TraceRest, TraceShape
<1>8. ASSUME NEW i \in DOMAIN tracePush, NEW t, TraceWrites(i, t)
      PROVE  TraceShape'
    BY <1>8 DEF TraceWrites, TraceGoes, TraceRest, TraceShape
<1>9. ASSUME NEW i \in DOMAIN tracePush, NEW t, TraceFails(i, t)
      PROVE  TraceShape'
    BY <1>9 DEF TraceFails, TraceGoes, TraceRest, TraceShape
<1> QED BY <1>1, <1>2, <1>3, <1>4, <1>5, <1>v, <1>k, <1>g, <1>6, <1>7, <1>8, <1>9
        DEF TraceKinds

(* Writers are at work in pushes that write only. *)
LEMMA TraceLeftStep ==
  ASSUME TraceShape, TraceLeft, TraceKinds
  PROVE  TraceLeft'
PROOF
<1>1. CASE TraceCloses
    BY <1>1 DEF TraceCloses, TraceLeft
<1>2. CASE TraceReceives
  <2>1. PICK span : AppendsTo(tracePush, tracePush', NewTracePush(span))
      BY <1>2 DEF TraceReceives
  <2>2. LET x == NewTracePush(span) IN x.pc = "enter" /\ x.left = {} /\ x.rows = {}
      BY DEF NewTracePush
  <2> QED BY <1>2, <2>1, <2>2 DEF TraceReceives, AppendsTo, TraceLeft, Tagging
<1>3. CASE TraceIdles
    BY <1>3 DEF TraceIdles, traceVars, TraceLeft
<1>4. ASSUME NEW i \in DOMAIN tracePush, TraceMoves(i)
      PROVE  TraceLeft'
    BY <1>4 DEF TraceMoves, TraceGoes, TraceRest, TraceLeft, Tagging, SpanTables
<1>5. ASSUME NEW i \in DOMAIN tracePush, TraceTags(i)
      PROVE  TraceLeft'
    BY <1>5 DEF TraceTags, TraceGoes, TraceRest, TraceLeft, Tagging, SpanTables
<1>v. ASSUME NEW i \in DOMAIN tracePush, TraceValues(i)
      PROVE  TraceLeft'
    BY <1>v DEF TraceValues, TraceGoes, TraceRest, TraceLeft, Tagging
<1>k. ASSUME NEW i \in DOMAIN tracePush, TraceKeys(i)
      PROVE  TraceLeft'
    BY <1>k DEF TraceKeys, TraceGoes, TraceRest, TraceLeft, Tagging
<1>g. ASSUME NEW i \in DOMAIN tracePush, TraceTagsFail(i)
      PROVE  TraceLeft'
    BY <1>g DEF TraceTagsFail, TraceGoes, TraceRest, TraceLeft, Tagging
<1>6. ASSUME NEW i \in DOMAIN tracePush, TraceAppends(i)
      PROVE  TraceLeft'
    BY <1>6 DEF TraceAppends, TraceGoes, TraceRest, TraceLeft, Tagging, SpanTables
<1>7. ASSUME NEW i \in DOMAIN tracePush, TraceSends(i)
      PROVE  TraceLeft'
    BY <1>7 DEF TraceSends, TraceGoes, TraceRest, TraceLeft, Tagging, SpanTables
<1>8. ASSUME NEW i \in DOMAIN tracePush, NEW t, TraceWrites(i, t)
      PROVE  TraceLeft'
    BY <1>8 DEF TraceWrites, TraceGoes, TraceRest, TraceLeft, Tagging, SpanTables
<1>9. ASSUME NEW i \in DOMAIN tracePush, NEW t, TraceFails(i, t)
      PROVE  TraceLeft'
    BY <1>9 DEF TraceFails, TraceGoes, TraceRest, TraceLeft, Tagging, SpanTables
<1> QED BY <1>1, <1>2, <1>3, <1>4, <1>5, <1>v, <1>k, <1>g, <1>6, <1>7, <1>8, <1>9
        DEF TraceKinds

(* Nobody writes when the connection is closed. *)
LEMMA TraceClosedStep ==
  ASSUME TraceShape, TraceClosed, TraceKinds
  PROVE  TraceClosed'
PROOF
<1>1. CASE TraceCloses
    BY <1>1 DEF TraceCloses, TraceClosed
<1>2. CASE TraceReceives
  <2>1. PICK span : AppendsTo(tracePush, tracePush', NewTracePush(span))
      BY <1>2 DEF TraceReceives
  <2>2. LET x == NewTracePush(span) IN x.pc = "enter" /\ x.left = {} /\ x.rows = {}
      BY DEF NewTracePush
  <2> QED BY <1>2, <2>1, <2>2 DEF TraceReceives, AppendsTo, TraceClosed
<1>3. CASE TraceIdles
    BY <1>3 DEF TraceIdles, traceVars, TraceClosed
<1>4. ASSUME NEW i \in DOMAIN tracePush, TraceMoves(i)
      PROVE  TraceClosed'
    BY <1>4 DEF TraceMoves, TraceGoes, TraceRest, TraceClosed
<1>5. ASSUME NEW i \in DOMAIN tracePush, TraceTags(i)
      PROVE  TraceClosed'
    BY <1>5 DEF TraceTags, TraceGoes, TraceRest, TraceClosed
<1>v. ASSUME NEW i \in DOMAIN tracePush, TraceValues(i)
      PROVE  TraceClosed'
    BY <1>v DEF TraceValues, TraceGoes, TraceRest, TraceClosed
<1>k. ASSUME NEW i \in DOMAIN tracePush, TraceKeys(i)
      PROVE  TraceClosed'
    BY <1>k DEF TraceKeys, TraceGoes, TraceRest, TraceClosed
<1>g. ASSUME NEW i \in DOMAIN tracePush, TraceTagsFail(i)
      PROVE  TraceClosed'
    BY <1>g DEF TraceTagsFail, TraceGoes, TraceRest, TraceClosed
<1>6. ASSUME NEW i \in DOMAIN tracePush, TraceAppends(i)
      PROVE  TraceClosed'
    BY <1>6 DEF TraceAppends, TraceGoes, TraceRest, TraceClosed
<1>7. ASSUME NEW i \in DOMAIN tracePush, TraceSends(i)
      PROVE  TraceClosed'
    BY <1>7 DEF TraceSends, TraceGoes, TraceRest, TraceClosed
<1>8. ASSUME NEW i \in DOMAIN tracePush, NEW t, TraceWrites(i, t)
      PROVE  TraceClosed'
    BY <1>8 DEF TraceWrites, TraceGoes, TraceRest, TraceClosed
<1>9. ASSUME NEW i \in DOMAIN tracePush, NEW t, TraceFails(i, t)
      PROVE  TraceClosed'
    BY <1>9 DEF TraceFails, TraceGoes, TraceRest, TraceClosed
<1> QED BY <1>1, <1>2, <1>3, <1>4, <1>5, <1>v, <1>k, <1>g, <1>6, <1>7, <1>8, <1>9
        DEF TraceKinds

(* Tables, caches and faults only grow, so a push that does not step keeps *)
(* its rows.                                                               *)
TraceMore ==
  /\ rfCache \subseteq rfCache' /\ keysCache \subseteq keysCache'
  /\ faults' \in {faults, faults + 1}
  /\ \A t \in TraceTables : traceTable[t] \subseteq traceTable'[t]

(* A push of the traces exporter that does not step keeps its rows. *)
LEMMA TraceOthers ==
  ASSUME TraceWritten, NEW j \in DOMAIN tracePush, faults \in Nat,
         tracePush'[j] = tracePush[j], TraceMore
  PROVE  TraceRowsOf(j)'
PROOF
<1>1. TraceRowsOf(j) /\ (faults' = 0 => faults = 0)
    BY DEF TraceWritten, TraceMore
<1>2. \A t \in {"index", "error", "tag"} : traceTable[t] \subseteq traceTable'[t]
    BY DEF TraceMore, TraceTables, SpanTables
<1> QED BY <1>1, <1>2 DEF TraceRowsOf, TraceMore

(* The tables and the cache of the traces exporter only grow. *)
LEMMA TraceGrows ==
  ASSUME TraceShape, TraceKinds
  PROVE  TraceMore
PROOF
<1>1. ASSUME NEW i \in DOMAIN tracePush, NEW t, TraceWrites(i, t) PROVE TraceMore
    BY <1>1 DEF TraceWrites, TraceShape, TraceMore
<1>2. ASSUME NEW i \in DOMAIN tracePush, TraceSends(i) PROVE TraceMore
    BY <1>2 DEF TraceSends, TraceShape, TraceMore
<1>3. ASSUME NEW i \in DOMAIN tracePush, TraceValues(i) PROVE TraceMore
    BY <1>3 DEF TraceValues, TraceShape, TraceMore
<1>4. ASSUME NEW i \in DOMAIN tracePush, TraceKeys(i) PROVE TraceMore
    BY <1>4 DEF TraceKeys, TraceShape, TraceMore
<1> QED BY <1>1, <1>2, <1>3, <1>4 DEF TraceKinds, TraceCloses, TraceReceives, TraceIdles,
        TraceMoves, TraceTags, TraceTagsFail, TraceAppends, TraceFails, TraceRest, traceVars,
        TraceMore

(* What a push has written stays written. *)
LEMMA TraceWrittenStep ==
  ASSUME TraceShape, TraceLeft, TraceWritten, TraceCached, faults \in Nat, TraceKinds
  PROVE  TraceWritten'
PROOF
<1>a. TraceMore
    BY TraceGrows
<1>i. ASSUME NEW i \in DOMAIN tracePush PROVE TraceRowsOf(i)
    BY DEF TraceWritten
<1>1. CASE TraceCloses
  <2>1. \A j \in DOMAIN tracePush : TraceRowsOf(j)'
      BY <1>1, <1>a, TraceOthers DEF TraceCloses
  <2> QED BY <1>1, <2>1 DEF TraceCloses, TraceWritten
<1>2. CASE TraceReceives
  <2>1. PICK span, n : /\ DOMAIN tracePush' = DOMAIN tracePush \cup {n}
                       /\ tracePush'[n] = NewTracePush(span)
                       /\ \A j \in DOMAIN tracePush : tracePush'[j] = tracePush[j]
      BY <1>2 DEF TraceReceives, AppendsTo
  <2>2. tracePush'[n].pc = "enter"
      BY <2>1 DEF NewTracePush
  <2>3. TraceRowsOf(n)'
      BY <2>2 DEF TraceRowsOf
  <2>4. \A j \in DOMAIN tracePush : TraceRowsOf(j)'
      BY <2>1, <1>a, TraceOthers
  <2> QED BY <2>1, <2>3, <2>4 DEF TraceWritten
<1>3. CASE TraceIdles
  <2>1. \A j \in DOMAIN tracePush : TraceRowsOf(j)'
      BY <1>3, <1>a, TraceOthers DEF TraceIdles, traceVars
  <2> QED BY <1>3, <2>1 DEF TraceIdles, traceVars, TraceWritten
<1>4. ASSUME NEW i \in DOMAIN tracePush, TraceMoves(i)
      PROVE  TraceWritten'
  <2>1. ASSUME NEW j \in DOMAIN tracePush, j # i PROVE TraceRowsOf(j)'
    <3>1. tracePush'[j] = tracePush[j]
        BY <1>4, <2>1 DEF TraceMoves, TraceGoes
    <3> QED BY <3>1, <1>a, TraceOthers
  <2>2. TraceRowsOf(i)'
      BY <1>4, <1>i DEF TraceMoves, TraceGoes, TraceRest, TraceRowsOf, TraceLeft, SpanTables
  <2>3. DOMAIN tracePush' = DOMAIN tracePush
      BY <1>4 DEF TraceMoves, TraceGoes
  <2> QED BY <2>1, <2>2, <2>3 DEF TraceWritten
<1>5. ASSUME NEW i \in DOMAIN tracePush, TraceTags(i)
      PROVE  TraceWritten'
  <2>1. ASSUME NEW j \in DOMAIN tracePush, j # i PROVE TraceRowsOf(j)'
    <3>1. tracePush'[j] = tracePush[j]
        BY <1>5, <2>1 DEF TraceTags, TraceGoes
    <3> QED BY <3>1, <1>a, TraceOthers
  <2>2. TraceRowsOf(i)'
      BY <1>5, <1>i DEF TraceTags, TraceGoes, TraceRest, TraceRowsOf, TraceLeft
  <2>3. DOMAIN tracePush' = DOMAIN tracePush
      BY <1>5 DEF TraceTags, TraceGoes
  <2> QED BY <2>1, <2>2, <2>3 DEF TraceWritten
<1>v. ASSUME NEW i \in DOMAIN tracePush, TraceValues(i)
      PROVE  TraceWritten'
  <2>1. ASSUME NEW j \in DOMAIN tracePush, j # i PROVE TraceRowsOf(j)'
    <3>1. tracePush'[j] = tracePush[j]
        BY <1>v, <2>1 DEF TraceValues, TraceGoes
    <3> QED BY <3>1, <1>a, TraceOthers
  <2>a. /\ NewStructuredSpan(tracePush[i].span).tag \subseteq traceTable'["tag"]
        /\ \A t \in {"index", "error"} : traceTable'[t] = traceTable[t]
      BY <1>v DEF TraceValues, TraceShape, TraceTables, SpanTables
  <2>2. TraceRowsOf(i)'
      BY <1>v, <1>i, <2>a DEF TraceValues, TraceGoes, TraceRowsOf, TraceLeft, Tagging
  <2>3. DOMAIN tracePush' = DOMAIN tracePush
      BY <1>v DEF TraceValues, TraceGoes
  <2> QED BY <2>1, <2>2, <2>3 DEF TraceWritten
<1>k. ASSUME NEW i \in DOMAIN tracePush, TraceKeys(i)
      PROVE  TraceWritten'
  <2>1. ASSUME NEW j \in DOMAIN tracePush, j # i PROVE TraceRowsOf(j)'
    <3>1. tracePush'[j] = tracePush[j]
        BY <1>k, <2>1 DEF TraceKeys, TraceGoes
    <3> QED BY <3>1, <1>a, TraceOthers
  <2>a. \A t \in {"index", "error", "tag"} : traceTable'[t] = traceTable[t]
      BY <1>k DEF TraceKeys, TraceShape, TraceTables, SpanTables
  <2>2. TraceRowsOf(i)'
      BY <1>k, <1>i, <2>a DEF TraceKeys, TraceGoes, TraceRowsOf
  <2>3. DOMAIN tracePush' = DOMAIN tracePush
      BY <1>k DEF TraceKeys, TraceGoes
  <2> QED BY <2>1, <2>2, <2>3 DEF TraceWritten
<1>g. ASSUME NEW i \in DOMAIN tracePush, TraceTagsFail(i)
      PROVE  TraceWritten'
  <2>1. ASSUME NEW j \in DOMAIN tracePush, j # i PROVE TraceRowsOf(j)'
    <3>1. tracePush'[j] = tracePush[j]
        BY <1>g, <2>1 DEF TraceTagsFail, TraceGoes
    <3> QED BY <3>1, <1>a, TraceOthers
  <2>2. TraceRowsOf(i)'
      BY <1>g, <1>i DEF TraceTagsFail, TraceGoes, TraceRowsOf, Tagging
  <2>3. DOMAIN tracePush' = DOMAIN tracePush
      BY <1>g DEF TraceTagsFail, TraceGoes
  <2> QED BY <2>1, <2>2, <2>3 DEF TraceWritten
<1>6. ASSUME NEW i \in DOMAIN tracePush, TraceAppends(i)
      PROVE  TraceWritten'
  <2>1. ASSUME NEW j \in DOMAIN tracePush, j # i PROVE TraceRowsOf(j)'
    <3>1. tracePush'[j] = tracePush[j]
        BY <1>6, <2>1 DEF TraceAppends, TraceGoes
    <3> QED BY <3>1, <1>a, TraceOthers
  <2>2. TraceRowsOf(i)'
      BY <1>6, <1>i DEF TraceAppends, TraceGoes, TraceRest, TraceRowsOf, TraceLeft
  <2>3. DOMAIN tracePush' = DOMAIN tracePush
      BY <1>6 DEF TraceAppends, TraceGoes
  <2> QED BY <2>1, <2>2, <2>3 DEF TraceWritten
<1>7. ASSUME NEW i \in DOMAIN tracePush, TraceSends(i)
      PROVE  TraceWritten'
  <2>1. ASSUME NEW j \in DOMAIN tracePush, j # i PROVE TraceRowsOf(j)'
    <3>1. tracePush'[j] = tracePush[j]
        BY <1>7, <2>1 DEF TraceSends, TraceGoes
    <3> QED BY <3>1, <1>a, TraceOthers
  <2>a. \A t \in {"index", "error", "tag"} : traceTable[t]
          \subseteq traceTable'[t]
      BY <1>a DEF TraceMore, TraceTables, SpanTables
  <2>2. TraceRowsOf(i)'
      BY <1>7, <1>i, <2>a DEF TraceSends, TraceGoes, TraceRest, TraceRowsOf, TraceLeft
  <2>3. DOMAIN tracePush' = DOMAIN tracePush
      BY <1>7 DEF TraceSends, TraceGoes
  <2> QED BY <2>1, <2>2, <2>3 DEF TraceWritten
<1>8. ASSUME NEW i \in DOMAIN tracePush, NEW t, TraceWrites(i, t)
      PROVE  TraceWritten'
  <2>1. ASSUME NEW j \in DOMAIN tracePush, j # i PROVE TraceRowsOf(j)'
    <3>1. tracePush'[j] = tracePush[j]
        BY <1>8, <2>1 DEF TraceWrites, TraceGoes
    <3> QED BY <3>1, <1>a, TraceOthers
  <2>2. TraceRowsOf(i)'
      BY <1>8, <1>i DEF TraceWrites, TraceGoes, TraceRest, TraceRowsOf, TraceLeft,
          TraceShape, TraceTables, SpanTables
  <2>3. DOMAIN tracePush' = DOMAIN tracePush
      BY <1>8 DEF TraceWrites, TraceGoes
  <2> QED BY <2>1, <2>2, <2>3 DEF TraceWritten
<1>9. ASSUME NEW i \in DOMAIN tracePush, NEW t, TraceFails(i, t)
      PROVE  TraceWritten'
  <2>1. ASSUME NEW j \in DOMAIN tracePush, j # i PROVE TraceRowsOf(j)'
    <3>1. tracePush'[j] = tracePush[j]
        BY <1>9, <2>1 DEF TraceFails, TraceGoes
    <3> QED BY <3>1, <1>a, TraceOthers
  <2>2. TraceRowsOf(i)'
      BY <1>9, <1>i DEF TraceFails, TraceGoes, TraceRest, TraceRowsOf, TraceLeft
  <2>3. DOMAIN tracePush' = DOMAIN tracePush
      BY <1>9 DEF TraceFails, TraceGoes
  <2> QED BY <2>1, <2>2, <2>3 DEF TraceWritten
<1> QED BY <1>1, <1>2, <1>3, <1>4, <1>5, <1>v, <1>k, <1>g, <1>6, <1>7, <1>8, <1>9
        DEF TraceKinds

(* What is in the caches is stored or under way, unless a statement failed. *)
LEMMA TraceCachedStep ==
  ASSUME TraceShape, TraceLeft, faults \in Nat, TraceCached, TraceKinds
  PROVE  TraceCached'
PROOF
<1> USE DEF KeysUnderWay, ResourcesUnderWay, TracesUnderWay
<1> DEFINE Kept == KeysUnderWay \subseteq KeysUnderWay' /\ ResourcesUnderWay \subseteq ResourcesUnderWay'
<1>1. CASE TraceCloses
    BY <1>1 DEF TraceCloses, TraceCached
<1>2. CASE TraceReceives
  <2>1. Kept
      BY <1>2 DEF TraceReceives, AppendsTo
  <2> QED BY <1>2, <2>1 DEF TraceReceives, TraceCached
<1>3. CASE TraceIdles
    BY <1>3 DEF TraceIdles, traceVars, TraceCached
<1>4. ASSUME NEW i \in DOMAIN tracePush, TraceMoves(i)
      PROVE  TraceCached'
  <2>1. Kept
      BY <1>4 DEF TraceMoves, TraceGoes, TraceRest, TraceLeft, Tagging
  <2> QED BY <1>4, <2>1 DEF TraceMoves, TraceRest, TraceCached
<1>5. ASSUME NEW i \in DOMAIN tracePush, TraceTags(i)
      PROVE  TraceCached'
  <2>1. Kept /\ tracePush'[i].rows \subseteq KeysUnderWay'
      BY <1>5 DEF TraceTags, TraceGoes, TraceLeft
  <2> QED BY <1>5, <2>1 DEF TraceTags, TraceGoes, TraceCached
<1>v. ASSUME NEW i \in DOMAIN tracePush, TraceValues(i)
      PROVE  TraceCached'
  <2>1. Kept
      BY <1>v DEF TraceValues, TraceGoes
  <2>2. traceTable'["resource"] = traceTable["resource"]
          /\ traceTable'["tagkey"] = traceTable["tagkey"]
      BY <1>v DEF TraceValues, TraceShape, TraceTables, SpanTables
  <2> QED BY <1>v, <2>1, <2>2 DEF TraceValues, TraceCached
<1>k. ASSUME NEW i \in DOMAIN tracePush, TraceKeys(i)
      PROVE  TraceCached'
  <2>1. /\ KeysUnderWay \subseteq KeysUnderWay' \cup tracePush[i].rows
        /\ ResourcesUnderWay \subseteq ResourcesUnderWay'
      BY <1>k DEF TraceKeys, TraceGoes
  <2>2. /\ traceTable'["tagkey"] = traceTable["tagkey"] \cup tracePush[i].rows
        /\ traceTable'["resource"] = traceTable["resource"]
      BY <1>k DEF TraceKeys, TraceShape, TraceTables, SpanTables
  <2> QED BY <1>k, <2>1, <2>2 DEF TraceKeys, TraceCached
<1>g. ASSUME NEW i \in DOMAIN tracePush, TraceTagsFail(i)
      PROVE  TraceCached'
    BY <1>g DEF TraceTagsFail, TraceCached
<1>6. ASSUME NEW i \in DOMAIN tracePush, TraceAppends(i)
      PROVE  TraceCached'
  <2>1. Kept /\ tracePush'[i].rows \subseteq ResourcesUnderWay'
      BY <1>6 DEF TraceAppends, TraceGoes, TraceLeft, Tagging
  <2> QED BY <1>6, <2>1 DEF TraceAppends, TraceGoes, TraceCached
<1>7. ASSUME NEW i \in DOMAIN tracePush, TraceSends(i)
      PROVE  TraceCached'
  <2>1. CASE faults' = faults + 1
      BY <2>1 DEF TraceCached
  <2>2. CASE faults' # faults + 1
    <3>1. /\ ResourcesUnderWay \subseteq ResourcesUnderWay' \cup tracePush[i].rows
          /\ KeysUnderWay \subseteq KeysUnderWay'
        BY <1>7 DEF TraceSends, TraceGoes
    <3>2. /\ traceTable'["resource"] = traceTable["resource"] \cup tracePush[i].rows
          /\ traceTable'["tagkey"] = traceTable["tagkey"]
        BY <1>7, <2>2 DEF TraceSends, TraceShape, TraceTables
    <3> QED BY <1>7, <2>2, <3>1, <3>2 DEF TraceSends, TraceCached
  <2> QED BY <2>1, <2>2
<1>8. ASSUME NEW i \in DOMAIN tracePush, NEW t, TraceWrites(i, t)
      PROVE  TraceCached'
  <2>1. Kept
      BY <1>8 DEF TraceWrites, TraceGoes
  <2>2. traceTable'["resource"] = traceTable["resource"]
          /\ traceTable'["tagkey"] = traceTable["tagkey"]
      BY <1>8 DEF TraceWrites, TraceShape, TraceTables, SpanTables
  <2> QED BY <1>8, <2>1, <2>2 DEF TraceWrites, TraceCached
<1>9. ASSUME NEW i \in DOMAIN tracePush, NEW t, TraceFails(i, t)
      PROVE  TraceCached'
    BY <1>9 DEF TraceFails, TraceCached
<1> QED BY <1>1, <1>2, <1>3, <1>4, <1>5, <1>v, <1>k, <1>g, <1>6, <1>7, <1>8, <1>9
        DEF TraceKinds

(* The steps of the exporter keep its invariant. *)
LEMMA TraceInvStep ==
  ASSUME TraceInv, faults \in Nat, TraceKinds
  PROVE  TraceInv'
PROOF
  BY TraceShapeStep, TraceLeftStep, TraceClosedStep, TraceWrittenStep, TraceCachedStep
    DEF TraceInv

-----------------------------------------------------------------------------
(* The meter exporter. *)

MeterRecord(pc, batch, failed, tries) ==
  [pc |-> pc, batch |-> batch, failed |-> failed, tries |-> tries]

MeterFields(x) == x = MeterRecord(x.pc, x.batch, x.failed, x.tries)

MeterShape ==
  /\ Sequence(meterPush)
  /\ \A i \in DOMAIN meterPush :
       /\ MeterFields(meterPush[i]) /\ meterPush[i].failed \in BOOLEAN
       /\ meterPush[i].pc \in {"enter", "check", "write", "done"}

MeterClosed ==
  meterExp = "closed" => \A i \in DOMAIN meterPush : meterPush[i].pc # "write"

MeterWritten ==
  \A i \in DOMAIN meterPush :
    meterPush[i].pc = "done" /\ ~meterPush[i].failed => MeterRows(i) \subseteq meterTable

MeterInv == MeterShape /\ MeterClosed /\ MeterWritten

(* A step of push i, and the groups of steps. *)
MeterGoes(i, pc, failed) ==
  /\ Sequence(meterPush') /\ DOMAIN meterPush' = DOMAIN meterPush
  /\ \A j \in DOMAIN meterPush : j # i => meterPush'[j] = meterPush[j]
  /\ MeterFields(meterPush'[i]) /\ meterPush'[i].batch = meterPush[i].batch
  /\ meterPush'[i].pc = pc /\ meterPush'[i].failed = failed

MeterMoves(i) ==
  /\ UNCHANGED <<meterTable, meterExp>>
  /\ \/ meterPush[i].pc = "enter" /\ MeterGoes(i, "check", meterPush[i].failed)
     \/ /\ meterPush[i].pc = "check" /\ meterExp = "open"
        /\ MeterGoes(i, "write", meterPush[i].failed)
     \/ meterPush[i].pc \in {"check", "write"} /\ MeterGoes(i, "done", TRUE)
     \/ meterPush[i].pc = "done" /\ MeterGoes(i, "enter", FALSE)

MeterWrites(i) ==
  /\ meterPush[i].pc = "write" /\ UNCHANGED meterExp
  /\ meterTable' = meterTable \cup MeterRows(i)
  /\ MeterGoes(i, "done", meterPush[i].failed)

MeterCloses ==
  /\ UNCHANGED <<meterPush, meterTable>>
  /\ \/ meterExp' = "closing"
     \/ /\ meterExp' = "closed"
        /\ \A i \in DOMAIN meterPush : meterPush[i].pc \in {"enter", "done"}

MeterReceives ==
  /\ UNCHANGED <<meterTable, meterExp>> /\ Sequence(meterPush')
  /\ \E batch : AppendsTo(meterPush, meterPush', NewMeterPush(batch))

MeterIdles == UNCHANGED <<meterPush, meterTable, meterExp>>

MeterActs == MeterCloses \/ \E i \in DOMAIN meterPush : MeterMoves(i) \/ MeterWrites(i)

MeterKinds == MeterActs \/ MeterReceives \/ MeterIdles

(* The steps of the exporter among those of connector and exporter. *)
MeterExports ==
  \/ \E i \in DOMAIN meterPush :
       EnterMeterPush(i) \/ CheckMeterPush(i) \/ WriteMeterBatch(i) \/ RetryMeterPush(i)
  \/ ShutdownMeterExporter \/ CloseMeterConn

(* A push after some of its fields were set: its place; *)
LEMMA MeterPc ==
  ASSUME NEW x, MeterFields(x), NEW u
  PROVE  [x EXCEPT !.pc = u]
           = MeterRecord(u, x.batch, x.failed, x.tries)
PROOF
<1> DEFINE x0 == MeterRecord(x.pc, x.batch, x.failed, x.tries)
           x1 == MeterRecord(u, x.batch, x.failed, x.tries)
<1>1. [x0 EXCEPT !.pc = u] = x1
    BY DEF MeterRecord
<1> HIDE DEF x0
<1>2. x = x0
    BY DEF x0, MeterFields
<1> QED BY <1>1, <1>2

(* another try; *)
LEMMA MeterEntered ==
  ASSUME NEW x, MeterFields(x), NEW u, NEW v
  PROVE  [x EXCEPT !.pc = u, !.tries = v]
           = MeterRecord(u, x.batch, x.failed, v)
PROOF
<1> DEFINE x0 == MeterRecord(x.pc, x.batch, x.failed, x.tries)
           x1 == MeterRecord(u, x.batch, x.failed, x.tries)
           x2 == MeterRecord(u, x.batch, x.failed, v)
<1>1. [x0 EXCEPT !.pc = u] = x1
    BY DEF MeterRecord
<1>2. [x1 EXCEPT !.tries = v] = x2
    BY DEF MeterRecord
<1> HIDE DEF x0, x1
<1>3. x = x0
    BY DEF x0, MeterFields
<1>4. [x EXCEPT !.pc = u, !.tries = v]
        = [[x EXCEPT !.pc = u] EXCEPT !.tries = v]
    OBVIOUS
<1> QED BY <1>1, <1>2, <1>3, <1>4

(* whether it failed. *)
LEMMA MeterFailed ==
  ASSUME NEW x, MeterFields(x), NEW u, NEW v
  PROVE  [x EXCEPT !.pc = u, !.failed = v]
           = MeterRecord(u, x.batch, v, x.tries)
PROOF
<1> DEFINE x0 == MeterRecord(x.pc, x.batch, x.failed, x.tries)
           x1 == MeterRecord(u, x.batch, x.failed, x.tries)
           x2 == MeterRecord(u, x.batch, v, x.tries)
<1>1. [x0 EXCEPT !.pc = u] = x1
    BY DEF MeterRecord
<1>2. [x1 EXCEPT !.failed = v] = x2
    BY DEF MeterRecord
<1> HIDE DEF x0, x1
<1>3. x = x0
    BY DEF x0, MeterFields
<1>4. [x EXCEPT !.pc = u, !.failed = v]
        = [[x EXCEPT !.pc = u] EXCEPT !.failed = v]
    OBVIOUS
<1> QED BY <1>1, <1>2, <1>3, <1>4

(* The push becomes the record. *)
LEMMA MeterGoesIs ==
  ASSUME MeterShape, NEW i \in DOMAIN meterPush, NEW pc, NEW failed, NEW tries,
         SetMeterPush(i, MeterRecord(pc, meterPush[i].batch, failed, tries))
  PROVE  MeterGoes(i, pc, failed)
PROOF
<1> DEFINE rec == MeterRecord(pc, meterPush[i].batch, failed, tries)
<1>1. MeterFields(rec) /\ rec.pc = pc /\ rec.batch = meterPush[i].batch
        /\ rec.failed = failed
    BY DEF MeterRecord, MeterFields
<1> HIDE DEF rec
<1>2. meterPush' = [meterPush EXCEPT ![i] = rec] /\ Sequence(meterPush)
    BY DEF SetMeterPush, rec, MeterShape
<1>3. Sequence(meterPush') /\ SetsAt(meterPush, meterPush', i, rec)
    BY <1>2, SetsAtIs
<1> QED BY <1>1, <1>3 DEF MeterGoes, SetsAt

(* Every step of the exporter is of one of the groups, *)
LEMMA MeterExportsIs ==
  ASSUME MeterShape, MeterExports
  PROVE  MeterActs
PROOF
<1>f. ASSUME NEW i \in DOMAIN meterPush PROVE MeterFields(meterPush[i])
    BY DEF MeterShape
<1>1. ASSUME NEW i \in DOMAIN meterPush, EnterMeterPush(i)
      PROVE  MeterActs
  <2>1. [meterPush[i] EXCEPT !.pc = "check", !.tries = meterPush[i].tries + 1]
          = MeterRecord("check", meterPush[i].batch, meterPush[i].failed,
              meterPush[i].tries + 1)
      BY <1>f, MeterEntered
  <2>2. MeterGoes(i, "check", meterPush[i].failed)
      BY <1>1, <2>1, MeterGoesIs DEF EnterMeterPush
  <2> QED BY <1>1, <2>2 DEF EnterMeterPush, MeterMoves, MeterActs
<1>2. ASSUME NEW i \in DOMAIN meterPush, CheckMeterPush(i)
      PROVE  MeterActs
  <2>1. CASE meterExp # "open"
    <3>1. [meterPush[i] EXCEPT !.pc = "done", !.failed = TRUE]
            = MeterRecord("done", meterPush[i].batch, TRUE, meterPush[i].tries)
        BY <1>f, MeterFailed
    <3>2. MeterGoes(i, "done", TRUE)
        BY <1>2, <2>1, <3>1, MeterGoesIs DEF CheckMeterPush
    <3> QED BY <1>2, <2>1, <3>2 DEF CheckMeterPush, MeterMoves, MeterActs
  <2>2. CASE meterExp = "open"
    <3>1. [meterPush[i] EXCEPT !.pc = "write"]
            = MeterRecord("write", meterPush[i].batch, meterPush[i].failed,
                meterPush[i].tries)
        BY <1>f, MeterPc
    <3>2. MeterGoes(i, "write", meterPush[i].failed)
        BY <1>2, <2>2, <3>1, MeterGoesIs DEF CheckMeterPush
    <3> QED BY <1>2, <2>2, <3>2 DEF CheckMeterPush, MeterMoves, MeterActs
  <2> QED BY <2>1, <2>2
<1>3. ASSUME NEW i \in DOMAIN meterPush, WriteMeterBatch(i)
      PROVE  MeterActs
  <2>1. CASE /\ meterTable' = meterTable \cup MeterRows(i)
             /\ SetMeterPush(i, [meterPush[i] EXCEPT !.pc = "done"])
    <3>1. [meterPush[i] EXCEPT !.pc = "done"]
            = MeterRecord("done", meterPush[i].batch, meterPush[i].failed,
                meterPush[i].tries)
        BY <1>f, MeterPc
    <3>2. MeterGoes(i, "done", meterPush[i].failed)
        BY <2>1, <3>1, MeterGoesIs
    <3> QED BY <1>3, <2>1, <3>2 DEF WriteMeterBatch, MeterWrites, MeterActs
  <2>2. CASE /\ UNCHANGED meterTable
             /\ SetMeterPush(i, [meterPush[i] EXCEPT !.pc = "done", !.failed = TRUE])
    <3>1. [meterPush[i] EXCEPT !.pc = "done", !.failed = TRUE]
            = MeterRecord("done", meterPush[i].batch, TRUE, meterPush[i].tries)
        BY <1>f, MeterFailed
    <3>2. MeterGoes(i, "done", TRUE)
        BY <2>2, <3>1, MeterGoesIs
    <3> QED BY <1>3, <2>2, <3>2 DEF WriteMeterBatch, MeterMoves, MeterActs
  <2> QED BY <1>3, <2>1, <2>2 DEF WriteMeterBatch
<1>4. ASSUME NEW i \in DOMAIN meterPush, RetryMeterPush(i)
      PROVE  MeterActs
  <2>1. [meterPush[i] EXCEPT !.pc = "enter", !.failed = FALSE]
          = MeterRecord("enter", meterPush[i].batch, FALSE, meterPush[i].tries)
      BY <1>f, MeterFailed
  <2>2. MeterGoes(i, "enter", FALSE)
      BY <1>4, <2>1, MeterGoesIs DEF RetryMeterPush
  <2> QED BY <1>4, <2>2 DEF RetryMeterPush, MeterMoves, MeterActs, PushesAgain
<1>5. CASE ShutdownMeterExporter
    BY <1>5 DEF ShutdownMeterExporter, MeterCloses, MeterActs
<1>6. CASE CloseMeterConn
    BY <1>6 DEF CloseMeterConn, MeterCloses, MeterActs
<1> QED BY <1>1, <1>2, <1>3, <1>4, <1>5, <1>6 DEF MeterExports

(* and so is every step of connector and exporter. *)
LEMMA MeterStepIs ==
  ASSUME MeterShape, MeterStep
  PROVE  MeterKinds
PROOF
<1>1. ASSUME NEW f \in Flushers, HandOn(f)
      PROVE  MeterKinds
  <2>1. CASE meterPush' = Append(meterPush, NewMeterPush(meterHeld[f]))
    <3>1. Sequence(meterPush')
            /\ AppendsTo(meterPush, meterPush', NewMeterPush(meterHeld[f]))
        BY <2>1, AppendsToIs DEF MeterShape
    <3> QED BY <1>1, <3>1 DEF HandOn, MeterReceives, MeterKinds
  <2>2. CASE UNCHANGED meterPush
      BY <1>1, <2>2 DEF HandOn, MeterIdles, MeterKinds
  <2> QED BY <1>1, <2>1, <2>2 DEF HandOn
<1>2. CASE MeterStops
    BY <1>2 DEF MeterStops, MeterIdles, MeterKinds
<1> QED BY <1>1, <1>2, MeterExportsIs DEF MeterStep, MeterExports, MeterKinds

(* The pushes keep their shape. *)
LEMMA MeterShapeStep ==
  ASSUME MeterShape, MeterKinds
  PROVE  MeterShape'
PROOF
<1>1. CASE MeterCloses
    BY <1>1 DEF MeterCloses, MeterGoes, MeterShape
<1>2. CASE MeterReceives
  <2>1. PICK batch : AppendsTo(meterPush, meterPush', NewMeterPush(batch))
      BY <1>2 DEF MeterReceives
  <2>2. LET x == NewMeterPush(batch)
        IN  MeterFields(x) /\ x.failed = FALSE /\ x.pc = "enter"
      BY DEF NewMeterPush, MeterFields, MeterRecord
  <2> QED BY <1>2, <2>1, <2>2 DEF MeterReceives, AppendsTo, MeterShape
<1>3. CASE MeterIdles
    BY <1>3 DEF MeterIdles, MeterGoes, MeterShape
<1>4. ASSUME NEW i \in DOMAIN meterPush, MeterMoves(i)
      PROVE  MeterShape'
    BY <1>4 DEF MeterMoves, MeterGoes, MeterShape
<1>5. ASSUME NEW i \in DOMAIN meterPush, MeterWrites(i)
      PROVE  MeterShape'
    BY <1>5 DEF MeterWrites, MeterGoes, MeterShape
<1> QED BY <1>1, <1>2, <1>3, <1>4, <1>5 DEF MeterKinds, MeterActs

(* Nobody writes when the connection is closed. *)
LEMMA MeterClosedStep ==
  ASSUME MeterShape, MeterClosed, MeterKinds
  PROVE  MeterClosed'
PROOF
<1>1. CASE MeterCloses
    BY <1>1 DEF MeterCloses, MeterGoes, MeterClosed
<1>2. CASE MeterReceives
  <2>1. PICK batch : AppendsTo(meterPush, meterPush', NewMeterPush(batch))
      BY <1>2 DEF MeterReceives
  <2>2. LET x == NewMeterPush(batch)
        IN  MeterFields(x) /\ x.failed = FALSE /\ x.pc = "enter"
      BY DEF NewMeterPush, MeterFields, MeterRecord
  <2> QED BY <1>2, <2>1, <2>2 DEF MeterReceives, AppendsTo, MeterClosed
<1>3. CASE MeterIdles
    BY <1>3 DEF MeterIdles, MeterGoes, MeterClosed
<1>4. ASSUME NEW i \in DOMAIN meterPush, MeterMoves(i)
      PROVE  MeterClosed'
    BY <1>4 DEF MeterMoves, MeterGoes, MeterClosed
<1>5. ASSUME NEW i \in DOMAIN meterPush, MeterWrites(i)
      PROVE  MeterClosed'
    BY <1>5 DEF MeterWrites, MeterGoes, MeterClosed
<1> QED BY <1>1, <1>2, <1>3, <1>4, <1>5 DEF MeterKinds, MeterActs

(* What a push has written stays written. *)
LEMMA MeterWrittenStep ==
  ASSUME MeterShape, MeterWritten, MeterKinds
  PROVE  MeterWritten'
PROOF
<1>1. CASE MeterCloses
    BY <1>1 DEF MeterCloses, MeterGoes, MeterWritten, MeterRows, MeterShape
<1>2. CASE MeterReceives
  <2>1. PICK batch : AppendsTo(meterPush, meterPush', NewMeterPush(batch))
      BY <1>2 DEF MeterReceives
  <2>2. LET x == NewMeterPush(batch)
        IN  MeterFields(x) /\ x.failed = FALSE /\ x.pc = "enter"
      BY DEF NewMeterPush, MeterFields, MeterRecord
  <2> QED BY <1>2, <2>1, <2>2 DEF MeterReceives, AppendsTo, MeterWritten, MeterRows
<1>3. CASE MeterIdles
    BY <1>3 DEF MeterIdles, MeterGoes, MeterWritten, MeterRows, MeterShape
<1>4. ASSUME NEW i \in DOMAIN meterPush, MeterMoves(i)
      PROVE  MeterWritten'
    BY <1>4 DEF MeterMoves, MeterGoes, MeterWritten, MeterRows, MeterShape
<1>5. ASSUME NEW i \in DOMAIN meterPush, MeterWrites(i)
      PROVE  MeterWritten'
    BY <1>5 DEF MeterWrites, MeterGoes, MeterWritten, MeterRows, MeterShape
<1> QED BY <1>1, <1>2, <1>3, <1>4, <1>5 DEF MeterKinds, MeterActs

(* The steps of the exporter keep its invariant. *)
LEMMA MeterInvStep ==
  ASSUME MeterInv, MeterKinds
  PROVE  MeterInv'
PROOF
  BY MeterShapeStep, MeterClosedStep, MeterWrittenStep DEF MeterInv

-----------------------------------------------------------------------------
(* The aggregate of the processor. *)

(* An aggregate: a histogram for a key is there only with dimensions. *)
WellFormed(a) ==
  /\ a = [hist |-> a.hist, cache |-> a.cache, operations |-> a.operations]
  /\ a.hist = [k \in Kinds |-> a.hist[k]] /\ a.cache = [k \in Kinds |-> a.cache[k]]
  /\ \A k \in Kinds : /\ a.cache[k] = [lru |-> a.cache[k].lru, dims |-> a.cache[k].dims]
                      /\ DOMAIN a.hist[k] \subseteq DOMAIN a.cache[k].dims

Aggregate == [hist |-> hist, cache |-> cache, operations |-> operations]

AggregateInv == WellFormed(Aggregate)

(* A key that is looked up or added is in the cache, and none drops out. *)
LEMMA CachedHas ==
  ASSUME NEW c, c = [lru |-> c.lru, dims |-> c.dims], NEW key, NEW dims
  PROVE  LET d == Cached(c, key, dims)
         IN  /\ d = [lru |-> d.lru, dims |-> d.dims]
             /\ DOMAIN c.dims \cup {key} \subseteq DOMAIN d.dims
PROOF
<1>1. CASE key \in DOMAIN c.dims
  <2> DEFINE lru == Touch(c.lru, key)
  <2>1. Cached(c, key, dims) = [c EXCEPT !.lru = lru]
      BY <1>1 DEF Cached, Get
  <2> HIDE DEF lru
  <2> QED BY <1>1, <2>1
<1>2. CASE key \notin DOMAIN c.dims
  <2> DEFINE lru == Newest(Append(c.lru, key))
  <2>1. Cached(c, key, dims)
          = [lru  |-> lru,
             dims |-> [k \in DOMAIN c.dims \cup {key} |-> IF k = key THEN dims ELSE c.dims[k]]]
      BY <1>2 DEF Cached, Add
  <2> HIDE DEF lru
  <2> QED BY <2>1
<1> QED BY <1>1, <1>2

(* One observation: the histogram and the cache of one kind of metric. *)
Observes(a, b, kind, key, dims) ==
  /\ WellFormed(b)
  /\ b.hist[kind] = UpdateHistogram(a.hist[kind], key)
  /\ b.cache[kind] = Cached(a.cache[kind], key, dims)
  /\ \A k \in Kinds : k # kind => b.hist[k] = a.hist[k] /\ b.cache[k] = a.cache[k]

(* A key is observed with its dimensions. *)
LEMMA ObserveIs ==
  ASSUME NEW a, WellFormed(a), NEW kind \in Kinds, NEW key, NEW dims
  PROVE  /\ Observes(a, Observe(a, kind, key, dims), kind, key, dims)
         /\ Observe(a, kind, key, dims).operations = a.operations
PROOF
<1> DEFINE d == Cached(a.cache[kind], key, dims)
           h == UpdateHistogram(a.hist[kind], key)
           b == [hist |-> [a.hist EXCEPT ![kind] = h], cache |-> [a.cache EXCEPT ![kind] = d],
                 operations |-> a.operations]
<1>1. /\ d = [lru |-> d.lru, dims |-> d.dims]
      /\ DOMAIN a.cache[kind].dims \cup {key} \subseteq DOMAIN d.dims
    BY CachedHas DEF WellFormed
<1>2. DOMAIN h = DOMAIN a.hist[kind] \cup {key}
    BY DEF UpdateHistogram
<1>3. Observe(a, kind, key, dims)
        = [a EXCEPT !.cache = [a.cache EXCEPT ![kind] = d],
                    !.hist = [a.hist EXCEPT ![kind] = h]]
  <2>1. Observe(a, kind, key, dims) = [a EXCEPT !.cache[kind] = d, !.hist[kind] = h]
      BY DEF Observe, WellFormed
  <2> HIDE DEF d, h
  <2> QED BY <2>1 DEF WellFormed
<1>h. h = UpdateHistogram(a.hist[kind], key) /\ d = Cached(a.cache[kind], key, dims)
    OBVIOUS
<1> HIDE DEF d, h
<1>4. Observe(a, kind, key, dims) = b
    BY <1>3 DEF WellFormed
<1>5. WellFormed(b)
    BY <1>1, <1>2 DEF WellFormed
<1>6. /\ b.hist[kind] = h /\ b.cache[kind] = d /\ b.operations = a.operations
      /\ \A k \in Kinds : k # kind => b.hist[k] = a.hist[k] /\ b.cache[k] = a.cache[k]
    BY DEF WellFormed
<1> HIDE DEF b
<1> QED BY <1>4, <1>5, <1>6, <1>h DEF Observes

(* The observations of a span: of its operation, *)
OperationKey(ops, span) == <<AddTimeToKey(span)>> \o TrackedName(ops, span) \o <<span.kind>>

ObservesOperation(a, b, kind, span) ==
  /\ b.operations = Tracked(a.operations, TrackedName(a.operations, span))
  /\ Observes(a, b, kind, OperationKey(a.operations, span),
              TrackedName(b.operations, span) \o <<span.kind>>)

(* and of a call to others. *)
ObservesCustom(a, b, kind, span, extra) ==
  /\ b.operations = a.operations
  /\ Observes(a, b, kind, CustomKey(span, extra), CustomDimensions(span, extra))

(* An operation is observed. *)
LEMMA ObserveOperationIs ==
  ASSUME NEW a, WellFormed(a), NEW kind \in Kinds, NEW span
  PROVE  ObservesOperation(a, ObserveOperation(a, kind, span), kind, span)
PROOF
<1> DEFINE name == TrackedName(a.operations, span)
           ops  == Tracked(a.operations, name)
           b    == [a EXCEPT !.operations = ops]
           key  == <<AddTimeToKey(span)>> \o name \o <<span.kind>>
           dims == TrackedName(ops, span) \o <<span.kind>>
<1>1. ObserveOperation(a, kind, span) = Observe(b, kind, key, dims)
    BY DEF ObserveOperation
<1>2. WellFormed(b) /\ b.operations = ops /\ b.hist = a.hist /\ b.cache = a.cache
  <2> HIDE DEF ops
  <2> QED BY DEF WellFormed
<1>3. ops = Tracked(a.operations, TrackedName(a.operations, span))
    OBVIOUS
<1>4. key = OperationKey(a.operations, span) /\ dims = TrackedName(ops, span) \o <<span.kind>>
    BY DEF OperationKey
<1> HIDE DEF b, key, dims, ops
<1>5. /\ Observes(b, Observe(b, kind, key, dims), kind, key, dims)
      /\ Observe(b, kind, key, dims).operations = ops
    BY <1>2, ObserveIs
<1>6. Observes(a, Observe(b, kind, key, dims), kind, key, dims)
    BY <1>2, <1>5 DEF Observes
<1> QED BY <1>1, <1>3, <1>4, <1>5, <1>6 DEF ObservesOperation

(* A call to others is. *)
LEMMA ObserveCustomIs ==
  ASSUME NEW a, WellFormed(a), NEW kind \in Kinds, NEW span, NEW extra
  PROVE  ObservesCustom(a, ObserveCustom(a, kind, span, extra), kind, span, extra)
PROOF
  BY ObserveIs DEF ObserveCustom, ObservesCustom

(* What a span that is aggregated is observed in, one after the other. *)
ObservesSpan(a, b, span) ==
  \E latency, exp, calls, external :
    /\ ObservesOperation(a, latency, "latency", span)
    /\ IF setting.exp THEN ObservesOperation(latency, exp, "exp", span) ELSE exp = latency
    /\ ObservesOperation(exp, calls, "calls", span)
    /\ IF IsExternalCall(span)
       THEN ObservesCustom(calls, external, "external", span, <<RemoteAddress(span)>>)
       ELSE external = calls
    /\ IF IsDbCall(span) THEN ObservesCustom(external, b, "db", span, << >>) ELSE b = external

(* They leave every histogram with its dimensions. *)
LEMMA AggregateIs ==
  ASSUME NEW a, WellFormed(a), NEW span
  PROVE  /\ ObservesSpan(a, AggregateMetricsForSpan(a, span), span)
         /\ WellFormed(AggregateMetricsForSpan(a, span))
PROOF
<1> DEFINE latency  == ObserveOperation(a, "latency", span)
           exp      == IF setting.exp THEN ObserveOperation(latency, "exp", span) ELSE latency
           calls    == ObserveOperation(exp, "calls", span)
           external == IF IsExternalCall(span)
                       THEN ObserveCustom(calls, "external", span, <<RemoteAddress(span)>>)
                       ELSE calls
           db       == IF IsDbCall(span) THEN ObserveCustom(external, "db", span, << >>)
                       ELSE external
<1>0. {"latency", "exp", "calls", "external", "db"} \subseteq Kinds
    BY DEF Kinds
<1>w. \A b, c, kind, extra : /\ ObservesOperation(b, c, kind, span) => WellFormed(c)
                             /\ ObservesCustom(b, c, kind, span, extra) => WellFormed(c)
    BY DEF ObservesOperation, ObservesCustom, Observes
<1>1. ObservesOperation(a, latency, "latency", span)
    BY <1>0, ObserveOperationIs
<1>a. db = AggregateMetricsForSpan(a, span)
    BY DEF AggregateMetricsForSpan
<1> HIDE DEF latency
<1>2. /\ IF setting.exp THEN ObservesOperation(latency, exp, "exp", span) ELSE exp = latency
      /\ WellFormed(exp)
    BY <1>0, <1>1, <1>w, ObserveOperationIs
<1> HIDE DEF exp
<1>3. ObservesOperation(exp, calls, "calls", span)
    BY <1>0, <1>2, ObserveOperationIs
<1> HIDE DEF calls
<1>4. /\ IF IsExternalCall(span)
         THEN ObservesCustom(calls, external, "external", span, <<RemoteAddress(span)>>)
         ELSE external = calls
      /\ WellFormed(external)
    BY <1>0, <1>3, <1>w, ObserveCustomIs
<1> HIDE DEF external
<1>5. /\ IF IsDbCall(span) THEN ObservesCustom(external, db, "db", span, << >>)
         ELSE db = external
      /\ WellFormed(db)
    BY <1>0, <1>4, <1>w, ObserveCustomIs
<1> HIDE DEF db
<1> QED BY <1>1, <1>2, <1>3, <1>4, <1>5, <1>a DEF ObservesSpan

(* Spans are aggregated. *)
LEMMA AggregateMetricsStep ==
  ASSUME AggregateInv, NEW span, AggregateMetrics(span)
  PROVE  /\ AggregateInv'
         /\ IF Aggregated(span) THEN ObservesSpan(Aggregate, Aggregate', span)
            ELSE UNCHANGED aggregate
PROOF
<1> DEFINE b == IF Aggregated(span) THEN AggregateMetricsForSpan(Aggregate, span) ELSE Aggregate
<1>1. WellFormed(b) /\ (Aggregated(span) => ObservesSpan(Aggregate, b, span))
    BY AggregateIs DEF AggregateInv
<1>2. hist' = b.hist /\ cache' = b.cache /\ operations' = b.operations
    BY DEF AggregateMetrics, Aggregate
<1>3. ~Aggregated(span) => UNCHANGED aggregate
    BY <1>2 DEF Aggregate, aggregate
<1> HIDE DEF b
<1>4. [hist |-> hist', cache |-> cache', operations |-> operations'] = b
    BY <1>1, <1>2 DEF WellFormed
<1>5. AggregateInv'
    BY <1>1, <1>4 DEF AggregateInv, Aggregate, WellFormed
<1> QED BY <1>1, <1>3, <1>4, <1>5 DEF Aggregate

(* A flush drops histograms whose dimensions it drops. *)
LEMMA BuildMetricsStep ==
  ASSUME AggregateInv, BuildMetrics
  PROVE  AggregateInv'
PROOF
<1>1. CASE setting.delta
    BY <1>1 DEF BuildMetrics, ResetAccumulatedMetrics, NewCache, AggregateInv, Aggregate,
        WellFormed
<1>2. ASSUME NEW order,
             cache' = [k \in Kinds |-> AfterCollect(k, order[k])],
             hist' = [k \in Kinds |-> KeepOnly(k, order[k])]
      PROVE  AggregateInv'
  <2>1. ASSUME NEW k \in Kinds
        PROVE  /\ cache'[k] = [lru |-> cache'[k].lru, dims |-> cache'[k].dims]
               /\ DOMAIN hist'[k] \subseteq DOMAIN cache'[k].dims
    <3> DEFINE lru == FoldLeft(Touch, cache[k].lru, order[k])
               c   == [cache[k] EXCEPT !.lru = lru]
               d   == [lru |-> lru, dims |-> Recent(cache[k].dims, lru)]
    <3>1. cache'[k] = RemoveEvictedItems(c) /\ hist'[k] = Recent(hist[k], cache'[k].lru)
        BY <1>2 DEF AfterCollect, KeepOnly
    <3> HIDE DEF lru
    <3>2. /\ cache[k] = [lru |-> cache[k].lru, dims |-> cache[k].dims]
          /\ DOMAIN hist[k] \subseteq DOMAIN cache[k].dims
        BY DEF AggregateInv, Aggregate, WellFormed
    <3>3. c = [lru |-> lru, dims |-> cache[k].dims]
        BY <3>2
    <3>a. RemoveEvictedItems(c) = [c EXCEPT !.dims = Recent(c.dims, c.lru)]
        BY DEF RemoveEvictedItems
    <3> HIDE DEF c
    <3>4. RemoveEvictedItems(c) = d
        BY <3>3, <3>a
    <3>5. /\ DOMAIN Recent(cache[k].dims, lru) = DOMAIN cache[k].dims \cap Range(lru)
          /\ DOMAIN Recent(hist[k], lru) = DOMAIN hist[k] \cap Range(lru)
        BY DEF Recent, Restrict
    <3>6. cache'[k].lru = lru /\ cache'[k].dims = Recent(cache[k].dims, lru)
        BY <3>1, <3>4
    <3> QED BY <3>1, <3>2, <3>4, <3>5, <3>6
  <2> QED BY <1>2, <2>1 DEF AggregateInv, Aggregate, WellFormed
<1> QED BY <1>1, <1>2 DEF BuildMetrics

-----------------------------------------------------------------------------
(* The pipeline. *)

IInv == AggregateInv /\ MetricInv /\ TraceInv /\ MeterInv /\ faults \in Nat

(* Statements that failed are counted, and the pipeline is for each part one *)
(* of its steps.                                                             *)
StepsOf ==
  /\ faults' \in {faults, faults + 1}
  /\ UNCHANGED aggregate \/ BuildMetrics \/ \E span : AggregateMetrics(span)
  /\ MetricKinds /\ TraceKinds /\ MeterKinds

(* Every step of the pipeline is one of each part. *)
LEMMA StepIs ==
  ASSUME IInv, [Next]_vars
  PROVE  StepsOf
PROOF
<1>s. Sequence(tracePush) /\ Sequence(metricPush) /\ TraceShape /\ MetricShape /\ MeterShape
    BY DEF IInv, TraceInv, TraceShape, MetricInv, MetricShape, MeterInv
<1>a. MetricExporterStep => faults' \in {faults, faults + 1}
    BY DEF MetricExporterStep, EnterMetricPush, CheckMetricPush, AppendTimeSeries,
        SendTimeSeries,
        WriteTable, Sent, NotSent, StatementFails, JoinMetricErrors, RetryMetricPush,
        ShutdownMetricExporter, CloseMetricConn
<1>b. TraceExporterStep => faults' \in {faults, faults + 1}
    BY DEF TraceExporterStep, EnterTracePush, CheckTracePush, WriteSpans, AppendTags,
        SendTagValues, SendTagKeys, TagsFail,
        WriteResources,
        SendResources, StatementFails, RetryTracePush, ShutdownTraceExporter, CloseWriter
<1>c. MeterStep => faults' \in {faults, faults + 1}
    BY DEF MeterStep, HandOn, MeterStops, EnterMeterPush, CheckMeterPush, WriteMeterBatch,
        RetryMeterPush, ShutdownMeterExporter, CloseMeterConn, StatementFails
<1>1. ASSUME NEW span \in setting.spans, ConsumeTraces(span)
      PROVE  StepsOf
  <2>0. \/ UNCHANGED faults
        \/ StatementFails /\ UNCHANGED tracePush
      BY <1>1 DEF ConsumeTraces
  <2>1. TraceKinds
    <3>1. CASE tracePush' = Append(tracePush, NewTracePush(Forwarded(span))) /\ UNCHANGED faults
      <4>1. /\ Sequence(tracePush')
            /\ AppendsTo(tracePush, tracePush', NewTracePush(Forwarded(span)))
          BY <3>1, <1>s, AppendsToIs
      <4> QED BY <1>1, <3>1, <4>1 DEF ConsumeTraces, TraceReceives, TraceKinds
    <3>2. CASE tracePush' = tracePush
        BY <1>1, <2>0, <3>2 DEF ConsumeTraces, TraceIdles, TraceKinds, traceVars, StatementFails
    <3> QED BY <1>1, <3>1, <3>2 DEF ConsumeTraces
  <2>2. MetricKinds
      BY <1>1, <2>0 DEF ConsumeTraces, MetricIdles, MetricKinds, StatementFails
  <2>3. MeterKinds
      BY <1>1 DEF ConsumeTraces, MeterIdles, MeterKinds
  <2>4. faults' \in {faults, faults + 1} /\ \E s : AggregateMetrics(s)
      BY <1>1, <2>0 DEF ConsumeTraces, StatementFails
  <2> QED BY <2>1, <2>2, <2>3, <2>4 DEF StepsOf
<1>2. CASE ExportMetrics
  <2>0. \/ UNCHANGED faults
        \/ StatementFails /\ UNCHANGED metricPush
      BY <1>2 DEF ExportMetrics
  <2>1. MetricKinds
    <3>1. ASSUME NEW points, metricPush' = Append(metricPush, NewMetricPush(points)),
                 UNCHANGED faults
          PROVE  MetricKinds
      <4>1. Sequence(metricPush')
              /\ AppendsTo(metricPush, metricPush', NewMetricPush(points))
          BY <3>1, <1>s, AppendsToIs
      <4> QED BY <1>2, <3>1, <4>1 DEF ExportMetrics, MetricReceives, MetricKinds
    <3>2. CASE metricPush' = metricPush
        BY <1>2, <2>0, <3>2 DEF ExportMetrics, MetricIdles, MetricKinds, metricVars,
            StatementFails
    <3> QED BY <1>2, <3>1, <3>2 DEF ExportMetrics
  <2>2. TraceKinds
      BY <1>2, <2>0 DEF ExportMetrics, TraceIdles, TraceKinds, traceVars, StatementFails
  <2>3. MeterKinds
      BY <1>2 DEF ExportMetrics, MeterIdles, MeterKinds, meterVars, connectorVars
  <2>4. faults' \in {faults, faults + 1} /\ BuildMetrics
      BY <1>2, <2>0 DEF ExportMetrics, StatementFails
  <2> QED BY <2>1, <2>2, <2>3, <2>4 DEF StepsOf
<1>3. ASSUME NEW point \in setting.points, ReceivePoint(point)
      PROVE  StepsOf
  <2>1. MetricKinds
    <3>1. ASSUME NEW points, metricPush' = Append(metricPush, NewMetricPush(points))
          PROVE  MetricKinds
      <4>1. Sequence(metricPush')
              /\ AppendsTo(metricPush, metricPush', NewMetricPush(points))
          BY <3>1, <1>s, AppendsToIs
      <4> QED BY <1>3, <4>1 DEF ReceivePoint, MetricReceives, MetricKinds
    <3>2. CASE metricPush' = metricPush
        BY <1>3, <3>2 DEF ReceivePoint, MetricIdles, MetricKinds, metricVars
    <3> QED BY <1>3, <3>1, <3>2 DEF ReceivePoint
  <2>2. TraceKinds
      BY <1>3 DEF ReceivePoint, TraceIdles, TraceKinds, traceVars
  <2>3. MeterKinds
      BY <1>3 DEF ReceivePoint, MeterIdles, MeterKinds, meterVars, connectorVars
  <2>4. faults' = faults /\ UNCHANGED aggregate
      BY <1>3 DEF ReceivePoint
  <2> QED BY <2>1, <2>2, <2>3, <2>4 DEF StepsOf
<1>4. CASE ShutdownProcessor
  <2>1. MeterKinds /\ faults' = faults /\ UNCHANGED aggregate
      BY <1>4 DEF ShutdownProcessor, MeterIdles, MeterKinds, meterVars, connectorVars
  <2>2. TraceKinds
      BY <1>4, <2>1 DEF ShutdownProcessor, TraceIdles, TraceKinds, traceVars
  <2>3. MetricKinds
      BY <1>4, <2>1 DEF ShutdownProcessor, MetricIdles, MetricKinds, metricVars
  <2> QED BY <2>1, <2>2, <2>3 DEF StepsOf
<1>5. CASE LoopReturns
  <2>1. MeterKinds /\ faults' = faults /\ UNCHANGED aggregate
      BY <1>5 DEF LoopReturns, MeterIdles, MeterKinds, meterVars, connectorVars
  <2>2. TraceKinds
      BY <1>5, <2>1 DEF LoopReturns, TraceIdles, TraceKinds, traceVars
  <2>3. MetricKinds
      BY <1>5, <2>1 DEF LoopReturns, MetricIdles, MetricKinds, metricVars
  <2> QED BY <2>1, <2>2, <2>3 DEF StepsOf
<1>6. CASE FlushMeter
  <2>1. MeterKinds /\ faults' = faults /\ UNCHANGED aggregate
      BY <1>6 DEF FlushMeter, MeterIdles, MeterKinds, meterVars, connectorVars, MeterTick
  <2>2. TraceKinds
      BY <1>6, <2>1 DEF FlushMeter, TraceIdles, TraceKinds, traceVars
  <2>3. MetricKinds
      BY <1>6, <2>1 DEF FlushMeter, MetricIdles, MetricKinds, metricVars
  <2> QED BY <2>1, <2>2, <2>3 DEF StepsOf
<1>7. CASE StopMeter
  <2>1. MeterKinds /\ faults' = faults /\ UNCHANGED aggregate
      BY <1>7 DEF StopMeter, MeterIdles, MeterKinds, meterVars, connectorVars, ShutdownMeter
  <2>2. TraceKinds
      BY <1>7, <2>1 DEF StopMeter, TraceIdles, TraceKinds, traceVars
  <2>3. MetricKinds
      BY <1>7, <2>1 DEF StopMeter, MetricIdles, MetricKinds, metricVars
  <2> QED BY <2>1, <2>2, <2>3 DEF StepsOf
<1>8. CASE /\ MetricExporterStep
          /\ UNCHANGED <<setting, aggregate, traceVars, meterVars, processor, now, counts>>
  <2>1. MetricKinds
      BY <1>8, <1>s, MetricStepIs DEF MetricKinds
  <2>2. faults' \in {faults, faults + 1}
      BY <1>8, <1>a
  <2>3. TraceKinds
      BY <1>8, <2>2 DEF TraceIdles, TraceKinds, traceVars
  <2>4. MeterKinds
      BY <1>8, <2>2 DEF MeterIdles, MeterKinds, meterVars, connectorVars
  <2> QED BY <1>8, <2>1, <2>2, <2>3, <2>4 DEF StepsOf
<1>9. CASE /\ TraceExporterStep
          /\ UNCHANGED <<setting, aggregate, metricVars, meterVars, processor, now, counts>>
  <2>1. TraceKinds
      BY <1>9, <1>s, TraceStepIs
  <2>2. faults' \in {faults, faults + 1}
      BY <1>9, <1>b
  <2>3. MetricKinds
      BY <1>9, <2>2 DEF MetricIdles, MetricKinds, metricVars
  <2>4. MeterKinds
      BY <1>9, <2>2 DEF MeterIdles, MeterKinds, meterVars, connectorVars
  <2> QED BY <1>9, <2>1, <2>2, <2>3, <2>4 DEF StepsOf
<1>10. CASE /\ MeterStep
          /\ UNCHANGED <<setting, aggregate, metricVars, traceVars, processor, now, counts>>
  <2>1. MeterKinds
      BY <1>10, <1>s, MeterStepIs
  <2>2. faults' \in {faults, faults + 1}
      BY <1>10, <1>c
  <2>3. MetricKinds
      BY <1>10, <2>2 DEF MetricIdles, MetricKinds, metricVars
  <2>4. TraceKinds
      BY <1>10, <2>2 DEF TraceIdles, TraceKinds, traceVars
  <2> QED BY <1>10, <2>1, <2>2, <2>3, <2>4 DEF StepsOf
<1>11. CASE UNCHANGED vars
  <2>1. faults' = faults /\ UNCHANGED aggregate
      BY <1>11 DEF vars
  <2>2. MetricKinds
      BY <1>11 DEF vars, metricVars, MetricIdles, MetricKinds
  <2>3. TraceKinds
      BY <1>11 DEF vars, traceVars, TraceIdles, TraceKinds
  <2>4. MeterKinds
      BY <1>11 DEF vars, meterVars, connectorVars, MeterIdles, MeterKinds
  <2> QED BY <2>1, <2>2, <2>3, <2>4 DEF StepsOf
<1> QED BY <1>1, <1>2, <1>3, <1>4, <1>5, <1>6, <1>7, <1>8, <1>9, <1>10, <1>11 DEF Next

(* The invariant holds before the first span. *)
LEMMA InitInv ==
  ASSUME Init
  PROVE  IInv
PROOF
<1>1. Sequence(<< >>)
    BY DEF Sequence, Range
<1>2. AggregateInv
    BY DEF Init, InitAggregate, NewCache, AggregateInv, Aggregate, WellFormed
<1>3. MetricInv
    BY <1>1 DEF Init, InitMetricExporter, MetricInv, MetricShape, MetricLeft, MetricClosed,
        MetricWritten, MetricCached
<1>4. TraceInv
    BY <1>1 DEF Init, InitTraceExporter, TraceInv, TraceShape, TraceLeft, TraceClosed,
        TraceWritten, TraceCached
<1>5. MeterInv
    BY <1>1 DEF Init, InitMeter, MeterInv, MeterShape, MeterClosed, MeterWritten
<1> QED BY <1>2, <1>3, <1>4, <1>5 DEF Init, IInv

(* Every step keeps the invariant. *)
LEMMA IInvStep ==
  ASSUME IInv, [Next]_vars
  PROVE  IInv'
PROOF
<1>1. StepsOf
    BY StepIs
<1>2. faults' \in Nat
    BY <1>1 DEF StepsOf, IInv
<1>3. AggregateInv'
    BY <1>1, AggregateMetricsStep, BuildMetricsStep
      DEF StepsOf, IInv, aggregate, AggregateInv, Aggregate, WellFormed
<1>4. MetricInv' /\ TraceInv' /\ MeterInv'
    BY <1>1, MetricInvStep, TraceInvStep, MeterInvStep DEF StepsOf, IInv
<1> QED BY <1>2, <1>3, <1>4 DEF IInv

(* The inductive invariant holds in every state: the parts of the aggregate *)
(* agree, and every push of the three exporters has written what it is      *)
(* past, whatever the others do meanwhile.                                  *)
THEOREM Invariant == Spec => []IInv
PROOF
<1>1. Init => IInv
    BY InitInv
<1>2. IInv /\ [Next]_vars => IInv'
    BY IInvStep
<1> QED BY <1>1, <1>2, PTL DEF Spec

(* Every histogram has its dimensions in the cache when it is collected,    *)
(* also with more keys than the cache holds: buildMetrics never fails.      *)
THEOREM DimensionsFound == Spec => []CollectFindsDimensions
PROOF
<1>1. IInv => CollectFindsDimensions
    BY DEF IInv, AggregateInv, Aggregate, WellFormed, CollectFindsDimensions
<1> QED BY <1>1, Invariant, PTL

(* No exporter writes through a connection its Shutdown has closed, also    *)
(* when the processor flushes or exporterhelper retries afterwards.         *)
THEOREM NothingWrittenAfterClose == Spec => []NoWriteAfterClose
PROOF
<1>1. IInv => NoWriteAfterClose
    BY DEF IInv, MetricInv, MetricClosed, TraceInv, TraceClosed, MeterInv, MeterClosed,
        NoWriteAfterClose
<1> QED BY <1>1, Invariant, PTL

(* A push that returned without an error has its rows in the tables; time   *)
(* series, tags and resources, which the caches decide on, are stored or in *)
(* the statement of another push as long as no statement has failed.        *)
THEOREM AckedIsStored == Spec => []AckedStored
PROOF
<1>1. ASSUME IInv, NEW i \in DOMAIN metricPush, metricPush[i].pc = "done",
        ~metricPush[i].failed
      PROVE  LET rows == PrepareBatch(metricPush[i].points)
             IN  /\ \A t \in {"samples", "exphist"} : rows[t] \subseteq metricTable[t]
                 /\ faults = 0 => rows.ts \subseteq metricTable["ts"] \cup SeriesUnderWay
    BY <1>1 DEF IInv, MetricInv, MetricLeft, MetricWritten, MetricRowsOf, MetricCached
<1>2. ASSUME IInv, NEW i \in DOMAIN tracePush, tracePush[i].pc = "done",
        ~tracePush[i].failed
      PROVE  LET rows == NewStructuredSpan(tracePush[i].span)
             IN  /\ \A t \in {"index", "error"} : rows[t] \subseteq traceTable[t]
                 /\ faults = 0 =>
                    /\ rows.tag \subseteq traceTable["tag"]
                    /\ rows.tagkey \subseteq traceTable["tagkey"] \cup KeysUnderWay
                    /\ rows.resource \subseteq traceTable["resource"] \cup ResourcesUnderWay
    BY <1>2 DEF IInv, TraceInv, TraceLeft, TraceWritten, TraceRowsOf, TraceCached
<1>3. ASSUME IInv, NEW i \in DOMAIN meterPush, meterPush[i].pc = "done",
        ~meterPush[i].failed
      PROVE  MeterRows(i) \subseteq meterTable
    BY <1>3 DEF IInv, MeterInv, MeterWritten
<1>4. IInv => AckedStored
    BY <1>1, <1>2, <1>3 DEF AckedStored
<1> QED BY <1>4, Invariant, PTL

-----------------------------------------------------------------------------
(* Every call is counted once. *)

(* Tuples put together. *)
LEMMA TwoAndOne ==
  ASSUME NEW t, NEW a, NEW b
  PROVE  <<t, a>> \o <<b>> = <<t, a, b>>
PROOF
<1> DEFINE S == {t, a, b}
           s == <<t, a>> \o <<b>>
           u == <<t, a, b>>
<1>1. <<t, a>> \in Seq(S) /\ <<b>> \in Seq(S)
    OBVIOUS
<1>2. s \in Seq(S) /\ Len(s) = 3 /\ s[1] = t /\ s[2] = a /\ s[3] = b
    BY <1>1
<1>3. u \in Seq(S) /\ Len(u) = 3 /\ u[1] = t /\ u[2] = a /\ u[3] = b
    OBVIOUS
<1> HIDE DEF s, S, u
<1>4. \A i \in 1..Len(s) : s[i] = u[i]
    BY <1>2, <1>3
<1>5. s = u
    BY <1>2, <1>3, <1>4, SeqEqual
<1> QED BY <1>5 DEF s, u

(* The key of an operation. *)
LEMMA OneTwoOne ==
  ASSUME NEW t, NEW a, NEW b, NEW c
  PROVE  <<t>> \o <<a, b>> \o <<c>> = <<t, a, b, c>>
PROOF
<1> DEFINE S == {t, a, b, c}
           r == <<t>> \o <<a, b>>
           s == r \o <<c>>
           u == <<t, a, b, c>>
<1>1. <<t>> \in Seq(S) /\ <<a, b>> \in Seq(S) /\ <<c>> \in Seq(S)
    OBVIOUS
<1>2. r \in Seq(S) /\ Len(r) = 3 /\ r[1] = t /\ r[2] = a /\ r[3] = b
    BY <1>1
<1>3. s \in Seq(S) /\ Len(s) = 4 /\ s[1] = t /\ s[2] = a /\ s[3] = b /\ s[4] = c
    BY <1>1, <1>2
<1>4. u \in Seq(S) /\ Len(u) = 4 /\ u[1] = t /\ u[2] = a /\ u[3] = b /\ u[4] = c
    OBVIOUS
<1> HIDE DEF s, S, u
<1>5. \A i \in 1..Len(s) : s[i] = u[i]
    BY <1>3, <1>4
<1>6. s = u
    BY <1>3, <1>4, <1>5, SeqEqual
<1> QED BY <1>6 DEF s, u

(* The key of an operation is one of the processor's. *)
LEMMA OperationKeyIs ==
  ASSUME NEW ops, NEW span
  PROVE  LET name == TrackedName(ops, span)
         IN  /\ name = <<name[1], name[2]>>
             /\ OperationKey(ops, span) = <<AddTimeToKey(span), name[1], name[2], span.kind>>
             /\ OperationKey(ops, span) # NoKey
PROOF
<1> DEFINE name == TrackedName(ops, span)
<1>1. name = <<name[1], name[2]>>
    BY DEF TrackedName
<1> HIDE DEF name
<1>2. <<AddTimeToKey(span)>> \o name \o <<span.kind>>
        = <<AddTimeToKey(span), name[1], name[2], span.kind>>
    BY <1>1, OneTwoOne
<1>3. OperationKey(ops, span) = <<AddTimeToKey(span), name[1], name[2], span.kind>>
    BY <1>2 DEF OperationKey, name
<1>4. <<AddTimeToKey(span), name[1], name[2], span.kind>> # << >>
    OBVIOUS
<1> QED BY <1>1, <1>3, <1>4 DEF name, NoKey

(* The counts of an aggregate. *)
Counted(a) ==
  /\ \A k \in Kinds : Counts(a.hist[k])
  /\ \A key \in DOMAIN a.hist["calls"] : key # NoKey

(* An observation counts one. *)
LEMMA UpdateCounts ==
  ASSUME NEW h, Counts(h), NEW key
  PROVE  /\ Counts(UpdateHistogram(h, key))
         /\ SumFunction(UpdateHistogram(h, key)) = SumFunction(h) + 1
PROOF
<1> DEFINE g == UpdateHistogram(h, key)
<1>1. /\ DOMAIN g = DOMAIN h \cup {key} /\ g = [k \in DOMAIN g |-> g[k]]
      /\ \A k \in DOMAIN h : k # key => g[k] = h[k]
      /\ g[key] = (IF key \in DOMAIN h THEN h[key] ELSE 0) + 1
      /\ \A k \in DOMAIN g : g[k] \in Nat
    BY DEF UpdateHistogram, Counts
<1>2. IsFiniteSet(DOMAIN g)
    BY <1>1, FS_AddElement DEF Counts
<1> HIDE DEF g
<1>3. SumFunction(g) = SumFunction(h) + 1
    BY <1>1, SumGrows DEF Counts
<1> QED BY <1>1, <1>2, <1>3 DEF Counts, g

(* The observations of a span count it once in the calls. *)
LEMMA SpanCounts ==
  ASSUME NEW a, NEW b, NEW span, Counted(a), ObservesSpan(a, b, span)
  PROVE  /\ Counted(b)
         /\ SumFunction(b.hist["calls"]) = SumFunction(a.hist["calls"]) + 1
PROOF
<1>0. {"latency", "exp", "calls", "external", "db"} = Kinds
    BY DEF Kinds
<1>1. ASSUME NEW c, NEW d, NEW kind \in Kinds, NEW key, NEW dims, Counted(c),
             Observes(c, d, kind, key, dims), kind # "calls" \/ key # NoKey
      PROVE  /\ Counted(d)
             /\ SumFunction(d.hist["calls"])
                  = SumFunction(c.hist["calls"]) + (IF kind = "calls" THEN 1 ELSE 0)
  <2>1. \A k \in Kinds : k # kind => d.hist[k] = c.hist[k]
      BY <1>1 DEF Observes
  <2>2. d.hist[kind] = UpdateHistogram(c.hist[kind], key)
      BY <1>1 DEF Observes
  <2>3. Counts(d.hist[kind]) /\ SumFunction(d.hist[kind]) = SumFunction(c.hist[kind]) + 1
      BY <1>1, <2>2, UpdateCounts DEF Counted
  <2>4. DOMAIN d.hist[kind] = DOMAIN c.hist[kind] \cup {key}
      BY <2>2 DEF UpdateHistogram
  <2>5. Counted(d)
      BY <1>0, <1>1, <2>1, <2>3, <2>4 DEF Counted
  <2>6. CASE kind = "calls"
      BY <2>3, <2>5, <2>6
  <2>7. CASE kind # "calls"
    <3>1. SumFunction(c.hist["calls"]) \in Nat
        BY <1>0, <1>1, SumNat DEF Counted, Counts, SumFunction
    <3> QED BY <1>0, <2>1, <2>5, <2>7, <3>1
  <2> QED BY <2>6, <2>7
<1>2. ASSUME NEW c, NEW d, NEW kind \in Kinds, Counted(c), ObservesOperation(c, d, kind, span)
      PROVE  /\ Counted(d)
             /\ SumFunction(d.hist["calls"])
                  = SumFunction(c.hist["calls"]) + (IF kind = "calls" THEN 1 ELSE 0)
    BY <1>1, <1>2, OperationKeyIs DEF ObservesOperation
<1>s. ASSUME NEW c, Counted(c) PROVE SumFunction(c.hist["calls"]) \in Nat
    BY <1>0, <1>s, SumNat DEF Counted, Counts, SumFunction
<1>3. ASSUME NEW c, NEW d, NEW kind \in Kinds, Counted(c), kind # "calls", NEW extra,
             ObservesCustom(c, d, kind, span, extra)
      PROVE  Counted(d) /\ SumFunction(d.hist["calls"]) = SumFunction(c.hist["calls"])
    BY <1>1, <1>3, <1>s DEF ObservesCustom
<1>4. PICK latency, exp, calls, external :
        /\ ObservesOperation(a, latency, "latency", span)
        /\ IF setting.exp THEN ObservesOperation(latency, exp, "exp", span) ELSE exp = latency
        /\ ObservesOperation(exp, calls, "calls", span)
        /\ IF IsExternalCall(span)
           THEN ObservesCustom(calls, external, "external", span, <<RemoteAddress(span)>>)
           ELSE external = calls
        /\ IF IsDbCall(span) THEN ObservesCustom(external, b, "db", span, << >>)
           ELSE b = external
    BY DEF ObservesSpan
<1>5. Counted(latency) /\ SumFunction(latency.hist["calls"]) = SumFunction(a.hist["calls"])
    BY <1>0, <1>2, <1>4, <1>s
<1>6. Counted(exp) /\ SumFunction(exp.hist["calls"]) = SumFunction(a.hist["calls"])
    BY <1>0, <1>2, <1>4, <1>5, <1>s
<1>7. Counted(calls) /\ SumFunction(calls.hist["calls"]) = SumFunction(a.hist["calls"]) + 1
    BY <1>0, <1>2, <1>4, <1>6, <1>s
<1>8. /\ Counted(external)
      /\ SumFunction(external.hist["calls"]) = SumFunction(a.hist["calls"]) + 1
    BY <1>0, <1>3, <1>4, <1>7, <1>s
<1> QED BY <1>0, <1>3, <1>4, <1>8, <1>s

(* Equal counts have equal sums. *)
LEMMA SumEqual ==
  ASSUME NEW f, NEW g, IsFiniteSet(DOMAIN f), DOMAIN g = DOMAIN f,
         \A x \in DOMAIN f : g[x] = f[x]
  PROVE  SumFunction(g) = SumFunction(f)
PROOF
  BY SumSame DEF SumFunction

(* A new count adds to the sum. *)
LEMMA SumNew ==
  ASSUME NEW f, IsFiniteSet(DOMAIN f), \A x \in DOMAIN f : f[x] \in Nat, NEW k, NEW d \in Nat,
         k \notin DOMAIN f, NEW g, DOMAIN g = DOMAIN f \cup {k}, g[k] = d,
         \A x \in DOMAIN f : g[x] = f[x]
  PROVE  SumFunction(g) = SumFunction(f) + d
PROOF
<1>1. g[k] = (IF k \in DOMAIN f THEN f[k] ELSE 0) + d
    OBVIOUS
<1>2. \A x \in DOMAIN f : x # k => g[x] = f[x]
    OBVIOUS
<1> QED BY <1>1, <1>2, SumGrows

(* There are finitely many pushes. *)
LEMMA PushesFinite ==
  ASSUME NEW s, Sequence(s)
  PROVE  IsFiniteSet(DOMAIN s)
PROOF
<1>1. Len(s) \in Nat /\ DOMAIN s = 1..Len(s)
    BY DEF Sequence
<1> QED BY <1>1, FS_Interval

(* The calls that the processor counted in points, whose sum is Calls. *)
CallsValues(points) == [p \in CallsIn(points) |-> p.value]

(* A flush hands the counted calls on. *)
LEMMA CollectedCalls ==
  ASSUME Counted(Aggregate), NEW t
  PROVE  /\ Counts(CallsValues(Collected(t)))
         /\ SumFunction(CallsValues(Collected(t))) = SumFunction(hist["calls"])
PROOF
<1> DEFINE h == hist["calls"]
           S == DOMAIN h
           b == [key \in S |-> Point("calls", "sum", cache["calls"].dims[key],
                                     TimeFromKeyOrNow(key, t), h[key], key)]
           P == {b[key] : key \in S}
           g == CallsValues(Collected(t))
<1>1. Counts(h) /\ \A key \in S : key # NoKey
    BY DEF Counted, Aggregate, Kinds
<1>2. \A key \in S : b[key].key = key /\ b[key].value = h[key] /\ b[key].name = "calls"
    BY DEF Point
<1>3. Collect("calls", "calls", "sum", t) = P
    BY DEF Collect
<1>4. ASSUME NEW p \in Collected(t), p.name = "calls"
      PROVE  p \in Collect("calls", "calls", "sum", t)
    BY <1>4 DEF Collected, Collect, Point
<1>5. Collect("calls", "calls", "sum", t) \subseteq Collected(t)
    BY DEF Collected
<1> HIDE DEF b
<1>6. CallsIn(Collected(t)) = P
    BY <1>1, <1>2, <1>3, <1>4, <1>5 DEF CallsIn
<1>7. DOMAIN g = P /\ g = [p \in DOMAIN g |-> g[p]] /\ \A key \in S : g[b[key]] = h[key]
    BY <1>2, <1>6 DEF CallsValues
<1> HIDE DEF g
<1>8. IsFiniteSet(P) /\ \A p \in P : g[p] \in Nat
    BY <1>1, <1>7, ImageFinite DEF Counts
<1>9. SumFunctionOnSet(g, P) = SumFunctionOnSet(h, S)
    BY <1>1, <1>2, <1>7, SumRenamed DEF Counts
<1> HIDE DEF h, P
<1> QED BY <1>7, <1>8, <1>9 DEF SumFunction, Counts, g, h

(* A histogram that keeps some of its keys. *)
LEMMA RecentCounts ==
  ASSUME NEW h, Counts(h), NEW lru
  PROVE  Counts(Recent(h, lru)) /\ DOMAIN Recent(h, lru) \subseteq DOMAIN h
PROOF
<1> DEFINE g == Recent(h, lru)
<1>1. /\ DOMAIN g \subseteq DOMAIN h /\ g = [x \in DOMAIN g |-> g[x]]
      /\ \A x \in DOMAIN g : g[x] \in Nat
    BY DEF Recent, Restrict, Counts
<1> HIDE DEF g
<1>2. IsFiniteSet(DOMAIN g)
    BY <1>1, FS_Subset DEF Counts
<1> QED BY <1>1, <1>2 DEF Counts, g

(* What the processor and its pushes have counted. *)
CallsPushed == SumFunction([i \in DOMAIN metricPush |-> CallsOf(metricPush[i])])

CallsInv ==
  /\ setting \in Settings
  /\ Counted(Aggregate)
  /\ \A i \in DOMAIN metricPush : Counts(CallsValues(metricPush[i].points))
  /\ refused \in Nat
  /\ setting.delta /\ "metrics" \in setting.sinks =>
       aggregated = SumFunction(hist["calls"]) + refused + CallsPushed

(* The sums are natural numbers. *)
LEMMA CallsNat ==
  ASSUME Sequence(metricPush), CallsInv
  PROVE  /\ SumFunction(hist["calls"]) \in Nat /\ CallsPushed \in Nat
         /\ \A i \in DOMAIN metricPush : CallsOf(metricPush[i]) \in Nat
PROOF
<1>1. SumFunction(hist["calls"]) \in Nat
    BY SumNat DEF CallsInv, Counted, Aggregate, Kinds, Counts, SumFunction
<1>2. ASSUME NEW i \in DOMAIN metricPush PROVE CallsOf(metricPush[i]) \in Nat
    BY SumNat DEF CallsInv, CallsOf, Calls, CallsValues, Counts, SumFunction
<1> DEFINE f == [i \in DOMAIN metricPush |-> CallsOf(metricPush[i])]
<1>3. DOMAIN f = DOMAIN metricPush /\ \A i \in DOMAIN f : f[i] \in Nat
    BY <1>2
<1> HIDE DEF f
<1>4. SumFunction(f) \in Nat
    BY <1>3, PushesFinite, SumNat DEF SumFunction
<1> QED BY <1>1, <1>2, <1>4 DEF CallsPushed, f

(* Pushes that keep their points keep the sum, *)
LEMMA CallsKept ==
  ASSUME Sequence(metricPush), DOMAIN metricPush' = DOMAIN metricPush,
         \A i \in DOMAIN metricPush : metricPush'[i].points = metricPush[i].points
  PROVE  CallsPushed' = CallsPushed
PROOF
<1> DEFINE f == [i \in DOMAIN metricPush |-> CallsOf(metricPush[i])]
           g == [i \in DOMAIN metricPush' |-> CallsOf(metricPush'[i])]
<1>1. DOMAIN f = DOMAIN metricPush /\ DOMAIN g = DOMAIN f /\ \A i \in DOMAIN f : g[i] = f[i]
    BY DEF CallsOf, Calls
<1> HIDE DEF f, g
<1>2. SumFunction(g) = SumFunction(f)
    BY <1>1, PushesFinite, SumEqual
<1> QED BY <1>2 DEF CallsPushed, f, g

(* and a new one adds its calls. *)
LEMMA CallsAdded ==
  ASSUME Sequence(metricPush), CallsInv, NEW points, Counts(CallsValues(points)),
         metricPush' = Append(metricPush, NewMetricPush(points))
  PROVE  /\ CallsPushed' = CallsPushed + SumFunction(CallsValues(points))
         /\ \A i \in DOMAIN metricPush' : Counts(CallsValues(metricPush'[i].points))
PROOF
<1> DEFINE f == [i \in DOMAIN metricPush |-> CallsOf(metricPush[i])]
           g == [i \in DOMAIN metricPush' |-> CallsOf(metricPush'[i])]
           d == SumFunction(CallsValues(points))
<1>1. PICK n : /\ n \notin DOMAIN metricPush /\ DOMAIN metricPush' = DOMAIN metricPush \cup {n}
               /\ metricPush'[n] = NewMetricPush(points)
               /\ \A j \in DOMAIN metricPush : metricPush'[j] = metricPush[j]
    BY AppendsToIs DEF AppendsTo
<1>2. NewMetricPush(points).points = points
    BY DEF NewMetricPush
<1>3. d \in Nat
    BY SumNat DEF Counts, SumFunction
<1>4. CallsOf(metricPush'[n]) = d
    BY <1>1, <1>2 DEF CallsOf, Calls, CallsValues
<1>5. /\ DOMAIN f = DOMAIN metricPush /\ DOMAIN g = DOMAIN f \cup {n} /\ n \notin DOMAIN f
      /\ \A i \in DOMAIN f : g[i] = f[i] /\ f[i] \in Nat
      /\ g[n] = d
    BY <1>1, <1>4, CallsNat
<1>6. IsFiniteSet(DOMAIN f)
    BY PushesFinite
<1> HIDE DEF f, g, d
<1>7. SumFunction(g) = SumFunction(f) + d
  <2>1. n \notin DOMAIN f /\ DOMAIN g = DOMAIN f \cup {n} /\ g[n] = d
      BY <1>5
  <2>2. \A x \in DOMAIN f : f[x] \in Nat
      BY <1>5
  <2>3. \A x \in DOMAIN f : g[x] = f[x]
      BY <1>5
  <2> QED BY <1>3, <1>6, <2>1, <2>2, <2>3, SumNew
<1>8. \A i \in DOMAIN metricPush' : Counts(CallsValues(metricPush'[i].points))
    BY <1>1, <1>2 DEF CallsInv
<1> QED BY <1>7, <1>8 DEF CallsPushed, f, g, d

(* The pushes of the metrics exporter keep their points. *)
LEMMA MetricPointsKept ==
  ASSUME MetricActs
  PROVE  /\ DOMAIN metricPush' = DOMAIN metricPush
         /\ \A i \in DOMAIN metricPush : metricPush'[i].points = metricPush[i].points
PROOF
<1>1. CASE MetricCloses
    BY <1>1 DEF MetricCloses
<1>2. ASSUME NEW i \in DOMAIN metricPush, NEW pc, NEW left, NEW series, NEW failed,
             MetricGoes(i, pc, left, series, failed)
      PROVE  /\ DOMAIN metricPush' = DOMAIN metricPush
             /\ \A j \in DOMAIN metricPush : metricPush'[j].points = metricPush[j].points
    BY <1>2 DEF MetricGoes
<1>3. ASSUME NEW i \in DOMAIN metricPush, NEW t,
             \/ MetricMoves(i) \/ MetricAdmits(i) \/ MetricAppends(i)
             \/ MetricSends(i, t) \/ MetricFails(i, t)
      PROVE  \E pc, left, series, failed : MetricGoes(i, pc, left, series, failed)
  <2>1. CASE MetricMoves(i)
      BY <2>1 DEF MetricMoves
  <2>2. CASE MetricAdmits(i)
      BY <2>2 DEF MetricAdmits
  <2>3. CASE MetricAppends(i)
      BY <2>3 DEF MetricAppends
  <2>4. CASE MetricSends(i, t)
      BY <2>4 DEF MetricSends
  <2>5. CASE MetricFails(i, t)
      BY <2>5 DEF MetricFails
  <2> QED BY <1>3, <2>1, <2>2, <2>3, <2>4, <2>5
<1> QED BY <1>1, <1>2, <1>3 DEF MetricActs

(* Nothing has been counted at first. *)
LEMMA CallsInit ==
  ASSUME Init
  PROVE  CallsInv
PROOF
<1>1. hist = [k \in Kinds |-> << >>] /\ metricPush = << >> /\ aggregated = 0 /\ refused = 0
    BY DEF Init, InitAggregate, InitMetricExporter
<1>2. DOMAIN << >> = {} /\ IsFiniteSet({})
    BY FS_EmptySet
<1>3. Counts(<< >>) /\ SumFunction(<< >>) = 0
    BY <1>2, SumEmpty DEF Counts, SumFunction
<1>4. hist["calls"] = << >>
    BY <1>1 DEF Kinds
<1>5. CallsPushed = 0
  <2> DEFINE f == [i \in DOMAIN metricPush |-> CallsOf(metricPush[i])]
  <2>1. DOMAIN f = {}
      BY <1>1, <1>2
  <2> HIDE DEF f
  <2> QED BY <2>1, SumEmpty DEF SumFunction, CallsPushed, f
<1>6. Counted(Aggregate)
    BY <1>1, <1>2, <1>3, <1>4 DEF Counted, Aggregate
<1> QED BY <1>1, <1>2, <1>3, <1>4, <1>5, <1>6 DEF CallsInv, Init, InitAggregate

(* Every step keeps the count. *)
LEMMA CallsStep ==
  ASSUME IInv, CallsInv, [Next]_vars
  PROVE  CallsInv'
PROOF
<1>s. Sequence(metricPush) /\ AggregateInv /\ MetricShape
    BY DEF IInv, MetricInv, MetricShape
<1>n. /\ SumFunction(hist["calls"]) \in Nat /\ CallsPushed \in Nat
      /\ \A i \in DOMAIN metricPush : CallsOf(metricPush[i]) \in Nat
      /\ refused \in Nat
    BY <1>s, CallsNat DEF CallsInv
<1>c. "calls" \in Kinds
    BY DEF Kinds
<1>a. setting.delta \in BOOLEAN /\ SpanAssumption
    BY SpanAssumption DEF CallsInv
<1>1. ASSUME NEW span \in setting.spans, ConsumeTraces(span)
      PROVE  CallsInv'
  <2>1. /\ UNCHANGED <<setting, metricPush, refused>> /\ AggregateMetrics(span)
        /\ aggregated' = IF Aggregated(span) THEN aggregated + 1 ELSE aggregated
      BY <1>1 DEF ConsumeTraces, metricVars
  <2>2. CallsPushed' = CallsPushed
      BY <2>1, <1>s, CallsKept
  <2>3. CASE Aggregated(span)
    <3>1. ObservesSpan(Aggregate, Aggregate', span)
        BY <1>s, <2>1, <2>3, AggregateMetricsStep
    <3>2. /\ Counted(Aggregate')
          /\ SumFunction(Aggregate'.hist["calls"]) = SumFunction(Aggregate.hist["calls"]) + 1
        BY <3>1, SpanCounts DEF CallsInv
    <3>3. Counted(Aggregate)' /\ SumFunction(hist["calls"])' = SumFunction(hist["calls"]) + 1
        BY <3>2 DEF Counted, Aggregate
    <3>4. setting.delta /\ "metrics" \in setting.sinks =>
            aggregated' = SumFunction(hist["calls"])' + refused' + CallsPushed'
        BY <1>n, <2>1, <2>2, <2>3, <3>3 DEF CallsInv
    <3> QED BY <2>1, <3>3, <3>4 DEF CallsInv
  <2>4. CASE ~Aggregated(span)
    <3>1. hist' = hist /\ Counted(Aggregate)' /\ aggregated' = aggregated
        BY <1>s, <2>1, <2>4, AggregateMetricsStep DEF aggregate, Counted, Aggregate, CallsInv
    <3> QED BY <2>1, <2>2, <3>1 DEF CallsInv
  <2> QED BY <2>3, <2>4
<1>2. CASE ExportMetrics
  <2>1. /\ setting' = setting /\ aggregated' = aggregated /\ BuildMetrics
        /\ \/ /\ refused' = refused
              /\ metricPush' = IF "metrics" \in setting.sinks
                               THEN Append(metricPush, NewMetricPush(Collected(now')))
                               ELSE metricPush
           \/ /\ refused' = refused + Calls(Collected(now')) /\ metricPush' = metricPush
      BY <1>2 DEF ExportMetrics
  <2>2. Counted(Aggregate)' /\ (setting.delta => SumFunction(hist["calls"])' = 0)
    <3>1. CASE setting.delta
      <4>1. hist' = [k \in Kinds |-> << >>]
          BY <2>1, <3>1 DEF BuildMetrics, ResetAccumulatedMetrics
      <4>2. Counts(<< >>) /\ SumFunction(<< >>) = 0 /\ DOMAIN << >> = {}
          BY FS_EmptySet, SumEmpty DEF Counts, SumFunction
      <4>3. hist'["calls"] = << >>
          BY <1>c, <4>1
      <4> QED BY <4>1, <4>2, <4>3 DEF Counted, Aggregate
    <3>2. CASE ~setting.delta
      <4>1. PICK order : hist' = [k \in Kinds |-> KeepOnly(k, order[k])]
          BY <2>1, <3>2 DEF BuildMetrics
      <4>2. ASSUME NEW k \in Kinds
            PROVE  Counts(hist'[k]) /\ DOMAIN hist'[k] \subseteq DOMAIN hist[k]
          BY <4>1, RecentCounts DEF KeepOnly, CallsInv, Counted, Aggregate
      <4> QED BY <1>c, <3>2, <4>2 DEF CallsInv, Counted, Aggregate
    <3> QED BY <3>1, <3>2
  <2>3. /\ Counts(CallsValues(Collected(now')))
        /\ SumFunction(CallsValues(Collected(now'))) = SumFunction(hist["calls"])
        /\ Calls(Collected(now')) = SumFunction(hist["calls"])
      BY CollectedCalls DEF CallsInv, Calls, CallsValues
  <2>4. CASE refused' = refused /\ "metrics" \in setting.sinks
             /\ metricPush' = Append(metricPush, NewMetricPush(Collected(now')))
    <3>1. /\ CallsPushed' = CallsPushed + SumFunction(hist["calls"])
          /\ \A i \in DOMAIN metricPush' : Counts(CallsValues(metricPush'[i].points))
        BY <1>s, <2>3, <2>4, CallsAdded
    <3>2. setting.delta => aggregated' = SumFunction(hist["calls"])' + refused' + CallsPushed'
        BY <1>n, <2>1, <2>2, <2>4, <3>1 DEF CallsInv
    <3>3. refused' \in Nat
        BY <1>n, <2>4
    <3> QED BY <2>1, <2>2, <3>1, <3>2, <3>3 DEF CallsInv
  <2>5. CASE refused' = refused /\ "metrics" \notin setting.sinks /\ metricPush' = metricPush
    <3>1. refused' \in Nat
        BY <1>n, <2>5
    <3> QED BY <2>1, <2>2, <2>5, <3>1 DEF CallsInv
  <2>6. CASE refused' = refused + Calls(Collected(now')) /\ metricPush' = metricPush
    <3>1. CallsPushed' = CallsPushed
        BY <1>s, <2>6, CallsKept
    <3>2. /\ refused' \in Nat
          /\ setting.delta /\ "metrics" \in setting.sinks =>
               aggregated' = SumFunction(hist["calls"])' + refused' + CallsPushed'
        BY <1>n, <2>1, <2>2, <2>3, <2>6, <3>1 DEF CallsInv
    <3> QED BY <2>1, <2>2, <2>6, <3>2 DEF CallsInv
  <2> QED BY <2>1, <2>4, <2>5, <2>6
<1>3. ASSUME NEW point \in setting.points, ReceivePoint(point)
      PROVE  CallsInv'
  <2> DEFINE points == {[point EXCEPT !.time = now']}
  <2>1. /\ UNCHANGED <<setting, aggregated, refused, aggregate>>
        /\ metricPush' = Append(metricPush, NewMetricPush(points))
      BY <1>3 DEF ReceivePoint, counts
  <2>2. \A p \in points : p.key = NoKey
      BY <1>a DEF SpanAssumption, CallsInv
  <2>3. DOMAIN CallsValues(points) = {} /\ Counts(CallsValues(points))
      BY <2>2, FS_EmptySet DEF CallsValues, CallsIn, Counts
  <2> HIDE DEF points
  <2>4. SumFunction(CallsValues(points)) = 0
      BY <2>3, SumEmpty DEF SumFunction
  <2>5. /\ CallsPushed' = CallsPushed
        /\ \A i \in DOMAIN metricPush' : Counts(CallsValues(metricPush'[i].points))
      BY <1>n, <1>s, <2>1, <2>3, <2>4, CallsAdded
  <2> QED BY <2>1, <2>5 DEF CallsInv, aggregate, Aggregate
<1>4. CASE /\ UNCHANGED <<setting, aggregate, aggregated, refused>>
           /\ DOMAIN metricPush' = DOMAIN metricPush
           /\ \A i \in DOMAIN metricPush : metricPush'[i].points = metricPush[i].points
  <2>1. CallsPushed' = CallsPushed
      BY <1>s, <1>4, CallsKept
  <2> QED BY <1>4, <2>1 DEF CallsInv, aggregate, Aggregate
<1>5. CASE /\ MetricExporterStep
          /\ UNCHANGED <<setting, aggregate, traceVars, meterVars, processor, now, counts>>
    BY <1>4, <1>5, <1>s, MetricStepIs, MetricPointsKept DEF counts
<1>6. ASSUME \/ ShutdownProcessor \/ LoopReturns \/ FlushMeter \/ StopMeter \/ UNCHANGED vars
             \/ UNCHANGED <<setting, aggregate, metricVars, meterVars, processor, now, counts>>
             \/ UNCHANGED <<setting, aggregate, metricVars, traceVars, processor, now, counts>>
      PROVE  CallsInv'
  <2>1. UNCHANGED <<setting, aggregate, aggregated, refused, metricPush>>
      BY <1>6 DEF counts, ShutdownProcessor, LoopReturns, FlushMeter, StopMeter, vars, metricVars
  <2> QED BY <1>4, <2>1
<1> QED BY <1>1, <1>2, <1>3, <1>5, <1>6 DEF Next

(* The bags of the meter connector. *)
LEMMA EmptyBagCounts ==
  Counts(EmptyBag) /\ SumFunction(EmptyBag) = 0
PROOF
<1>1. DOMAIN EmptyBag = {} /\ EmptyBag = [x \in DOMAIN EmptyBag |-> EmptyBag[x]]
    BY DEF EmptyBag, SetToBag
<1> QED BY <1>1, FS_EmptySet, SumEmpty DEF Counts, SumFunction

(* A span more in a bag. *)
LEMMA BagGrows ==
  ASSUME NEW m, Counts(m), NEW x
  PROVE  /\ Counts(m (+) SetToBag({x}))
         /\ SumFunction(m (+) SetToBag({x})) = SumFunction(m) + 1
PROOF
<1> DEFINE g == m (+) SetToBag({x})
<1>1. /\ DOMAIN g = DOMAIN m \cup {x} /\ g = [e \in DOMAIN g |-> g[e]]
      /\ \A e \in DOMAIN m : e # x => g[e] = m[e]
      /\ g[x] = (IF x \in DOMAIN m THEN m[x] ELSE 0) + 1
      /\ \A e \in DOMAIN g : g[e] \in Nat
    BY DEF (+), SetToBag, Counts
<1>2. IsFiniteSet(DOMAIN g)
    BY <1>1, FS_AddElement DEF Counts
<1> HIDE DEF g
<1>3. SumFunction(g) = SumFunction(m) + 1
  <2>1. IsFiniteSet(DOMAIN m) /\ \A e \in DOMAIN m : m[e] \in Nat
      BY DEF Counts
  <2>2. DOMAIN g = DOMAIN m \cup {x} /\ \A e \in DOMAIN m : e # x => g[e] = m[e]
      BY <1>1
  <2>3. g[x] = (IF x \in DOMAIN m THEN m[x] ELSE 0) + 1
      BY <1>1
  <2> QED BY <2>1, <2>2, <2>3, SumGrows
<1> QED BY <1>1, <1>2, <1>3 DEF Counts, g

MeterTaken  == SumFunction([f \in Flushers |-> SumFunction(meterHeld[f])])
MeterPushed == SumFunction([i \in DOMAIN meterPush |-> SpansOf(meterPush[i])])

MeterShares ==
  /\ Counts(meterMetrics) /\ meterLost \in Nat
  /\ meterHeld = [f \in Flushers |-> meterHeld[f]] /\ \A f \in Flushers : Counts(meterHeld[f])
  /\ \A i \in DOMAIN meterPush : Counts(meterPush[i].batch)

(* Shutdown comes after the last span, and its flush is the only one of     *)
(* its own.                                                                 *)
MeterCounted ==
  /\ MeterShares
  /\ "meter" \in setting.sinks =>
       consumed = SumFunction(meterMetrics) + meterLost + MeterTaken + MeterPushed
  /\ meterState # "running" => processor = "stopped" /\ meterMetrics = EmptyBag
  /\ meterState = "running" => meterHeld["shutdown"] = EmptyBag

(* What the two flushes hold. *)
LEMMA TakenIs ==
  ASSUME NEW held, \A f \in Flushers : Counts(held[f])
  PROVE  /\ SumFunction([f \in Flushers |-> SumFunction(held[f])])
              = SumFunction(held["loop"]) + SumFunction(held["shutdown"])
         /\ \A f \in Flushers : SumFunction(held[f]) \in Nat
PROOF
<1> DEFINE f == [x \in Flushers |-> SumFunction(held[x])]
<1>1. \A x \in Flushers : SumFunction(held[x]) \in Nat
    BY SumNat DEF Counts, SumFunction
<1>2. /\ DOMAIN f = {"loop", "shutdown"} /\ \A x \in {"loop", "shutdown"} : f[x] \in Nat
      /\ f["loop"] = SumFunction(held["loop"])
      /\ f["shutdown"] = SumFunction(held["shutdown"])
    BY <1>1 DEF Flushers
<1>f. f = [x \in Flushers |-> SumFunction(held[x])]
    OBVIOUS
<1> HIDE DEF f
<1>3. /\ IsFiniteSet({"loop", "shutdown"}) /\ IsFiniteSet({"shutdown"})
      /\ {"loop", "shutdown"} \ {"loop"} = {"shutdown"} /\ {"shutdown"} \ {"shutdown"} = {}
  <2>1. IsFiniteSet({}) /\ {"shutdown"} = {} \cup {"shutdown"}
          /\ {"loop", "shutdown"} = {"shutdown"} \cup {"loop"}
      BY FS_EmptySet
  <2>2. IsFiniteSet({"shutdown"})
      BY <2>1, FS_AddElement
  <2> QED BY <2>1, <2>2, FS_AddElement
<1>4. SumFunctionOnSet(f, {"shutdown"}) = f["shutdown"]
  <2>1. SumFunctionOnSet(f, {"shutdown"}) = f["shutdown"] + SumFunctionOnSet(f, {})
    <3>1. \A x \in {"shutdown"} : f[x] \in Nat
        BY <1>2
    <3> QED BY <3>1, <1>3, SumRemove
  <2> QED BY <1>2, <2>1, SumEmpty
<1>5. SumFunction(f) = f["loop"] + SumFunctionOnSet(f, {"shutdown"})
  <2>1. "loop" \in {"loop", "shutdown"}
      OBVIOUS
  <2>2. SumFunctionOnSet(f, {"loop", "shutdown"})
          = f["loop"] + SumFunctionOnSet(f, {"loop", "shutdown"} \ {"loop"})
      BY <1>2, <1>3, <2>1, SumRemove
  <2> QED BY <1>2, <1>3, <2>2 DEF SumFunction
<1> QED BY <1>1, <1>2, <1>4, <1>5, <1>f

(* Pushes that keep their batches keep the sum, *)
LEMMA MeterKept ==
  ASSUME Sequence(meterPush), DOMAIN meterPush' = DOMAIN meterPush,
         \A i \in DOMAIN meterPush : meterPush'[i].batch = meterPush[i].batch
  PROVE  MeterPushed' = MeterPushed
PROOF
<1> DEFINE f == [i \in DOMAIN meterPush |-> SpansOf(meterPush[i])]
           g == [i \in DOMAIN meterPush' |-> SpansOf(meterPush'[i])]
<1>1. DOMAIN f = DOMAIN meterPush /\ DOMAIN g = DOMAIN f /\ \A i \in DOMAIN f : g[i] = f[i]
    BY DEF SpansOf
<1> HIDE DEF f, g
<1>2. SumFunction(g) = SumFunction(f)
    BY <1>1, PushesFinite, SumEqual
<1> QED BY <1>2 DEF MeterPushed, f, g

(* and it is a natural number. *)
LEMMA MeterNat ==
  ASSUME Sequence(meterPush), MeterShares
  PROVE  /\ SumFunction(meterMetrics) \in Nat /\ MeterTaken \in Nat /\ MeterPushed \in Nat
         /\ \A i \in DOMAIN meterPush : SpansOf(meterPush[i]) \in Nat
PROOF
<1>1. SumFunction(meterMetrics) \in Nat
    BY SumNat DEF MeterShares, Counts, SumFunction
<1>2. MeterTaken \in Nat
    BY TakenIs DEF MeterShares, MeterTaken, Flushers
<1>3. \A i \in DOMAIN meterPush : SpansOf(meterPush[i]) \in Nat
    BY SumNat DEF MeterShares, SpansOf, Counts, SumFunction
<1> DEFINE f == [i \in DOMAIN meterPush |-> SpansOf(meterPush[i])]
<1>4. DOMAIN f = DOMAIN meterPush /\ \A i \in DOMAIN f : f[i] \in Nat
    BY <1>3
<1> HIDE DEF f
<1>5. SumFunction(f) \in Nat
    BY <1>4, PushesFinite, SumNat DEF SumFunction
<1> QED BY <1>1, <1>2, <1>3, <1>5 DEF MeterPushed, f

(* A new push adds what it has. *)
LEMMA MeterAdded ==
  ASSUME Sequence(meterPush), MeterShares, NEW batch, Counts(batch),
         meterPush' = Append(meterPush, NewMeterPush(batch))
  PROVE  /\ MeterPushed' = MeterPushed + SumFunction(batch)
         /\ \A i \in DOMAIN meterPush' : Counts(meterPush'[i].batch)
PROOF
<1> DEFINE f == [i \in DOMAIN meterPush |-> SpansOf(meterPush[i])]
           g == [i \in DOMAIN meterPush' |-> SpansOf(meterPush'[i])]
           d == SumFunction(batch)
<1>1. PICK n : /\ n \notin DOMAIN meterPush /\ DOMAIN meterPush' = DOMAIN meterPush \cup {n}
               /\ meterPush'[n] = NewMeterPush(batch)
               /\ \A j \in DOMAIN meterPush : meterPush'[j] = meterPush[j]
    BY AppendsToIs DEF AppendsTo
<1>2. NewMeterPush(batch).batch = batch
    BY DEF NewMeterPush
<1>3. d \in Nat
    BY SumNat DEF Counts, SumFunction
<1>4. SpansOf(meterPush'[n]) = d
    BY <1>1, <1>2 DEF SpansOf
<1>5. /\ DOMAIN f = DOMAIN meterPush /\ DOMAIN g = DOMAIN f \cup {n} /\ n \notin DOMAIN f
      /\ \A i \in DOMAIN f : g[i] = f[i] /\ f[i] \in Nat
      /\ g[n] = d
    BY <1>1, <1>4, MeterNat
<1>6. IsFiniteSet(DOMAIN f)
    BY PushesFinite
<1> HIDE DEF f, g, d
<1>7. SumFunction(g) = SumFunction(f) + d
  <2>1. n \notin DOMAIN f /\ DOMAIN g = DOMAIN f \cup {n} /\ g[n] = d
      BY <1>5
  <2>2. \A x \in DOMAIN f : f[x] \in Nat
      BY <1>5
  <2>3. \A x \in DOMAIN f : g[x] = f[x]
      BY <1>5
  <2> QED BY <1>3, <1>6, <2>1, <2>2, <2>3, SumNew
<1>8. \A i \in DOMAIN meterPush' : Counts(meterPush'[i].batch)
    BY <1>1, <1>2 DEF MeterShares
<1> QED BY <1>7, <1>8 DEF MeterPushed, f, g, d

(* The exporter's steps keep batches and leave the connector alone. *)
LEMMA MeterBatchesKept ==
  ASSUME MeterShape, MeterExports
  PROVE  /\ UNCHANGED connectorVars /\ DOMAIN meterPush' = DOMAIN meterPush
         /\ \A i \in DOMAIN meterPush : meterPush'[i].batch = meterPush[i].batch
PROOF
<1>1. MeterActs
    BY MeterExportsIs
<1>2. UNCHANGED connectorVars
    BY DEF MeterExports, EnterMeterPush, CheckMeterPush, WriteMeterBatch, RetryMeterPush,
        ShutdownMeterExporter, CloseMeterConn
<1>3. CASE MeterCloses
    BY <1>2, <1>3 DEF MeterCloses
<1>4. ASSUME NEW i \in DOMAIN meterPush, MeterMoves(i) \/ MeterWrites(i)
      PROVE  /\ DOMAIN meterPush' = DOMAIN meterPush
             /\ \A j \in DOMAIN meterPush : meterPush'[j].batch = meterPush[j].batch
    BY <1>4 DEF MeterMoves, MeterWrites, MeterGoes
<1> QED BY <1>1, <1>2, <1>3, <1>4 DEF MeterActs

(* The meter has counted nothing at first. *)
LEMMA MeterInit ==
  ASSUME Init
  PROVE  MeterCounted
PROOF
<1>1. /\ meterMetrics = EmptyBag /\ meterHeld = [f \in Flushers |-> EmptyBag] /\ meterLost = 0
      /\ meterState = "running" /\ meterPush = << >> /\ consumed = 0
    BY DEF Init, InitMeter
<1>2. DOMAIN << >> = {}
    OBVIOUS
<1>3. MeterShares
    BY <1>1, <1>2, EmptyBagCounts DEF MeterShares
<1>4. SumFunction(meterHeld["loop"]) = 0 /\ SumFunction(meterHeld["shutdown"]) = 0
    BY <1>1, EmptyBagCounts DEF Flushers
<1>5. MeterTaken = 0
    BY <1>3, <1>4, TakenIs DEF MeterShares, MeterTaken
<1>6. MeterPushed = 0
  <2> DEFINE f == [i \in DOMAIN meterPush |-> SpansOf(meterPush[i])]
  <2>1. DOMAIN f = {}
      BY <1>1, <1>2
  <2> HIDE DEF f
  <2> QED BY <2>1, SumEmpty DEF SumFunction, MeterPushed, f
<1>7. SumFunction(meterMetrics) = 0
    BY <1>1, EmptyBagCounts
<1> QED BY <1>1, <1>3, <1>5, <1>6, <1>7 DEF MeterCounted, Flushers

(* A flush takes the aggregate out, into a place that is empty. *)
LEMMA MeterTakes ==
  ASSUME Sequence(meterPush), MeterShares, NEW f \in Flushers, TakeMeter(f),
         meterHeld[f] = EmptyBag, UNCHANGED <<meterLost, meterPush>>
  PROVE  /\ MeterShares' /\ meterMetrics' = EmptyBag
         /\ \A g \in Flushers : g # f => meterHeld'[g] = meterHeld[g]
         /\ (SumFunction(meterMetrics) + meterLost + MeterTaken + MeterPushed)'
              = SumFunction(meterMetrics) + meterLost + MeterTaken + MeterPushed
PROOF
<1>1. /\ meterHeld' = [meterHeld EXCEPT ![f] = meterMetrics] /\ meterMetrics' = EmptyBag
      /\ meterLost' = meterLost /\ meterPush' = meterPush
    BY DEF TakeMeter, ResetMeter
<1>2. /\ meterHeld' = [g \in Flushers |-> meterHeld'[g]] /\ meterHeld'[f] = meterMetrics
      /\ \A g \in Flushers : g # f => meterHeld'[g] = meterHeld[g]
    BY <1>1 DEF MeterShares
<1>3. \A g \in Flushers : Counts(meterHeld'[g])
    BY <1>2 DEF MeterShares
<1>4. MeterShares'
    BY <1>1, <1>2, <1>3, EmptyBagCounts DEF MeterShares
<1>5. /\ MeterTaken = SumFunction(meterHeld["loop"]) + SumFunction(meterHeld["shutdown"])
      /\ MeterTaken' = SumFunction(meterHeld'["loop"]) + SumFunction(meterHeld'["shutdown"])
      /\ \A g \in Flushers : SumFunction(meterHeld[g]) \in Nat
    BY <1>3, TakenIs DEF MeterShares, MeterTaken
<1>6. SumFunction(meterMetrics) \in Nat /\ MeterPushed \in Nat /\ meterLost \in Nat
    BY MeterNat DEF MeterShares
<1>7. MeterPushed' = MeterPushed
    BY <1>1 DEF MeterPushed
<1>8. SumFunction(meterMetrics)' = 0 /\ SumFunction(meterHeld[f]) = 0
    BY <1>1, EmptyBagCounts
<1>9. MeterTaken' = MeterTaken + SumFunction(meterMetrics)
    BY <1>2, <1>5, <1>6, <1>8 DEF Flushers
<1>10. MeterTaken \in Nat
    BY <1>5 DEF Flushers
<1> QED BY <1>1, <1>2, <1>4, <1>6, <1>7, <1>8, <1>9, <1>10

(* What is handed on is in a push or lost. *)
LEMMA MeterHandsOn ==
  ASSUME Sequence(meterPush), MeterShares, NEW f \in Flushers, HandOn(f)
  PROVE  /\ MeterShares' /\ UNCHANGED <<meterMetrics, meterState>> /\ meterHeld'[f] = EmptyBag
         /\ \A g \in Flushers : g # f => meterHeld'[g] = meterHeld[g]
         /\ (SumFunction(meterMetrics) + meterLost + MeterTaken + MeterPushed)'
              = SumFunction(meterMetrics) + meterLost + MeterTaken + MeterPushed
PROOF
<1> DEFINE d == SumFunction(meterHeld[f])
<1>1. /\ meterHeld' = [meterHeld EXCEPT ![f] = EmptyBag]
      /\ UNCHANGED <<meterMetrics, meterState>>
    BY DEF HandOn
<1>2. /\ meterHeld' = [g \in Flushers |-> meterHeld'[g]] /\ meterHeld'[f] = EmptyBag
      /\ \A g \in Flushers : g # f => meterHeld'[g] = meterHeld[g]
    BY <1>1 DEF MeterShares
<1>3. \A g \in Flushers : Counts(meterHeld'[g])
    BY <1>2, EmptyBagCounts DEF MeterShares
<1>5. /\ MeterTaken = SumFunction(meterHeld["loop"]) + SumFunction(meterHeld["shutdown"])
      /\ MeterTaken' = SumFunction(meterHeld'["loop"]) + SumFunction(meterHeld'["shutdown"])
      /\ \A g \in Flushers : SumFunction(meterHeld[g]) \in Nat
    BY <1>3, TakenIs DEF MeterShares, MeterTaken
<1>6. SumFunction(meterMetrics) \in Nat /\ MeterPushed \in Nat /\ meterLost \in Nat
    BY MeterNat DEF MeterShares
<1>7. SumFunction(meterHeld'[f]) = 0 /\ d \in Nat
    BY <1>2, <1>5, EmptyBagCounts
<1>8. MeterTaken' \in Nat /\ MeterTaken = MeterTaken' + d
    BY <1>2, <1>5, <1>7 DEF Flushers
<1>9. CASE meterPush' = Append(meterPush, NewMeterPush(meterHeld[f])) /\ meterLost' = meterLost
  <2>1. /\ MeterPushed' = MeterPushed + d
        /\ \A i \in DOMAIN meterPush' : Counts(meterPush'[i].batch)
      BY <1>9, MeterAdded DEF MeterShares
  <2>2. MeterShares'
      BY <1>1, <1>2, <1>3, <1>9, <2>1 DEF MeterShares
  <2>3. SumFunction(meterMetrics)' = SumFunction(meterMetrics)
      BY <1>1
  <2> HIDE DEF d
  <2> QED BY <1>1, <1>2, <1>6, <1>7, <1>8, <1>9, <2>1, <2>2, <2>3
<1>10. CASE meterPush' = meterPush /\ meterLost' = meterLost + d
  <2>1. MeterPushed' = MeterPushed
      BY <1>10 DEF MeterPushed
  <2>2. MeterShares'
      BY <1>1, <1>2, <1>3, <1>6, <1>7, <1>10 DEF MeterShares
  <2>3. SumFunction(meterMetrics)' = SumFunction(meterMetrics)
      BY <1>1
  <2> HIDE DEF d
  <2> QED BY <1>1, <1>2, <1>6, <1>7, <1>8, <1>10, <2>1, <2>2, <2>3
<1> QED BY <1>9, <1>10 DEF HandOn

(* Every step keeps the count. *)
LEMMA MeterCountedStep ==
  ASSUME IInv, MeterCounted, [Next]_vars
  PROVE  MeterCounted'
PROOF
<1>s. Sequence(meterPush) /\ MeterShape
    BY DEF IInv, MeterInv, MeterShape
<1>n. /\ SumFunction(meterMetrics) \in Nat /\ MeterTaken \in Nat /\ MeterPushed \in Nat
      /\ meterLost \in Nat
    BY <1>s, MeterNat DEF MeterCounted, MeterShares
<1>f. "loop" \in Flushers /\ "shutdown" \in Flushers /\ Flushers = {"loop", "shutdown"}
    BY DEF Flushers
<1>1. ASSUME NEW span \in setting.spans, ConsumeTraces(span)
      PROVE  MeterCounted'
  <2>1. /\ UNCHANGED <<setting, meterHeld, meterLost, meterState, meterPush, processor>>
        /\ processor = "running" /\ consumed' = consumed + 1
        /\ IF "meter" \in setting.sinks THEN UpdateSpanMeterMetrics(span)
           ELSE UNCHANGED meterMetrics
      BY <1>1 DEF ConsumeTraces
  <2>2. meterState = "running"
      BY <2>1 DEF MeterCounted
  <2>3. /\ Counts(meterMetrics')
        /\ "meter" \in setting.sinks =>
             SumFunction(meterMetrics)' = SumFunction(meterMetrics) + 1
      BY <2>1, BagGrows DEF UpdateSpanMeterMetrics, MeterCounted, MeterShares
  <2>4. MeterTaken' = MeterTaken /\ MeterPushed' = MeterPushed
      BY <2>1 DEF MeterTaken, MeterPushed
  <2>5. MeterShares'
      BY <2>1, <2>3 DEF MeterCounted, MeterShares
  <2>6. "meter" \in setting.sinks =>
          consumed' = SumFunction(meterMetrics)' + meterLost' + MeterTaken' + MeterPushed'
      BY <1>n, <2>1, <2>3, <2>4 DEF MeterCounted
  <2> QED BY <2>1, <2>2, <2>5, <2>6 DEF MeterCounted
<1>2. CASE /\ UNCHANGED <<setting, connectorVars, consumed>>
           /\ processor = "stopped" => processor' = "stopped"
           /\ DOMAIN meterPush' = DOMAIN meterPush
           /\ \A i \in DOMAIN meterPush : meterPush'[i].batch = meterPush[i].batch
  <2>1. MeterPushed' = MeterPushed
      BY <1>s, <1>2, MeterKept
  <2>2. MeterTaken' = MeterTaken
      BY <1>2 DEF connectorVars, MeterTaken
  <2> QED BY <1>2, <2>1, <2>2 DEF connectorVars, MeterCounted, MeterShares
<1>3. CASE FlushMeter
  <2>1. /\ UNCHANGED <<setting, processor, consumed, meterLost, meterState, meterPush>>
        /\ meterHeld["loop"] = EmptyBag /\ TakeMeter("loop")
      BY <1>3 DEF FlushMeter, MeterTick, counts
  <2>2. /\ MeterShares' /\ meterMetrics' = EmptyBag
        /\ \A g \in Flushers : g # "loop" => meterHeld'[g] = meterHeld[g]
        /\ (SumFunction(meterMetrics) + meterLost + MeterTaken + MeterPushed)'
             = SumFunction(meterMetrics) + meterLost + MeterTaken + MeterPushed
      BY <1>f, <1>s, <2>1, MeterTakes DEF MeterCounted
  <2> QED BY <1>f, <2>1, <2>2 DEF MeterCounted
<1>4. CASE StopMeter
  <2>1. /\ UNCHANGED <<setting, processor, consumed, meterLost, meterPush>>
        /\ processor = "stopped" /\ meterState = "running" /\ meterState' = "flushed"
        /\ TakeMeter("shutdown")
      BY <1>4 DEF StopMeter, ShutdownMeter, counts
  <2>2. /\ MeterShares' /\ meterMetrics' = EmptyBag
        /\ (SumFunction(meterMetrics) + meterLost + MeterTaken + MeterPushed)'
             = SumFunction(meterMetrics) + meterLost + MeterTaken + MeterPushed
      BY <1>f, <1>s, <2>1, MeterTakes DEF MeterCounted
  <2> QED BY <2>1, <2>2 DEF MeterCounted
<1>5. CASE /\ MeterStep
           /\ UNCHANGED <<setting, aggregate, metricVars, traceVars, processor, now, counts>>
  <2>1. ASSUME NEW f \in Flushers, HandOn(f)
        PROVE  MeterCounted'
    <3>1. /\ MeterShares' /\ UNCHANGED <<meterMetrics, meterState>> /\ meterHeld'[f] = EmptyBag
          /\ \A g \in Flushers : g # f => meterHeld'[g] = meterHeld[g]
          /\ (SumFunction(meterMetrics) + meterLost + MeterTaken + MeterPushed)'
               = SumFunction(meterMetrics) + meterLost + MeterTaken + MeterPushed
        BY <1>s, <2>1, MeterHandsOn DEF MeterCounted
    <3> QED BY <1>5, <1>f, <3>1 DEF MeterCounted, counts
  <2>2. CASE MeterStops
    <3>1. /\ meterState = "flushed" /\ meterState' = "stopped"
          /\ UNCHANGED <<meterMetrics, meterHeld, meterLost, meterPush>>
        BY <2>2 DEF MeterStops
    <3>2. MeterTaken' = MeterTaken /\ MeterPushed' = MeterPushed
        BY <3>1 DEF MeterTaken, MeterPushed
    <3> QED BY <1>5, <3>1, <3>2 DEF MeterCounted, MeterShares, counts
  <2>3. CASE MeterExports
      BY <1>2, <1>5, <1>s, <2>3, MeterBatchesKept DEF counts
  <2> QED BY <1>5, <2>1, <2>2, <2>3 DEF MeterStep, MeterExports
<1>6. ASSUME \/ ExportMetrics \/ ShutdownProcessor \/ LoopReturns \/ UNCHANGED vars
             \/ \E point \in setting.points : ReceivePoint(point)
             \/ UNCHANGED <<setting, aggregate, traceVars, meterVars, processor, now, counts>>
             \/ UNCHANGED <<setting, aggregate, metricVars, meterVars, processor, now, counts>>
      PROVE  MeterCounted'
  <2>1. /\ UNCHANGED <<setting, connectorVars, consumed, meterPush>>
        /\ processor = "stopped" => processor' = "stopped"
      BY <1>6 DEF ExportMetrics, ShutdownProcessor, LoopReturns, ReceivePoint, vars, meterVars,
         counts
  <2> QED BY <1>2, <2>1
<1> QED BY <1>1, <1>3, <1>4, <1>5, <1>6 DEF Next

(* Every span is counted once for each call that aggregates it: with delta  *)
(* temporality it is then in one flush, pushed or refused, or still in the  *)
(* aggregate, and the meter has it in its aggregate, in a flush, in a push  *)
(* or among those the queue refused, none of them in the aggregate once it  *)
(* has stopped.                                                             *)
THEOREM SpansCountedOnce == Spec => []DeltaConserved
PROOF
<1>1. Init => CallsInv /\ MeterCounted
    BY CallsInit, MeterInit
<1>2. IInv /\ (CallsInv /\ MeterCounted) /\ [Next]_vars => (CallsInv /\ MeterCounted)'
    BY CallsStep, MeterCountedStep
<1>3. CallsInv /\ MeterCounted => DeltaConserved
    BY DEF CallsInv, CallsPushed, MeterCounted, MeterTaken, MeterPushed, DeltaConserved
<1> QED BY <1>1, <1>2, <1>3, Invariant, PTL DEF Spec

-----------------------------------------------------------------------------
(* Stored series are well formed. *)

(* The limits a span may have passed. *)
ServicesOver(ops) == Cardinality(DOMAIN ops) > setting.maxServices

OperationsOver(ops, s) == s \in DOMAIN ops /\ Cardinality(ops[s]) > setting.maxOperations

(* The names that are tracked are finitely many, and become more. *)
OpsFinite(ops) == IsFiniteSet(DOMAIN ops) /\ \A s \in DOMAIN ops : IsFiniteSet(ops[s])

OpsGrow(ops, more) ==
  DOMAIN ops \subseteq DOMAIN more /\ \A s \in DOMAIN ops : ops[s] \subseteq more[s]

(* A key and the dimensions it was cached with, of a cache or of a point. *)
Pair(key, dims) == [key |-> key, dims |-> dims]

PairsOf(a) ==
  UNION {{Pair(key, a.cache[k].dims[key]) : key \in DOMAIN a.cache[k].dims} : k \in Kinds}

(* The time bucket of a key, and the key with its dimensions. *)
Bucket(t) == IF setting.delta THEN t \in Nat ELSE t = None

Shaped(z) ==
  \/ \E t, a, b, c, d, k : Bucket(t) /\ z = Pair(<<t, a, b, k>>, <<c, d, k>>)
  \/ \E t, a, b : Bucket(t) /\ z = Pair(<<t, a, b>>, <<a, b>>)
  \/ \E t, a : Bucket(t) /\ z = Pair(<<t, a>>, <<a>>)

(* Where the names of the key differ from the dimensions, limits have been  *)
(* passed for good.                                                         *)
Limited(z, ops) ==
  /\ Passed(z) \subseteq {1, 2}
  /\ 1 \in Passed(z) => ServicesOver(ops)
  /\ Passed(z) = {2} => OperationsOver(ops, z.dims[1])

(* Dimensions that have passed the same limits are those of one key. *)
Orderly(S, ops) ==
  /\ \A z \in S : Shaped(z) /\ Limited(z, ops)
  /\ \A y, z \in S : y.dims = z.dims /\ Passed(y) = Passed(z) /\ Passed(z) # {} => y.key = z.key

(* The keys of a span, with its own names and with those of an overflow. *)
KeyOf(kind, x, j) ==
  CASE kind = "external" -> <<AddTimeToKey(x), x.service, RemoteAddress(x)>>
    [] kind = "db"       -> <<AddTimeToKey(x), x.service>>
    [] OTHER             -> <<AddTimeToKey(x), IF j \in {1, 2} THEN x.service ELSE Overflow,
                              IF j \in {1, 3} THEN x.operation ELSE Overflow, x.kind>>

IsKey(kind, key) == \E x \in setting.spans : \E j \in 1..4 : key = KeyOf(kind, x, j)

KeysOf(kind, c) == \A key \in DOMAIN c.dims : IsKey(kind, key)

(* The LRU has every known key once. *)
Lrus(D) == {s \in Seq(D) : IsInjective(s) /\ Range(s) = D}

AllRecent(c) == c.lru \in Lrus(DOMAIN c.dims)

Keyed(a) ==
  /\ \A k \in Kinds : KeysOf(k, a.cache[k])
  /\ Roomy => \A k \in Kinds : AllRecent(a.cache[k])

(* The metrics of a flush. *)
Metrics ==
  {[kind |-> "calls", name |-> "calls", type |-> "sum"],
   [kind |-> "latency", name |-> "latency", type |-> "histogram"],
   [kind |-> "external", name |-> "external_sum", type |-> "sum"],
   [kind |-> "external", name |-> "external_count", type |-> "sum"],
   [kind |-> "db", name |-> "db_sum", type |-> "sum"],
   [kind |-> "db", name |-> "db_count", type |-> "sum"],
   [kind |-> "exp", name |-> "latency", type |-> "exponential"]}

(* The points the processor has pushed. *)
Pushed    == UNION {metricPush[i].points : i \in DOMAIN metricPush}
OwnPoints == {p \in Pushed : p.key # NoKey}
OwnPairs  == {Pair(p.key, p.dims) : p \in OwnPoints}

(* A point of the metric m. *)
PointOf(p, m) ==
  /\ p = Point(m.name, m.type, p.dims, p.time, p.value, p.key)
  /\ p.value \in Nat
  /\ IF Timed(p.key) THEN p.time = FirstSegment(p.key) ELSE p.time \in 0..now
  /\ ~setting.delta /\ Roomy =>
       p.key \in DOMAIN hist[m.kind] /\ p.value <= hist[m.kind][p.key]

PointsKnown == \A p \in OwnPoints : \E m \in Metrics : PointOf(p, m)

(* Points of a cumulative series at one time are one, and values grow. *)
PointsAgree ==
  \A p, q \in OwnPoints :
    /\ ~setting.delta /\ p.name = q.name /\ p.type = q.type /\ p.key = q.key
    /\ ~Timed(p.key)
    => /\ p.time = q.time => p = q
       /\ Roomy /\ p.time < q.time => p.value <= q.value

RowsKnown ==
  \A a \in metricTable["samples"] :
    a = [series |-> a.series, of |-> a.of] /\ a.of \in Pushed /\ a.series \in SeriesOf(a.of)

SeriesInv ==
  /\ OpsFinite(operations) /\ now \in Nat /\ RowsKnown
  /\ Keyed(Aggregate) /\ Orderly(OwnPairs \cup PairsOf(Aggregate), operations)
  /\ PointsKnown /\ PointsAgree

(* A set of natural numbers has a smallest element, *)
LEMMA SmallestIs ==
  ASSUME NEW T \in SUBSET Nat, T # {}
  PROVE  Min(T) \in T
PROOF
<1> DEFINE G == {n \in Nat : \A t \in T : n <= t} \ T
<1>1. SUFFICES ASSUME ~\E x \in T : \A y \in T : x <= y
               PROVE  FALSE
    BY DEF Min
<1>2. 0 \in G
    BY <1>1
<1>3. ASSUME NEW n \in Nat, n \in G PROVE n + 1 \in G
  <2>1. \A t \in T : n + 1 <= t
      BY <1>3
  <2> QED BY <1>1, <2>1
<1> HIDE DEF G
<1>4. Nat \subseteq G
    BY <1>2, <1>3, NatInduct
<1> QED BY <1>4 DEF G

(* and one with a bound has a largest. *)
LEMMA LargestIs ==
  ASSUME NEW n \in Nat, NEW T \in SUBSET (1..n), T # {}
  PROVE  Max(T) \in T /\ \A y \in T : y <= Max(T)
PROOF
<1> DEFINE Has(S) == \E x \in S : \A y \in S : x >= y
           G == {m \in Nat : \A S \in SUBSET (1..m) : S # {} => Has(S)}
<1>1. 0 \in G
  <2>1. 1..0 = {}
      OBVIOUS
  <2> QED BY <2>1
<1>2. ASSUME NEW m \in Nat, m \in G PROVE m + 1 \in G
  <2> SUFFICES ASSUME NEW S \in SUBSET (1..(m + 1)), S # {} PROVE Has(S)
      OBVIOUS
  <2>1. CASE m + 1 \in S
      BY <2>1
  <2>2. CASE m + 1 \notin S
    <3>1. S \in SUBSET (1..m)
        BY <2>2
    <3> QED BY <1>2, <3>1
  <2> QED BY <2>1, <2>2
<1> HIDE DEF G
<1>3. n \in G
    BY <1>1, <1>2, NatInduct
<1>4. Has(T)
    BY <1>3 DEF G
<1>5. Max(T) \in T /\ \A y \in T : Max(T) >= y
    BY <1>4 DEF Max
<1>6. T \subseteq Int
    OBVIOUS
<1> QED BY <1>5, <1>6

(* A sequence without one of its elements. *)
LEMMA RemoveFirstIs ==
  ASSUME NEW s, Sequence(s), IsInjective(s), NEW e \in Range(s)
  PROVE  LET t == RemoveFirst(s, e)
         IN  Sequence(t) /\ IsInjective(t) /\ Range(t) = Range(s) \ {e}
PROOF
<1> DEFINE I == {i \in 1..Len(s) : s[i] = e}
           n == Min(I)
           t == RemoveFirst(s, e)
<1>1. Len(s) \in Nat /\ DOMAIN s = 1..Len(s) /\ s \in Seq(Range(s))
    BY DEF Sequence
<1>2. I # {} /\ I \in SUBSET Nat
    BY <1>1 DEF Range
<1>3. n \in 1..Len(s) /\ s[n] = e
    BY <1>2, SmallestIs
<1>4. t = SubSeq(s, 1, n - 1) \o SubSeq(s, n + 1, Len(s))
    BY <1>2 DEF RemoveFirst, RemoveAt, SelectInSeq
<1> HIDE DEF n
<1> DEFINE u == SubSeq(s, 1, n - 1)
           v == SubSeq(s, n + 1, Len(s))
           l == Len(s)
<1>5. /\ u \in Seq(Range(s)) /\ Len(u) = n - 1 /\ \A i \in 1..(n - 1) : u[i] = s[i]
      /\ v \in Seq(Range(s)) /\ Len(v) = l - n /\ \A i \in 1..(l - n) : v[i] = s[n + i]
  <2>1. \A i \in 1..l : s[i] \in Range(s)
      BY <1>1 DEF Range
  <2>2. /\ u \in Seq(Range(s)) /\ Len(u) = n - 1 /\ \A i \in 1..(n - 1) : u[i] = s[i]
    <3>1. 1 \in Int /\ n - 1 \in Int /\ \A i \in 1..(n - 1) : s[i] \in Range(s)
        BY <1>1, <1>3, <2>1
    <3>2. /\ u \in Seq(Range(s)) /\ Len(u) = IF 1 <= n - 1 THEN n - 1 - 1 + 1 ELSE 0
          /\ \A i \in 1..(n - 1 - 1 + 1) : u[i] = s[1 + i - 1]
        BY <3>1, SubSeqProperties
    <3> HIDE DEF u
    <3> QED BY <1>1, <1>3, <3>2
  <2>3. v \in Seq(Range(s)) /\ Len(v) = l - n /\ \A i \in 1..(l - n) : v[i] = s[n + i]
    <3>1. n + 1 \in Int /\ l \in Int /\ \A i \in (n + 1)..l : s[i] \in Range(s)
        BY <1>1, <1>3, <2>1
    <3>2. /\ v \in Seq(Range(s)) /\ Len(v) = IF n + 1 <= l THEN l - (n + 1) + 1 ELSE 0
          /\ \A i \in 1..(l - (n + 1) + 1) : v[i] = s[(n + 1) + i - 1]
        BY <3>1, SubSeqProperties
    <3> HIDE DEF v
    <3> QED BY <1>1, <1>3, <3>2
  <2> QED BY <2>2, <2>3
<1> HIDE DEF u, v
<1>6. /\ t \in Seq(Range(s)) /\ Len(t) = l - 1
      /\ \A i \in 1..(l - 1) : t[i] = IF i < n THEN s[i] ELSE s[i + 1]
  <2>1. /\ t \in Seq(Range(s)) /\ Len(t) = Len(u) + Len(v)
        /\ \A i \in 1..(Len(u) + Len(v)) : t[i] = IF i <= Len(u) THEN u[i] ELSE v[i - Len(u)]
      BY <1>4, <1>5, ConcatProperties DEF u, v
  <2> HIDE DEF t
  <2>2. Len(u) + Len(v) = l - 1
      BY <1>1, <1>3, <1>5
  <2>3. ASSUME NEW i \in 1..(l - 1) PROVE t[i] = IF i < n THEN s[i] ELSE s[i + 1]
    <3>1. CASE i < n
      <4>1. i \in 1..(n - 1) /\ i <= n - 1
          BY <1>1, <1>3, <3>1
      <4> QED BY <1>5, <2>1, <2>2, <3>1, <4>1
    <3>2. CASE ~(i < n)
      <4>1. i - (n - 1) \in 1..(l - n) /\ n + (i - (n - 1)) = i + 1 /\ ~(i <= n - 1)
          BY <1>1, <1>3, <3>2
      <4> QED BY <1>5, <2>1, <2>2, <3>2, <4>1
    <3> QED BY <3>1, <3>2
  <2> QED BY <2>1, <2>2, <2>3
<1> HIDE DEF t
<1>7. DOMAIN t = 1..(l - 1) /\ l - 1 \in Nat
  <2>1. l - 1 \in Nat
      BY <1>1, <1>3
  <2>2. DOMAIN t = 1..Len(t)
      BY <1>6
  <2> QED BY <1>6, <2>1, <2>2
<1>8. Sequence(t)
  <2>1. t = [i \in 1..(l - 1) |-> t[i]]
      BY <1>6, <1>7
  <2>2. l - 1 \in Nat /\ DOMAIN t = 1..(l - 1)
      BY <1>7
  <2> HIDE DEF l
  <2> QED BY <2>1, <2>2, SequenceIs
<1> DEFINE at(i) == IF i < n THEN i ELSE i + 1
<1>9. ASSUME NEW i \in DOMAIN t
      PROVE  at(i) \in DOMAIN s /\ at(i) # n /\ t[i] = s[at(i)]
    BY <1>1, <1>3, <1>6, <1>7
<1>10. IsInjective(t)
  <2> SUFFICES ASSUME NEW i \in DOMAIN t, NEW j \in DOMAIN t, t[i] = t[j] PROVE i = j
      BY DEF IsInjective
  <2>1. at(i) = at(j)
      BY <1>9 DEF IsInjective
  <2> QED BY <1>3, <1>7, <2>1
<1>11. ASSUME NEW x \in Range(t) PROVE x \in Range(s) \ {e}
    BY <1>1, <1>3, <1>9 DEF Range, IsInjective
<1>12. ASSUME NEW x \in Range(s), x # e PROVE x \in Range(t)
  <2>1. PICK j \in DOMAIN s : x = s[j]
      BY DEF Range
  <2>2. j # n
      BY <1>12, <1>3, <2>1
  <2> DEFINE i == IF j < n THEN j ELSE j - 1
  <2>3. i \in 1..(l - 1) /\ at(i) = j
      BY <1>1, <1>3, <2>2
  <2> HIDE DEF i
  <2>4. t[i] = x /\ i \in DOMAIN t
      BY <1>7, <1>9, <2>1, <2>3
  <2> QED BY <2>4 DEF Range
<1> QED BY <1>8, <1>10, <1>11, <1>12 DEF t

(* One more element. *)
LEMMA AppendIs ==
  ASSUME NEW s, Sequence(s), IsInjective(s), NEW e, e \notin Range(s)
  PROVE  LET t == Append(s, e)
         IN  Sequence(t) /\ IsInjective(t) /\ Range(t) = Range(s) \cup {e}
PROOF
<1> DEFINE t == Append(s, e)
<1>1. Sequence(t) /\ AppendsTo(s, t, e)
    BY AppendsToIs
<1> HIDE DEF t
<1>2. PICK n : /\ n \notin DOMAIN s /\ DOMAIN t = DOMAIN s \cup {n} /\ t[n] = e
               /\ \A j \in DOMAIN s : t[j] = s[j]
    BY <1>1 DEF AppendsTo
<1>3. IsInjective(t)
    BY <1>2 DEF IsInjective, Range
<1>4. Range(t) = Range(s) \cup {e}
    BY <1>2 DEF Range
<1> QED BY <1>1, <1>3, <1>4 DEF t

(* A sequence of different elements is as long as there are elements. *)
LEMMA DifferentLen ==
  ASSUME NEW s, Sequence(s), IsInjective(s), IsFiniteSet(Range(s))
  PROVE  Len(s) \in Nat /\ Len(s) <= Cardinality(Range(s)) /\ Cardinality(Range(s)) \in Nat
PROOF
<1>1. Len(s) \in Nat /\ DOMAIN s = 1..Len(s) /\ s \in [1..Len(s) -> Range(s)]
    BY DEF Sequence, Range
<1>2. s \in Injection(1..Len(s), Range(s))
    BY <1>1 DEF Injection, IsInjective
<1>3. Cardinality(1..Len(s)) <= Cardinality(Range(s))
    BY <1>2, FS_Injection
<1>4. Cardinality(1..Len(s)) = Len(s)
    BY <1>1, FS_Interval
<1>5. Cardinality(Range(s)) \in Nat
    BY FS_CardinalityType
<1> QED BY <1>1, <1>3, <1>4, <1>5

(* An LRU that has each of the keys D once. *)
LEMMA LrusAre ==
  ASSUME NEW s, NEW D
  PROVE  s \in Lrus(D) <=> Sequence(s) /\ IsInjective(s) /\ Range(s) = D
PROOF
  BY DEF Lrus, Sequence

(* The cache has room for the keys D. *)
Room(D) == IsFiniteSet(D) /\ Cardinality(D) <= setting.cacheSize

(* No key drops out of an LRU with room. *)
LEMMA NewestIs ==
  ASSUME NEW D, Room(D), setting.cacheSize \in Nat, NEW s \in Lrus(D)
  PROVE  Newest(s) = s
PROOF
<1>1. Sequence(s) /\ IsInjective(s) /\ Range(s) = D
    BY LrusAre
<1>2. Len(s) \in Nat /\ Len(s) <= Cardinality(D) /\ Cardinality(D) \in Nat
    BY <1>1, DifferentLen DEF Room
<1>3. ~(Len(s) > setting.cacheSize)
    BY <1>2 DEF Room
<1> QED BY <1>3 DEF Newest

(* A known key is touched, *)
LEMMA TouchIs ==
  ASSUME NEW D, Room(D), setting.cacheSize \in Nat, NEW s \in Lrus(D), NEW key \in D
  PROVE  Touch(s, key) \in Lrus(D)
PROOF
<1> DEFINE r == RemoveFirst(s, key)
           t == Append(r, key)
<1>1. Sequence(s) /\ IsInjective(s) /\ Range(s) = D
    BY LrusAre
<1>2. Sequence(r) /\ IsInjective(r) /\ Range(r) = D \ {key}
    BY <1>1, RemoveFirstIs
<1> HIDE DEF r
<1>3. Sequence(t) /\ IsInjective(t) /\ Range(t) = Range(r) \cup {key}
    BY <1>2, AppendIs
<1> HIDE DEF t
<1>4. Range(t) = D
    BY <1>2, <1>3
<1>5. t \in Lrus(D)
    BY <1>3, <1>4, LrusAre
<1>6. Newest(t) = t
    BY <1>5, NewestIs
<1> QED BY <1>5, <1>6 DEF Touch, r, t

(* and a new one is added. *)
LEMMA AddedIs ==
  ASSUME NEW D, NEW key, key \notin D, Room(D \cup {key}), setting.cacheSize \in Nat,
         NEW s \in Lrus(D)
  PROVE  Newest(Append(s, key)) \in Lrus(D \cup {key})
PROOF
<1> DEFINE t == Append(s, key)
           E == D \cup {key}
<1>1. Sequence(s) /\ IsInjective(s) /\ Range(s) = D
    BY LrusAre
<1>2. Sequence(t) /\ IsInjective(t) /\ Range(t) = E
    BY <1>1, AppendIs
<1> HIDE DEF t, E
<1>3. t \in Lrus(E)
    BY <1>2, LrusAre
<1>4. Newest(t) = t
    BY <1>3, NewestIs DEF E
<1> QED BY <1>3, <1>4 DEF t, E

(* The LRU after some of the keys of an order have been touched. *)
Touched(base, order, n, g) ==
  g = [s \in SUBSET (1..n) |->
         IF s = {} THEN base ELSE Touch(g[s \ {Max(s)}], order[Max(s)])]

(* Numbers without the largest. *)
LEMMA BelowMax ==
  ASSUME NEW n \in Nat, NEW s \in SUBSET (1..(n + 1)), s # {}
  PROVE  s \ {Max(s)} \in SUBSET (1..n) /\ Max(s) \in 1..(n + 1)
PROOF
<1>1. n + 1 \in Nat
    OBVIOUS
<1>2. Max(s) \in s /\ \A y \in s : y <= Max(s)
    BY <1>1, LargestIs
<1> DEFINE m == Max(s)
<1> HIDE DEF m
<1>3. m \in s /\ \A y \in s : y <= m
    BY <1>2 DEF m
<1>4. s \ {m} \in SUBSET (1..n) /\ m \in 1..(n + 1)
    BY <1>3
<1> QED BY <1>4 DEF m

(* There is one after each. *)
LEMMA TouchedExists ==
  ASSUME NEW base, NEW order, NEW n \in Nat
  PROVE  \E g : Touched(base, order, n, g)
PROOF
<1> DEFINE Good == {m \in Nat : \E g : Touched(base, order, m, g)}
<1>1. 0 \in Good
  <2> DEFINE g == [s \in SUBSET (1..0) |-> base]
  <2>1. \A s \in SUBSET (1..0) : s = {}
      OBVIOUS
  <2>2. Touched(base, order, 0, g)
      BY <2>1 DEF Touched
  <2> QED BY <2>2
<1>2. ASSUME NEW m \in Nat, m \in Good PROVE m + 1 \in Good
  <2>1. PICK g : Touched(base, order, m, g)
      BY <1>2
  <2> DEFINE h == [s \in SUBSET (1..(m + 1)) |->
                     IF s = {} THEN base ELSE Touch(g[s \ {Max(s)}], order[Max(s)])]
  <2>2. SUBSET (1..m) \subseteq SUBSET (1..(m + 1))
      OBVIOUS
  <2>3. ASSUME NEW s \in SUBSET (1..m) PROVE h[s] = g[s]
      BY <2>1, <2>2 DEF Touched
  <2>4. ASSUME NEW s \in SUBSET (1..(m + 1)), s # {}
        PROVE  h[s \ {Max(s)}] = g[s \ {Max(s)}]
      BY <2>3, <2>4, BelowMax
  <2>5. Touched(base, order, m + 1, h)
      BY <2>4 DEF Touched
  <2> HIDE DEF h
  <2> QED BY <2>5
<1> HIDE DEF Good
<1>3. n \in Good
    BY <1>1, <1>2, NatInduct
<1> QED BY <1>3 DEF Good

(* Touching all keys of an order, one after the other, keeps them all. *)
LEMMA TouchAllIs ==
  ASSUME NEW D, Room(D), setting.cacheSize \in Nat, NEW lru \in Lrus(D),
         NEW n \in Nat, NEW order, DOMAIN order = 1..n, \A i \in 1..n : order[i] \in D
  PROVE  FoldLeft(Touch, lru, order) \in Lrus(D)
PROOF
<1>1. PICK g : Touched(lru, order, n, g)
    BY TouchedExists
<1>2. \E h : Touched(lru, order, n, h) /\ FoldLeft(Touch, lru, order) = h[1..n]
    BY <1>1 DEF FoldLeft, MapThenFoldSet, Touched
<1>3. PICK h : Touched(lru, order, n, h) /\ FoldLeft(Touch, lru, order) = h[1..n]
    BY <1>2
<1> DEFINE Kept(m) == \A s \in SUBSET (1..m) : h[s] \in Lrus(D)
           Good == {m \in Nat : m <= n => Kept(m)}
<1>4. 0 \in Good
  <2>1. \A s \in SUBSET (1..0) : s = {}
      OBVIOUS
  <2>2. h[{}] = lru
      BY <1>3 DEF Touched
  <2> QED BY <2>1, <2>2
<1>5. ASSUME NEW m \in Nat, m \in Good PROVE m + 1 \in Good
  <2>1. ASSUME m + 1 <= n, NEW s \in SUBSET (1..(m + 1)) PROVE h[s] \in Lrus(D)
    <3>1. CASE s = {}
        BY <1>3, <3>1 DEF Touched
    <3>2. CASE s # {}
      <4>1. s \ {Max(s)} \in SUBSET (1..m) /\ Max(s) \in 1..(m + 1)
          BY <3>2, BelowMax
      <4>2. m <= n /\ Max(s) \in 1..n /\ s \in SUBSET (1..n)
          BY <2>1, <4>1
      <4>3. h[s \ {Max(s)}] \in Lrus(D)
          BY <1>5, <4>1, <4>2
      <4>4. h[s] = Touch(h[s \ {Max(s)}], order[Max(s)])
          BY <1>3, <3>2, <4>2 DEF Touched
      <4> QED BY <4>2, <4>3, <4>4, TouchIs
    <3> QED BY <3>1, <3>2
  <2>2. m + 1 <= n => Kept(m + 1)
      BY <2>1
  <2> HIDE DEF Kept
  <2> QED BY <2>2
<1> HIDE DEF Good
<1>6. n \in Good
    BY <1>4, <1>5, NatInduct
<1> QED BY <1>3, <1>6 DEF Good

(* The first numbers. *)
LEMMA NumbersAre ==
  ASSUME NEW n \in Nat
  PROVE  IsFiniteSet(1..n) /\ Cardinality(1..n) = n
PROOF
<1>1. IsFiniteSet(1..n)
    BY FS_Interval
<1>2. Cardinality(1..n) = n
    BY FS_Interval
<1> QED BY <1>1, <1>2

(* There is room for the keys of spans. *)
LEMMA RoomIs ==
  ASSUME setting \in Settings, Roomy, NEW kind, NEW D, \A key \in D : IsKey(kind, key)
  PROVE  Room(D) /\ setting.cacheSize \in Nat
PROOF
<1> DEFINE P == setting.spans \X (1..4)
           T == {KeyOf(kind, y[1], y[2]) : y \in P}
           f == [y \in P |-> KeyOf(kind, y[1], y[2])]
<1>0. setting.cacheSize \in Nat
    BY SpanAssumption DEF SpanAssumption
<1>1. f \in Surjection(P, T)
    BY DEF Surjection
<1>2. D \in SUBSET T
  <2> SUFFICES ASSUME NEW key \in D PROVE key \in T
      OBVIOUS
  <2>1. PICK x \in setting.spans, j \in 1..4 : key = KeyOf(kind, x, j)
      BY DEF IsKey
  <2>2. <<x, j>> \in P /\ <<x, j>>[1] = x /\ <<x, j>>[2] = j
      OBVIOUS
  <2>3. key = KeyOf(kind, <<x, j>>[1], <<x, j>>[2])
      BY <2>1, <2>2
  <2> QED BY <2>2, <2>3
<1>3. IsFiniteSet(1..4) /\ Cardinality(1..4) = 4
    BY NumbersAre
<1>4. /\ IsFiniteSet(setting.spans) /\ Cardinality(setting.spans) \in Nat
      /\ setting.cacheSize >= 4 * Cardinality(setting.spans)
    BY FS_CardinalityType DEF Roomy
<1>5. IsFiniteSet(P) /\ Cardinality(P) = Cardinality(setting.spans) * 4
    BY <1>3, <1>4, FS_Product
<1> HIDE DEF T, f, P
<1>6. IsFiniteSet(T) /\ Cardinality(T) <= Cardinality(P)
    BY <1>1, <1>5, FS_Surjection
<1>7. IsFiniteSet(D) /\ Cardinality(D) <= Cardinality(T)
    BY <1>2, <1>6, FS_Subset
<1>8. Cardinality(D) \in Nat /\ Cardinality(T) \in Nat /\ Cardinality(P) \in Nat
    BY <1>5, <1>6, <1>7, FS_CardinalityType
<1>9. Cardinality(D) <= setting.cacheSize
    BY <1>0, <1>4, <1>5, <1>6, <1>7, <1>8
<1> QED BY <1>0, <1>7, <1>9 DEF Room

(* The keys of a cache, and what is most recent. *)
CacheKeyed(kind, c) == KeysOf(kind, c) /\ (Roomy => AllRecent(c))

(* The key of a span is looked up or added. *)
LEMMA CachedKeyed ==
  ASSUME setting \in Settings, NEW c, c = [lru |-> c.lru, dims |-> c.dims], NEW kind,
         NEW key, IsKey(kind, key), NEW dims
  PROVE  LET d == Cached(c, key, dims)
         IN  /\ CacheKeyed(kind, c) => CacheKeyed(kind, d)
             /\ \A k \in DOMAIN d.dims : \/ k \in DOMAIN c.dims /\ d.dims[k] = c.dims[k]
                                         \/ k = key /\ d.dims[k] = dims
PROOF
<1> DEFINE d == Cached(c, key, dims)
<1>1. CASE key \in DOMAIN c.dims
  <2> DEFINE lru == Touch(c.lru, key)
  <2>1. d = [c EXCEPT !.lru = lru]
      BY <1>1 DEF Cached, Get
  <2>2. CacheKeyed(kind, c) /\ Roomy => lru \in Lrus(DOMAIN c.dims)
    <3> SUFFICES ASSUME CacheKeyed(kind, c), Roomy PROVE lru \in Lrus(DOMAIN c.dims)
        OBVIOUS
    <3>1. Room(DOMAIN c.dims) /\ setting.cacheSize \in Nat
        BY RoomIs DEF CacheKeyed, KeysOf
    <3>2. c.lru \in Lrus(DOMAIN c.dims)
        BY DEF CacheKeyed, AllRecent
    <3> QED BY <1>1, <3>1, <3>2, TouchIs
  <2> HIDE DEF lru, d
  <2>3. d.lru = lru /\ d.dims = c.dims
      BY <2>1
  <2> QED BY <2>2, <2>3 DEF CacheKeyed, KeysOf, AllRecent, d
<1>2. CASE key \notin DOMAIN c.dims
  <2> DEFINE lru == Newest(Append(c.lru, key))
             all == DOMAIN c.dims \cup {key}
             f == [k \in all |-> IF k = key THEN dims ELSE c.dims[k]]
  <2>1. d = [lru  |-> lru, dims |-> f]
      BY <1>2 DEF Cached, Add
  <2>2. CacheKeyed(kind, c) => \A k \in all : IsKey(kind, k)
      BY DEF CacheKeyed, KeysOf
  <2>3. CacheKeyed(kind, c) /\ Roomy => lru \in Lrus(all)
    <3> SUFFICES ASSUME CacheKeyed(kind, c), Roomy PROVE lru \in Lrus(all)
        OBVIOUS
    <3>1. Room(all) /\ setting.cacheSize \in Nat
        BY <2>2, RoomIs
    <3>2. c.lru \in Lrus(DOMAIN c.dims)
        BY DEF CacheKeyed, AllRecent
    <3> QED BY <1>2, <3>1, <3>2, AddedIs
  <2>4. \A k \in all : \/ k \in DOMAIN c.dims /\ f[k] = c.dims[k]
                       \/ k = key /\ f[k] = dims
      OBVIOUS
  <2> HIDE DEF lru
  <2>5. d.lru = lru /\ d.dims = f /\ DOMAIN f = all
      BY <2>1
  <2> HIDE DEF f, all, d
  <2> QED BY <2>2, <2>3, <2>4, <2>5 DEF CacheKeyed, KeysOf, AllRecent, d
<1> QED BY <1>1, <1>2

(* Values of histograms only grow. *)
HistGrows(a, b) ==
  \A k \in Kinds : \A key \in DOMAIN a.hist[k] :
    key \in DOMAIN b.hist[k] /\ a.hist[k][key] <= b.hist[k][key]

Sound(a) ==
  WellFormed(a) /\ OpsFinite(a.operations) /\ \A k \in Kinds : Counts(a.hist[k])

(* What is orderly stays so, next to whatever points there are. *)
OrderKept(a, b) ==
  \A S : Orderly(S \cup PairsOf(a), a.operations) => Orderly(S \cup PairsOf(b), b.operations)

(* What observations keep. *)
Leads(a, b) == Sound(b) /\ HistGrows(a, b) /\ (Keyed(a) => Keyed(b)) /\ OrderKept(a, b)

(* One step after the other. *)
LEMMA LeadsOn ==
  ASSUME NEW a, NEW b, NEW c, Sound(a), Leads(a, b), Leads(b, c)
  PROVE  Leads(a, c)
PROOF
<1>1. OrderKept(a, c)
    BY DEF Leads, OrderKept
<1>2. HistGrows(a, c)
  <2> SUFFICES ASSUME NEW k \in Kinds, NEW key \in DOMAIN a.hist[k]
               PROVE  key \in DOMAIN c.hist[k] /\ a.hist[k][key] <= c.hist[k][key]
      BY DEF HistGrows
  <2>1. /\ key \in DOMAIN b.hist[k] /\ a.hist[k][key] <= b.hist[k][key]
        /\ key \in DOMAIN c.hist[k] /\ b.hist[k][key] <= c.hist[k][key]
      BY DEF Leads, HistGrows
  <2>2. a.hist[k][key] \in Nat /\ b.hist[k][key] \in Nat /\ c.hist[k][key] \in Nat
      BY <2>1 DEF Leads, Sound, Counts
  <2> QED BY <2>1, <2>2
<1> QED BY <1>1, <1>2 DEF Leads

(* No step at all. *)
LEMMA LeadsSelf ==
  ASSUME NEW a, Sound(a)
  PROVE  Leads(a, a)
PROOF
<1>1. HistGrows(a, a)
  <2> SUFFICES ASSUME NEW k \in Kinds, NEW key \in DOMAIN a.hist[k]
               PROVE  a.hist[k][key] <= a.hist[k][key]
      BY DEF HistGrows
  <2>1. a.hist[k][key] \in Nat
      BY DEF Sound, Counts
  <2> QED BY <2>1
<1> QED BY <1>1 DEF Leads, OrderKept

(* Part of what is orderly is. *)
LEMMA OrderlyPart ==
  ASSUME NEW S, NEW ops, Orderly(S, ops), NEW T \in SUBSET S
  PROVE  Orderly(T, ops)
PROOF
  BY DEF Orderly

(* An observation of a key of a span. *)
LEMMA ObservesLeads ==
  ASSUME setting \in Settings, NEW a, NEW b, Sound(a), NEW kind \in Kinds, NEW key, NEW dims,
         Observes(a, b, kind, key, dims), OpsFinite(b.operations), IsKey(kind, key),
         \A S : Orderly(S, a.operations) => Orderly(S \cup {Pair(key, dims)}, b.operations)
  PROVE  Leads(a, b)
PROOF
<1> DEFINE h == UpdateHistogram(a.hist[kind], key)
<1>1. /\ WellFormed(b) /\ b.hist[kind] = h
      /\ b.cache[kind] = Cached(a.cache[kind], key, dims)
      /\ \A k \in Kinds : k # kind => b.hist[k] = a.hist[k] /\ b.cache[k] = a.cache[k]
    BY DEF Observes
<1>2. /\ \A k \in DOMAIN a.hist[kind] : k \in DOMAIN h /\ a.hist[kind][k] <= h[k]
      /\ Counts(h)
  <2>1. Counts(a.hist[kind])
      BY DEF Sound
  <2>2. Counts(h)
      BY <2>1, UpdateCounts
  <2>3. \A k \in DOMAIN a.hist[kind] : k \in DOMAIN h /\ a.hist[kind][k] <= h[k]
      BY <2>1 DEF Counts, UpdateHistogram
  <2> QED BY <2>2, <2>3
<1> HIDE DEF h
<1>3. Sound(b)
    BY <1>1, <1>2 DEF Sound
<1>4. HistGrows(a, b)
  <2> SUFFICES ASSUME NEW k \in Kinds, NEW y \in DOMAIN a.hist[k]
               PROVE  y \in DOMAIN b.hist[k] /\ a.hist[k][y] <= b.hist[k][y]
      BY DEF HistGrows
  <2>1. a.hist[k][y] \in Nat
      BY DEF Sound, Counts
  <2> QED BY <1>1, <1>2, <2>1
<1>5. /\ CacheKeyed(kind, a.cache[kind]) => CacheKeyed(kind, b.cache[kind])
      /\ \A k \in DOMAIN b.cache[kind].dims :
           \/ /\ k \in DOMAIN a.cache[kind].dims
              /\ b.cache[kind].dims[k] = a.cache[kind].dims[k]
           \/ k = key /\ b.cache[kind].dims[k] = dims
  <2>1. a.cache[kind] = [lru |-> a.cache[kind].lru, dims |-> a.cache[kind].dims]
      BY DEF Sound, WellFormed
  <2> QED BY <1>1, <2>1, CachedKeyed
<1>6. ASSUME Keyed(a) PROVE Keyed(b)
  <2>1. \A k \in Kinds : CacheKeyed(k, a.cache[k])
      BY <1>6 DEF Keyed, CacheKeyed
  <2>2. \A k \in Kinds : CacheKeyed(k, b.cache[k])
      BY <1>1, <1>5, <2>1
  <2> QED BY <2>2 DEF Keyed, CacheKeyed
<1>7. ASSUME NEW z \in PairsOf(b) PROVE z \in PairsOf(a) \cup {Pair(key, dims)}
  <2>1. PICK k \in Kinds : \E y \in DOMAIN b.cache[k].dims : z = Pair(y, b.cache[k].dims[y])
      BY DEF PairsOf
  <2>2. PICK y \in DOMAIN b.cache[k].dims : z = Pair(y, b.cache[k].dims[y])
      BY <2>1
  <2>3. \/ y \in DOMAIN a.cache[k].dims /\ b.cache[k].dims[y] = a.cache[k].dims[y]
        \/ y = key /\ b.cache[k].dims[y] = dims
      BY <1>1, <1>5
  <2> QED BY <2>2, <2>3 DEF PairsOf
<1>8. OrderKept(a, b)
  <2> SUFFICES ASSUME NEW S, Orderly(S \cup PairsOf(a), a.operations)
               PROVE  Orderly(S \cup PairsOf(b), b.operations)
      BY DEF OrderKept
  <2>1. Orderly((S \cup PairsOf(a)) \cup {Pair(key, dims)}, b.operations)
      OBVIOUS
  <2>2. S \cup PairsOf(b) \in SUBSET ((S \cup PairsOf(a)) \cup {Pair(key, dims)})
      BY <1>7
  <2> QED BY <2>1, <2>2, OrderlyPart
<1> QED BY <1>3, <1>4, <1>6, <1>8 DEF Leads

(* More tuples put together. *)
LEMMA OneAndOne ==
  ASSUME NEW a, NEW b
  PROVE  <<a>> \o <<b>> = <<a, b>>
PROOF
<1> DEFINE S == {a, b}
           s == <<a>> \o <<b>>
           u == <<a, b>>
<1>1. <<a>> \in Seq(S) /\ <<b>> \in Seq(S)
    OBVIOUS
<1>2. s \in Seq(S) /\ Len(s) = 2 /\ s[1] = a /\ s[2] = b
    BY <1>1
<1>3. u \in Seq(S) /\ Len(u) = 2 /\ u[1] = a /\ u[2] = b
    OBVIOUS
<1> HIDE DEF s, S, u
<1>4. \A i \in 1..Len(s) : s[i] = u[i]
    BY <1>2, <1>3
<1>5. s = u
    BY <1>2, <1>3, <1>4, SeqEqual
<1> QED BY <1>5 DEF s, u

(* The keys of calls to others. *)
LEMMA CustomIs ==
  ASSUME NEW x
  PROVE  /\ CustomKey(x, <<RemoteAddress(x)>>) = <<AddTimeToKey(x), x.service, RemoteAddress(x)>>
         /\ CustomDimensions(x, <<RemoteAddress(x)>>) = <<x.service, RemoteAddress(x)>>
         /\ CustomKey(x, << >>) = <<AddTimeToKey(x), x.service>>
         /\ CustomDimensions(x, << >>) = <<x.service>>
PROOF
<1> DEFINE t == AddTimeToKey(x)
           s == x.service
           r == RemoteAddress(x)
<1>1. <<t, s>> \o <<r>> = <<t, s, r>> /\ <<s>> \o <<r>> = <<s, r>>
    BY TwoAndOne, OneAndOne
<1>2. <<t, s>> \o << >> = <<t, s>> /\ <<s>> \o << >> = <<s>>
  <2>1. <<t, s>> \in Seq({t, s}) /\ <<s>> \in Seq({t, s})
      OBVIOUS
  <2> QED BY <2>1, ConcatEmptySeq
<1> QED BY <1>1, <1>2 DEF CustomKey, CustomDimensions

(* A name is tracked. *)
LEMMA TrackedIs ==
  ASSUME NEW ops, OpsFinite(ops), NEW name
  PROVE  OpsFinite(Tracked(ops, name)) /\ OpsGrow(ops, Tracked(ops, name))
PROOF
<1> DEFINE more == Tracked(ops, name)
<1>1. DOMAIN more = DOMAIN ops \cup {name[1]}
    BY DEF Tracked
<1>2. ASSUME NEW s \in DOMAIN more
      PROVE  more[s] = (IF s \in DOMAIN ops THEN ops[s] ELSE {})
                          \cup (IF s = name[1] THEN {name[2]} ELSE {})
    BY DEF Tracked
<1> HIDE DEF more
<1>3. OpsGrow(ops, more)
    BY <1>1, <1>2 DEF OpsGrow
<1>4. IsFiniteSet(DOMAIN more)
    BY <1>1, FS_AddElement DEF OpsFinite
<1>5. ASSUME NEW s \in DOMAIN more PROVE IsFiniteSet(more[s])
  <2> DEFINE S == IF s \in DOMAIN ops THEN ops[s] ELSE {}
  <2>1. IsFiniteSet(S)
      BY FS_EmptySet DEF OpsFinite
  <2>2. more[s] = S \/ more[s] = S \cup {name[2]}
      BY <1>2
  <2> HIDE DEF S
  <2> QED BY <2>1, <2>2, FS_AddElement
<1> QED BY <1>3, <1>4, <1>5 DEF OpsFinite, more

(* A limit that has been passed stays passed. *)
LEMMA OverGrows ==
  ASSUME setting \in Settings, NEW ops, NEW more, OpsGrow(ops, more), OpsFinite(more)
  PROVE  /\ ServicesOver(ops) => ServicesOver(more)
         /\ \A s : OperationsOver(ops, s) => OperationsOver(more, s)
PROOF
<1>0. setting.maxServices \in Nat /\ setting.maxOperations \in Nat
    BY SpanAssumption DEF SpanAssumption
<1>1. ASSUME NEW S, NEW T \in SUBSET S, IsFiniteSet(S), NEW m \in Nat, Cardinality(T) > m
      PROVE  Cardinality(S) > m
  <2>1. IsFiniteSet(T) /\ Cardinality(T) <= Cardinality(S)
      BY <1>1, FS_Subset
  <2>2. Cardinality(T) \in Nat /\ Cardinality(S) \in Nat
      BY <1>1, <2>1, FS_CardinalityType
  <2> QED BY <1>1, <2>1, <2>2
<1>2. ServicesOver(ops) => ServicesOver(more)
    BY <1>0, <1>1 DEF OpsGrow, OpsFinite, ServicesOver
<1>3. ASSUME NEW s, OperationsOver(ops, s) PROVE OperationsOver(more, s)
  <2>1. s \in DOMAIN ops /\ s \in DOMAIN more /\ ops[s] \in SUBSET more[s]
      BY <1>3 DEF OpsGrow, OperationsOver
  <2>2. IsFiniteSet(more[s]) /\ Cardinality(ops[s]) > setting.maxOperations
      BY <1>3, <2>1 DEF OpsFinite, OperationsOver
  <2> QED BY <1>0, <1>1, <2>1, <2>2 DEF OperationsOver
<1> QED BY <1>2, <1>3

(* The limits a pair has passed. *)
LEMMA PassedIs ==
  ASSUME NEW t, NEW a, NEW b, NEW c, NEW d, NEW k
  PROVE  LET z == Pair(<<t, a, b, k>>, <<c, d, k>>)
         IN  /\ Passed(z) \subseteq {1, 2}
             /\ 1 \in Passed(z) <=> c # a
             /\ 2 \in Passed(z) <=> d # b
PROOF
<1> DEFINE z == Pair(<<t, a, b, k>>, <<c, d, k>>)
<1>1. /\ DOMAIN z.dims = {1, 2, 3} /\ z.dims[1] = c /\ z.dims[2] = d /\ z.dims[3] = k
      /\ z.key[1 + 1] = a /\ z.key[2 + 1] = b /\ z.key[3 + 1] = k
    BY DEF Pair
<1> HIDE DEF z
<1> QED BY <1>1 DEF Passed, z

(* The names n and d of a span before and after it has been tracked: where  *)
(* they differ, a limit has been passed in between.                         *)
NamesOf(ops, more, x, n, d) ==
  /\ n = <<n[1], n[2]>> /\ d = <<d[1], d[2]>>
  /\ n[1] \in {x.service, Overflow} /\ n[2] \in {x.operation, Overflow}
  /\ d[1] # n[1] => ~ServicesOver(ops) /\ ServicesOver(more)
  /\ d[1] = n[1] /\ d[2] # n[2] =>
       ~OperationsOver(ops, n[1]) /\ OperationsOver(more, n[1])

(* The names of an operation before and after they are tracked: where they  *)
(* differ a limit has been passed right now.                                *)
LEMMA NamesPass ==
  ASSUME setting \in Settings, NEW ops, OpsFinite(ops), NEW x, NEW n, NEW more, NEW d,
         n = TrackedName(ops, x), more = Tracked(ops, n), d = TrackedName(more, x)
  PROVE  NamesOf(ops, more, x, n, d)
PROOF
<1>1. OpsFinite(more) /\ OpsGrow(ops, more)
    BY TrackedIs
<1>2. /\ ServicesOver(ops) => ServicesOver(more)
      /\ \A s : OperationsOver(ops, s) => OperationsOver(more, s)
    BY <1>1, OverGrows
<1>3. \A o : /\ TrackedName(o, x) = <<TrackedName(o, x)[1], TrackedName(o, x)[2]>>
             /\ TrackedName(o, x)[1] = IF ServicesOver(o) THEN Overflow ELSE x.service
             /\ TrackedName(o, x)[2] = IF OperationsOver(o, TrackedName(o, x)[1])
                                       THEN Overflow ELSE x.operation
    BY DEF TrackedName, TrackedService, ServicesOver, OperationsOver
<1>4. /\ n = <<n[1], n[2]>> /\ d = <<d[1], d[2]>>
      /\ n[1] = (IF ServicesOver(ops) THEN Overflow ELSE x.service)
      /\ d[1] = (IF ServicesOver(more) THEN Overflow ELSE x.service)
      /\ n[2] = (IF OperationsOver(ops, n[1]) THEN Overflow ELSE x.operation)
      /\ d[2] = (IF OperationsOver(more, d[1]) THEN Overflow ELSE x.operation)
    BY <1>3
<1>5. n[1] \in {x.service, Overflow} /\ n[2] \in {x.operation, Overflow}
    BY <1>4
<1>6. d[1] # n[1] => ~ServicesOver(ops) /\ ServicesOver(more)
    BY <1>2, <1>4
<1>7. d[1] = n[1] /\ d[2] # n[2] => ~OperationsOver(ops, n[1]) /\ OperationsOver(more, n[1])
    BY <1>2, <1>4
<1> QED BY <1>4, <1>5, <1>6, <1>7 DEF NamesOf

(* The key of an operation and its dimensions join the others in order. *)
LEMMA OperationOrderly ==
  ASSUME setting \in Settings, NEW ops, OpsFinite(ops), NEW x \in setting.spans, NEW more,
         more = Tracked(ops, TrackedName(ops, x)), NEW S, Orderly(S, ops)
  PROVE  Orderly(S \cup {Pair(OperationKey(ops, x), TrackedName(more, x) \o <<x.kind>>)}, more)
PROOF
<1> DEFINE n == TrackedName(ops, x)
           d == TrackedName(more, x)
           t == AddTimeToKey(x)
           z == Pair(OperationKey(ops, x), TrackedName(more, x) \o <<x.kind>>)
<1>0. n = TrackedName(ops, x) /\ d = TrackedName(more, x)
    OBVIOUS
<1>1. OpsFinite(more) /\ OpsGrow(ops, more)
    BY TrackedIs
<1>2. /\ ServicesOver(ops) => ServicesOver(more)
      /\ \A s : OperationsOver(ops, s) => OperationsOver(more, s)
    BY <1>1, OverGrows
<1> HIDE DEF n, d, t, z
<1>3. /\ n = <<n[1], n[2]>> /\ d = <<d[1], d[2]>>
      /\ d[1] # n[1] => ~ServicesOver(ops) /\ ServicesOver(more)
      /\ d[1] = n[1] /\ d[2] # n[2] => ~OperationsOver(ops, n[1]) /\ OperationsOver(more, n[1])
  <2>1. NamesOf(ops, more, x, n, d)
      BY <1>0, NamesPass
  <2> QED BY <2>1 DEF NamesOf
<1>4. OperationKey(ops, x) = <<t, n[1], n[2], x.kind>>
    BY OperationKeyIs DEF n, t
<1>5. Bucket(t)
    BY SpanAssumption DEF SpanAssumption, Bucket, AddTimeToKey, t
<1>6. d \o <<x.kind>> = <<d[1], d[2], x.kind>>
    BY <1>3, TwoAndOne
<1>7. z = Pair(<<t, n[1], n[2], x.kind>>, <<d[1], d[2], x.kind>>)
    BY <1>0, <1>4, <1>6 DEF z
<1>8. /\ Passed(z) \subseteq {1, 2} /\ (1 \in Passed(z) <=> d[1] # n[1])
      /\ 2 \in Passed(z) <=> d[2] # n[2]
    BY <1>7, PassedIs
<1>9. z.dims[1] = d[1]
    BY <1>7 DEF Pair
<1>10. Shaped(z)
    BY <1>5, <1>7 DEF Shaped
<1>11. Limited(z, more)
    BY <1>3, <1>8, <1>9 DEF Limited
<1>12. ASSUME NEW y \in S PROVE Shaped(y) /\ Limited(y, more)
    BY <1>2 DEF Orderly, Limited
<1>13. ASSUME NEW y \in S, y.dims = z.dims, Passed(y) = Passed(z), Passed(z) # {}
       PROVE  FALSE
  <2>1. Limited(y, ops)
      BY DEF Orderly
  <2>2. CASE 1 \in Passed(z)
      BY <1>3, <1>8, <1>13, <2>1, <2>2 DEF Limited
  <2>3. CASE 1 \notin Passed(z)
    <3>1. Passed(z) = {2}
        BY <1>8, <1>13, <2>3
    <3>2. OperationsOver(ops, z.dims[1])
        BY <1>13, <2>1, <3>1 DEF Limited
    <3> QED BY <1>3, <1>8, <1>9, <2>3, <3>1, <3>2
  <2> QED BY <2>2, <2>3
<1>14. ASSUME NEW u \in S \cup {z}, NEW v \in S \cup {z}, u.dims = v.dims,
              Passed(u) = Passed(v), Passed(v) # {}
       PROVE  u.key = v.key
  <2>1. CASE u \in S /\ v \in S
      BY <1>14, <2>1 DEF Orderly
  <2>2. CASE u \in S /\ v = z
      BY <1>13, <1>14, <2>2
  <2>3. CASE u = z /\ v \in S
      BY <1>13, <1>14, <2>3
  <2> QED BY <2>1, <2>2, <2>3
<1>15. Orderly(S \cup {z}, more)
    BY <1>10, <1>11, <1>12, <1>14 DEF Orderly
<1> QED BY <1>15 DEF z

(* An operation is observed. *)
LEMMA OperationLeads ==
  ASSUME setting \in Settings, NEW a, NEW b, Sound(a), NEW kind \in {"latency", "exp", "calls"},
         NEW x \in setting.spans, ObservesOperation(a, b, kind, x)
  PROVE  Leads(a, b)
PROOF
<1> DEFINE key == OperationKey(a.operations, x)
           dims == TrackedName(b.operations, x) \o <<x.kind>>
           n == TrackedName(a.operations, x)
<1>0. kind \in Kinds /\ kind # "external" /\ kind # "db"
    BY DEF Kinds
<1>1. /\ b.operations = Tracked(a.operations, TrackedName(a.operations, x))
      /\ Observes(a, b, kind, key, dims)
    BY DEF ObservesOperation
<1>2. OpsFinite(b.operations) /\ OpsFinite(a.operations)
    BY <1>1, TrackedIs DEF Sound
<1>3. /\ key = <<AddTimeToKey(x), n[1], n[2], x.kind>>
      /\ n[1] \in {x.service, Overflow} /\ n[2] \in {x.operation, Overflow}
  <2>1. key = <<AddTimeToKey(x), n[1], n[2], x.kind>>
      BY OperationKeyIs
  <2>2. n[1] \in {x.service, Overflow} /\ n[2] \in {x.operation, Overflow}
    <3>1. NamesOf(a.operations, b.operations, x, n, TrackedName(b.operations, x))
        BY <1>1, <1>2, NamesPass
    <3> QED BY <3>1 DEF NamesOf
  <2> QED BY <2>1, <2>2
<1>4. \A S : Orderly(S, a.operations) => Orderly(S \cup {Pair(key, dims)}, b.operations)
    BY <1>1, <1>2, OperationOrderly
<1> HIDE DEF key, dims, n
<1>5. IsKey(kind, key)
  <2> DEFINE K(j) == <<AddTimeToKey(x), IF j \in {1, 2} THEN x.service ELSE Overflow,
                       IF j \in {1, 3} THEN x.operation ELSE Overflow, x.kind>>
  <2>1. \A j \in 1..4 : KeyOf(kind, x, j) = K(j)
      BY <1>0 DEF KeyOf
  <2>2. key = K(1) \/ key = K(2) \/ key = K(3) \/ key = K(4)
      BY <1>3
  <2>3. 1 \in 1..4 /\ 2 \in 1..4 /\ 3 \in 1..4 /\ 4 \in 1..4
      OBVIOUS
  <2> HIDE DEF K
  <2> QED BY <2>1, <2>2, <2>3 DEF IsKey
<1> QED BY <1>0, <1>1, <1>2, <1>4, <1>5, ObservesLeads

(* Calls to others pass no limit. *)
LEMMA CustomOrderly ==
  ASSUME NEW S, NEW ops, Orderly(S, ops), NEW t, Bucket(t), NEW a, NEW b, NEW z,
         z \in {Pair(<<t, a, b>>, <<a, b>>), Pair(<<t, a>>, <<a>>)}
  PROVE  Orderly(S \cup {z}, ops)
PROOF
<1>1. Shaped(z)
    BY DEF Shaped
<1>2. Passed(z) = {}
  <2>1. CASE z = Pair(<<t, a, b>>, <<a, b>>)
    <3>1. /\ DOMAIN z.dims = {1, 2} /\ z.dims[1] = a /\ z.dims[2] = b
          /\ z.key[1 + 1] = a /\ z.key[2 + 1] = b
        BY <2>1 DEF Pair
    <3> QED BY <3>1 DEF Passed
  <2>2. CASE z = Pair(<<t, a>>, <<a>>)
    <3>1. DOMAIN z.dims = {1} /\ z.dims[1] = a /\ z.key[1 + 1] = a
        BY <2>2 DEF Pair
    <3> QED BY <3>1 DEF Passed
  <2> QED BY <2>1, <2>2
<1>3. Limited(z, ops)
    BY <1>2 DEF Limited
<1> QED BY <1>1, <1>2, <1>3 DEF Orderly

(* A call to others is observed. *)
LEMMA CustomLeads ==
  ASSUME setting \in Settings, NEW a, NEW b, Sound(a), NEW kind \in {"external", "db"},
         NEW x \in setting.spans,
         ObservesCustom(a, b, kind, x, IF kind = "external" THEN <<RemoteAddress(x)>> ELSE << >>)
  PROVE  Leads(a, b)
PROOF
<1> DEFINE t == AddTimeToKey(x)
           r == RemoteAddress(x)
           key == IF kind = "external" THEN <<t, x.service, r>> ELSE <<t, x.service>>
           dims == IF kind = "external" THEN <<x.service, r>> ELSE <<x.service>>
<1>0. kind \in Kinds
    BY DEF Kinds
<1>1. Observes(a, b, kind, key, dims) /\ b.operations = a.operations
  <2>1. CASE kind = "external"
      BY <2>1, CustomIs DEF ObservesCustom
  <2>2. CASE kind # "external"
      BY <2>2, CustomIs DEF ObservesCustom
  <2> QED BY <2>1, <2>2
<1>2. OpsFinite(b.operations)
    BY <1>1 DEF Sound
<1>3. IsKey(kind, key)
  <2>1. KeyOf(kind, x, 1) = key /\ 1 \in 1..4
      BY DEF KeyOf
  <2> HIDE DEF key
  <2> QED BY <2>1 DEF IsKey
<1>4. Bucket(t)
    BY SpanAssumption DEF SpanAssumption, Bucket, AddTimeToKey
<1>5. Pair(key, dims) \in {Pair(<<t, x.service, r>>, <<x.service, r>>),
                           Pair(<<t, x.service>>, <<x.service>>)}
    OBVIOUS
<1> HIDE DEF t, r, key, dims
<1>6. ASSUME NEW S, Orderly(S, a.operations)
      PROVE  Orderly(S \cup {Pair(key, dims)}, b.operations)
  <2> DEFINE z == Pair(key, dims)
  <2>1. z \in {Pair(<<t, x.service, r>>, <<x.service, r>>),
                 Pair(<<t, x.service>>, <<x.service>>)}
      BY <1>5
  <2> HIDE DEF z
  <2>2. PICK c : z \in {Pair(<<t, x.service, c>>, <<x.service, c>>),
                       Pair(<<t, x.service>>, <<x.service>>)}
      BY <2>1
  <2>3. Orderly(S \cup {z}, a.operations)
      BY <1>4, <1>6, <2>2, CustomOrderly
  <2> QED BY <1>1, <2>3 DEF z
<1> QED BY <1>0, <1>1, <1>2, <1>3, <1>6, ObservesLeads

(* A span is aggregated. *)
LEMMA SpanLeads ==
  ASSUME setting \in Settings, NEW a, NEW b, Sound(a), NEW x \in setting.spans,
         ObservesSpan(a, b, x)
  PROVE  Leads(a, b)
PROOF
<1>1. PICK latency, exp, calls, external :
        /\ ObservesOperation(a, latency, "latency", x)
        /\ IF setting.exp THEN ObservesOperation(latency, exp, "exp", x) ELSE exp = latency
        /\ ObservesOperation(exp, calls, "calls", x)
        /\ IF IsExternalCall(x)
           THEN ObservesCustom(calls, external, "external", x, <<RemoteAddress(x)>>)
           ELSE external = calls
        /\ IF IsDbCall(x) THEN ObservesCustom(external, b, "db", x, << >>) ELSE b = external
    BY DEF ObservesSpan
<1>s. \A c, d : Leads(c, d) => Sound(d)
    BY DEF Leads
<1>2. Leads(a, latency)
    BY <1>1, OperationLeads
<1>3. Leads(latency, exp)
  <2>1. CASE setting.exp
      BY <1>1, <1>2, <1>s, <2>1, OperationLeads
  <2>2. CASE ~setting.exp
      BY <1>1, <1>2, <1>s, <2>2, LeadsSelf
  <2> QED BY <2>1, <2>2
<1>4. Leads(exp, calls)
    BY <1>1, <1>3, <1>s, OperationLeads
<1>5. Leads(calls, external)
  <2>1. CASE IsExternalCall(x)
      BY <1>1, <1>4, <1>s, <2>1, CustomLeads
  <2>2. CASE ~IsExternalCall(x)
      BY <1>1, <1>4, <1>s, <2>2, LeadsSelf
  <2> QED BY <2>1, <2>2
<1>6. Leads(external, b)
  <2>1. CASE IsDbCall(x)
      BY <1>1, <1>5, <1>s, <2>1, CustomLeads
  <2>2. CASE ~IsDbCall(x)
      BY <1>1, <1>5, <1>s, <2>2, LeadsSelf
  <2> QED BY <2>1, <2>2
<1>7. Leads(a, exp)
    BY <1>2, <1>3, LeadsOn
<1>8. Leads(a, calls)
    BY <1>4, <1>7, LeadsOn
<1>9. Leads(a, external)
    BY <1>5, <1>8, LeadsOn
<1> QED BY <1>6, <1>9, LeadsOn

(* The name and the type of a point tell its metric. *)
LEMMA MetricIs ==
  ASSUME NEW m \in Metrics, NEW n \in Metrics
  PROVE  /\ m.kind \in Kinds /\ m.type \in {"sum", "histogram", "exponential"}
         /\ m.name = n.name /\ m.type = n.type => m = n
PROOF
  BY DEF Metrics, Kinds

(* A point that a flush at time t builds for a key. *)
NewPoint(p, m, key, t) ==
  /\ key \in DOMAIN hist[m.kind]
  /\ p = Point(m.name, m.type, cache[m.kind].dims[key], TimeFromKeyOrNow(key, t),
               hist[m.kind][key], key)

(* The points of a flush. *)
LEMMA CollectedIs ==
  ASSUME NEW t, NEW p \in Collected(t)
  PROVE  \E m \in Metrics : \E key \in DOMAIN hist[m.kind] : NewPoint(p, m, key, t)
PROOF
<1> DEFINE C(kind, name, type) == [kind |-> kind, name |-> name, type |-> type]
<1>1. /\ C("calls", "calls", "sum") \in Metrics
      /\ C("latency", "latency", "histogram") \in Metrics
      /\ C("external", "external_sum", "sum") \in Metrics
      /\ C("external", "external_count", "sum") \in Metrics
      /\ C("db", "db_sum", "sum") \in Metrics
      /\ C("db", "db_count", "sum") \in Metrics
      /\ C("exp", "latency", "exponential") \in Metrics
    BY DEF Metrics
<1>2. ASSUME NEW kind, NEW name, NEW type, C(kind, name, type) \in Metrics,
             p \in Collect(kind, name, type, t)
      PROVE  \E m \in Metrics : \E key \in DOMAIN hist[m.kind] : NewPoint(p, m, key, t)
  <2>1. LET m == C(kind, name, type) IN \E key \in DOMAIN hist[m.kind] : NewPoint(p, m, key, t)
      BY <1>2 DEF Collect, NewPoint
  <2> HIDE DEF C
  <2> QED BY <1>2, <2>1
<1> HIDE DEF C
<1> QED BY <1>1, <1>2 DEF Collected

(* Their keys and dimensions are in the caches. *)
LEMMA NewPairs ==
  ASSUME AggregateInv, NEW p, NEW m \in Metrics, NEW key \in DOMAIN hist[m.kind], NEW t,
         NewPoint(p, m, key, t)
  PROVE  Pair(p.key, p.dims) \in PairsOf(Aggregate)
PROOF
<1>1. p.key = key /\ p.dims = cache[m.kind].dims[key] /\ m.kind \in Kinds
    BY MetricIs DEF NewPoint, Point
<1>2. key \in DOMAIN cache[m.kind].dims
    BY <1>1 DEF AggregateInv, WellFormed, Aggregate
<1> QED BY <1>1, <1>2 DEF PairsOf, Aggregate

(* What a flush keeps of a kind of metric. *)
LEMMA AfterCollectIs ==
  ASSUME AggregateInv, NEW k \in Kinds, NEW order
  PROVE  LET lru == FoldLeft(Touch, cache[k].lru, order)
         IN  /\ AfterCollect(k, order) = [lru |-> lru, dims |-> Recent(cache[k].dims, lru)]
             /\ KeepOnly(k, order) = Recent(hist[k], lru)
PROOF
<1> DEFINE lru == FoldLeft(Touch, cache[k].lru, order)
           c   == [cache[k] EXCEPT !.lru = lru]
<1>1. AfterCollect(k, order) = RemoveEvictedItems(c)
    BY DEF AfterCollect
<1>2. KeepOnly(k, order) = Recent(hist[k], AfterCollect(k, order).lru)
    BY DEF KeepOnly
<1> HIDE DEF lru
<1>3. cache[k] = [lru |-> cache[k].lru, dims |-> cache[k].dims]
    BY DEF AggregateInv, Aggregate, WellFormed
<1>4. c = [lru |-> lru, dims |-> cache[k].dims]
    BY <1>3
<1>5. RemoveEvictedItems(c) = [c EXCEPT !.dims = Recent(c.dims, c.lru)]
    BY DEF RemoveEvictedItems
<1> HIDE DEF c
<1>6. RemoveEvictedItems(c) = [lru |-> lru, dims |-> Recent(cache[k].dims, lru)]
    BY <1>4, <1>5
<1> QED BY <1>1, <1>2, <1>6 DEF lru

(* A flush with cumulative temporality, of one kind of metric. *)
LEMMA FlushKeeps ==
  ASSUME setting \in Settings, AggregateInv, Counted(Aggregate), NEW k \in Kinds,
         CacheKeyed(k, cache[k]), NEW order \in Orders(k)
  PROVE  /\ CacheKeyed(k, AfterCollect(k, order))
         /\ \A key \in DOMAIN AfterCollect(k, order).dims :
              /\ key \in DOMAIN cache[k].dims
              /\ AfterCollect(k, order).dims[key] = cache[k].dims[key]
         /\ Roomy => KeepOnly(k, order) = hist[k]
PROOF
<1> DEFINE lru  == FoldLeft(Touch, cache[k].lru, order)
           dims == cache[k].dims
           D    == DOMAIN dims
<1>1. /\ AfterCollect(k, order) = [lru |-> lru, dims |-> Recent(dims, lru)]
      /\ KeepOnly(k, order) = Recent(hist[k], lru)
    BY AfterCollectIs
<1>2. /\ DOMAIN Recent(dims, lru) = D \cap Range(lru)
      /\ \A key \in D \cap Range(lru) : Recent(dims, lru)[key] = dims[key]
      /\ DOMAIN Recent(hist[k], lru) = DOMAIN hist[k] \cap Range(lru)
      /\ Recent(hist[k], lru) = [key \in DOMAIN hist[k] \cap Range(lru) |-> hist[k][key]]
    BY DEF Recent, Restrict
<1>3. DOMAIN hist[k] \subseteq D /\ Counts(hist[k])
    BY DEF AggregateInv, WellFormed, Aggregate, Counted
<1>4. ASSUME Roomy PROVE lru \in Lrus(D)
  <2> DEFINE n == Cardinality(DOMAIN hist[k])
  <2>1. n \in Nat
      BY <1>3, FS_CardinalityType DEF Counts
  <2>2. DOMAIN order = 1..n /\ \A i \in 1..n : order[i] \in D
      BY <1>3 DEF Orders, SetToSeqs
  <2> HIDE DEF n
  <2>3. Room(D) /\ setting.cacheSize \in Nat
      BY <1>4, RoomIs DEF CacheKeyed, KeysOf
  <2>4. cache[k].lru \in Lrus(D)
      BY <1>4 DEF CacheKeyed, AllRecent
  <2> QED BY <2>1, <2>2, <2>3, <2>4, TouchAllIs
<1> HIDE DEF lru
<1>5. KeysOf(k, AfterCollect(k, order))
    BY <1>1, <1>2 DEF CacheKeyed, KeysOf
<1>6. ASSUME Roomy PROVE AllRecent(AfterCollect(k, order)) /\ KeepOnly(k, order) = hist[k]
  <2>1. lru \in Lrus(D) /\ Range(lru) = D
      BY <1>4, <1>6 DEF Lrus
  <2>2. DOMAIN Recent(dims, lru) = D /\ DOMAIN hist[k] \cap Range(lru) = DOMAIN hist[k]
      BY <1>2, <1>3, <2>1
  <2>3. AllRecent(AfterCollect(k, order))
      BY <1>1, <2>1, <2>2 DEF AllRecent
  <2>4. hist[k] = [key \in DOMAIN hist[k] |-> hist[k][key]]
      BY <1>3 DEF Counts
  <2>5. Recent(hist[k], lru) = hist[k]
      BY <1>2, <2>2, <2>4
  <2> QED BY <1>1, <2>3, <2>5
<1> QED BY <1>1, <1>2, <1>5, <1>6 DEF CacheKeyed

(* A flush. *)
LEMMA FlushKeyed ==
  ASSUME setting \in Settings, AggregateInv, Counted(Aggregate), Keyed(Aggregate),
         BuildMetrics, UNCHANGED setting
  PROVE  /\ Keyed(Aggregate)' /\ PairsOf(Aggregate)' \subseteq PairsOf(Aggregate)
         /\ ~setting.delta /\ Roomy => \A k \in Kinds : hist'[k] = hist[k]
PROOF
<1>0. Roomy' = Roomy
    BY DEF Roomy
<1>1. ASSUME \A k \in Kinds : CacheKeyed(k, cache'[k])
      PROVE  Keyed(Aggregate)'
  <2>1. \A k \in Kinds : KeysOf(k, cache'[k])
      BY <1>1 DEF CacheKeyed
  <2>2. \A k \in Kinds : KeysOf(k, cache[k])'
    <3>1. \A k, key : IsKey(k, key)' = IsKey(k, key)
        BY DEF IsKey, KeyOf, AddTimeToKey
    <3> QED BY <2>1, <3>1 DEF KeysOf
  <2>3. Roomy => \A k \in Kinds : AllRecent(cache'[k])
      BY <1>1 DEF CacheKeyed
  <2> QED BY <1>0, <1>1, <2>2, <2>3 DEF Keyed, Aggregate
<1>p. ASSUME \A k \in Kinds : \A key \in DOMAIN cache'[k].dims :
               key \in DOMAIN cache[k].dims /\ cache'[k].dims[key] = cache[k].dims[key]
      PROVE  PairsOf(Aggregate)' \subseteq PairsOf(Aggregate)
    BY <1>p DEF PairsOf, Aggregate
<1>2. CASE setting.delta
  <2>1. hist' = [k \in Kinds |-> << >>] /\ cache' = [k \in Kinds |-> NewCache]
      BY <1>2 DEF BuildMetrics, ResetAccumulatedMetrics
  <2>2. NewCache.lru = << >> /\ NewCache.dims = << >> /\ DOMAIN << >> = {}
      BY DEF NewCache
  <2>3. << >> \in Lrus({})
    <3>1. << >> \in Seq({}) /\ DOMAIN << >> = {}
        OBVIOUS
    <3> QED BY <3>1 DEF Lrus, IsInjective, Range
  <2>4. \A k : CacheKeyed(k, NewCache)
      BY <2>2, <2>3 DEF CacheKeyed, KeysOf, AllRecent
  <2> QED BY <1>1, <1>p, <1>2, <2>1, <2>2, <2>4
<1>3. CASE ~setting.delta
  <2>1. PICK order : /\ \A k \in Kinds : order[k] \in Orders(k)
                     /\ cache' = [k \in Kinds |-> AfterCollect(k, order[k])]
                     /\ hist' = [k \in Kinds |-> KeepOnly(k, order[k])]
    <3>1. PICK l \in Orders("latency"), e \in Orders("exp"), c \in Orders("calls"),
               x \in Orders("external"), d \in Orders("db") :
            LET order == [latency |-> l, exp |-> e, calls |-> c, external |-> x, db |-> d]
            IN  /\ cache' = [k \in Kinds |-> AfterCollect(k, order[k])]
                /\ hist' = [k \in Kinds |-> KeepOnly(k, order[k])]
        BY <1>3 DEF BuildMetrics
    <3> DEFINE order == [latency |-> l, exp |-> e, calls |-> c, external |-> x, db |-> d]
    <3>2. \A k \in Kinds : order[k] \in Orders(k)
        BY DEF Kinds
    <3>3. /\ cache' = [k \in Kinds |-> AfterCollect(k, order[k])]
          /\ hist' = [k \in Kinds |-> KeepOnly(k, order[k])]
        BY <3>1
    <3> HIDE DEF order
    <3> QED BY <3>2, <3>3
  <2>2. \A k \in Kinds : CacheKeyed(k, cache[k])
      BY DEF Keyed, Aggregate, CacheKeyed
  <2>3. ASSUME NEW k \in Kinds
        PROVE  /\ CacheKeyed(k, cache'[k]) /\ (Roomy => hist'[k] = hist[k])
               /\ \A key \in DOMAIN cache'[k].dims :
                    key \in DOMAIN cache[k].dims /\ cache'[k].dims[key] = cache[k].dims[key]
      BY <2>1, <2>2, FlushKeeps
  <2> QED BY <1>1, <1>p, <2>3
<1> QED BY <1>2, <1>3

(* Histograms lose no key and no count in a step. *)
HistKeeps ==
  \A k \in Kinds : \A key \in DOMAIN hist[k] :
    key \in DOMAIN hist'[k] /\ hist[k][key] <= hist'[k][key]

(* Time goes on, and cumulative histograms with room keep their counts. *)
Goes ==
  /\ UNCHANGED setting /\ now \in Nat /\ now' \in Nat /\ now <= now'
  /\ ~setting.delta /\ Roomy => HistKeeps
  /\ Counted(Aggregate) /\ Counted(Aggregate)'

(* What is made of the setting does not change with the other variables. *)
LEMMA SameSetting ==
  ASSUME UNCHANGED setting
  PROVE  /\ Roomy' = Roomy
         /\ \A k, key : IsKey(k, key)' = IsKey(k, key)
         /\ \A key : Timed(key)' = Timed(key) /\ FirstSegment(key)' = FirstSegment(key)
         /\ \A name, type, dims, time, value, key :
              Point(name, type, dims, time, value, key)'
                = Point(name, type, dims, time, value, key)
PROOF
  BY DEF Roomy, IsKey, KeyOf, AddTimeToKey, Timed, FirstSegment, Point, Temporality

(* Nor does what is orderly. *)
LEMMA SameOrder ==
  ASSUME UNCHANGED setting, NEW S, NEW ops, Orderly(S, ops)
  PROVE  Orderly(S, ops)'
PROOF
<1>1. \A t : Bucket(t)' = Bucket(t)
    BY DEF Bucket
<1>2. \A z : Shaped(z)' = Shaped(z)
    BY <1>1 DEF Shaped
<1>3. \A z : Limited(z, ops)' = Limited(z, ops)
    BY DEF Limited, ServicesOver, OperationsOver
<1> QED BY <1>2, <1>3 DEF Orderly

(* A point that has been pushed stays one of its metric. *)
LEMMA PointKept ==
  ASSUME Goes, NEW p, NEW m \in Metrics, PointOf(p, m)
  PROVE  PointOf(p, m)'
PROOF
<1>0. m.kind \in Kinds
    BY MetricIs
<1>1. /\ UNCHANGED setting /\ Roomy' = Roomy
      /\ Timed(p.key)' = Timed(p.key) /\ FirstSegment(p.key)' = FirstSegment(p.key)
    BY SameSetting DEF Goes
<1>2. Point(m.name, m.type, p.dims, p.time, p.value, p.key)'
        = Point(m.name, m.type, p.dims, p.time, p.value, p.key)
    BY <1>1 DEF Point, Temporality
<1>3. IF Timed(p.key) THEN p.time = FirstSegment(p.key) ELSE p.time \in 0..now'
    BY DEF PointOf, Goes
<1>4. ASSUME ~setting.delta, Roomy
      PROVE  p.key \in DOMAIN hist'[m.kind] /\ p.value <= hist'[m.kind][p.key]
  <2>1. p.key \in DOMAIN hist[m.kind] /\ p.value <= hist[m.kind][p.key] /\ p.value \in Nat
      BY <1>4 DEF PointOf
  <2>2. p.key \in DOMAIN hist'[m.kind] /\ hist[m.kind][p.key] <= hist'[m.kind][p.key]
      BY <1>0, <1>4, <2>1 DEF Goes, HistKeeps
  <2>3. hist[m.kind][p.key] \in Nat /\ hist'[m.kind][p.key] \in Nat
      BY <1>0, <2>1, <2>2 DEF Goes, Counted, Counts, Aggregate
  <2> QED BY <2>1, <2>2, <2>3
<1> QED BY <1>1, <1>2, <1>3, <1>4 DEF PointOf

(* What a new point is made of. *)
LEMMA NewPointIs ==
  ASSUME NEW p, NEW m \in Metrics, NEW key, NEW t, NewPoint(p, m, key, t)
  PROVE  /\ p.name = m.name /\ p.type = m.type /\ p.key = key /\ p.value = hist[m.kind][key]
         /\ key \in DOMAIN hist[m.kind] /\ p.dims = cache[m.kind].dims[key]
         /\ p.time = IF Timed(key) THEN FirstSegment(key) ELSE t
         /\ p = Point(m.name, m.type, p.dims, p.time, p.value, p.key)
PROOF
<1>1. /\ p.name = m.name /\ p.type = m.type /\ p.key = key /\ p.value = hist[m.kind][key]
      /\ key \in DOMAIN hist[m.kind] /\ p.dims = cache[m.kind].dims[key]
      /\ p.time = TimeFromKeyOrNow(key, t)
    BY DEF NewPoint, Point
<1>2. p = Point(m.name, m.type, p.dims, p.time, p.value, p.key)
    BY <1>1 DEF NewPoint
<1> QED BY <1>1, <1>2 DEF TimeFromKeyOrNow

(* It is one of its metric. *)
LEMMA PointNew ==
  ASSUME Goes, NEW p, NEW m \in Metrics, NEW key, NewPoint(p, m, key, now')
  PROVE  PointOf(p, m)'
PROOF
<1>0. m.kind \in Kinds
    BY MetricIs
<1>1. /\ UNCHANGED setting /\ Roomy' = Roomy
      /\ Timed(p.key)' = Timed(p.key) /\ FirstSegment(p.key)' = FirstSegment(p.key)
    BY SameSetting DEF Goes
<1>2. /\ p.name = m.name /\ p.type = m.type /\ p.key = key /\ p.value = hist[m.kind][key]
      /\ key \in DOMAIN hist[m.kind]
      /\ p.time = IF Timed(key) THEN FirstSegment(key) ELSE now'
      /\ p = Point(m.name, m.type, p.dims, p.time, p.value, p.key)
    BY NewPointIs
<1>3. Point(m.name, m.type, p.dims, p.time, p.value, p.key)'
        = Point(m.name, m.type, p.dims, p.time, p.value, p.key)
    BY <1>1 DEF Point, Temporality
<1>4. p.value \in Nat
    BY <1>0, <1>2 DEF Goes, Counted, Counts, Aggregate
<1>5. now' \in 0..now'
    BY DEF Goes
<1>6. ASSUME ~setting.delta, Roomy
      PROVE  p.key \in DOMAIN hist'[m.kind] /\ p.value <= hist'[m.kind][p.key]
    BY <1>0, <1>2, <1>6 DEF Goes, HistKeeps
<1> QED BY <1>1, <1>2, <1>3, <1>4, <1>5, <1>6 DEF PointOf

(* No new point. *)
LEMMA SeriesKept ==
  ASSUME Goes, OwnPoints' = OwnPoints, PointsKnown, PointsAgree
  PROVE  PointsKnown' /\ PointsAgree'
PROOF
<1>0. setting' = setting /\ Roomy' = Roomy /\ \A key : Timed(key)' = Timed(key)
    BY SameSetting DEF Goes
<1>1. PointsAgree'
    BY <1>0 DEF PointsAgree
<1>2. ASSUME NEW p \in OwnPoints' PROVE \E m \in Metrics : PointOf(p, m)'
    BY <1>0, PointKept DEF PointsKnown
<1> QED BY <1>1, <1>2 DEF PointsKnown

(* A flush: the points it adds are later than the others, and their values *)
(* are not below those of the others.                                      *)
LEMMA SeriesAdded ==
  ASSUME Goes, now' = now + 1, NEW N, OwnPoints' \subseteq OwnPoints \cup N,
         \A p \in N : \E m \in Metrics : \E key \in DOMAIN hist[m.kind] : NewPoint(p, m, key, now'),
         PointsKnown, PointsAgree
  PROVE  PointsKnown' /\ PointsAgree'
PROOF
<1>0. setting' = setting /\ Roomy' = Roomy /\ \A key : Timed(key)' = Timed(key)
    BY SameSetting DEF Goes
<1>1. ASSUME NEW p \in OwnPoints' PROVE \E m \in Metrics : PointOf(p, m)'
  <2>1. CASE p \in OwnPoints
      BY <1>0, <2>1, PointKept DEF PointsKnown
  <2>2. CASE p \in N
      BY <1>0, <2>2, PointNew
  <2> QED BY <2>1, <2>2
<1>2. ASSUME NEW p \in OwnPoints', NEW q \in OwnPoints', ~setting.delta,
             p.name = q.name, p.type = q.type, p.key = q.key, ~Timed(p.key)
      PROVE  /\ p.time = q.time => p = q
             /\ Roomy /\ p.time < q.time => p.value <= q.value
  <2>o. ASSUME NEW r \in OwnPoints, ~Timed(r.key)
        PROVE  \E m \in Metrics : /\ r.name = m.name /\ r.type = m.type /\ r.time \in 0..now
                                  /\ Roomy => r.value <= hist[m.kind][r.key]
    <3>1. PICK m \in Metrics : PointOf(r, m)
        BY DEF PointsKnown
    <3>2. r.name = m.name /\ r.type = m.type
        BY <3>1 DEF PointOf, Point
    <3>3. r.time \in 0..now /\ (Roomy => r.value <= hist[m.kind][r.key])
        BY <1>2, <2>o, <3>1 DEF PointOf
    <3> QED BY <3>2, <3>3
  <2>n. ASSUME NEW r \in N, ~Timed(r.key)
        PROVE  \E m \in Metrics :
                 /\ r.name = m.name /\ r.type = m.type /\ r.time = now + 1
                 /\ r.value = hist[m.kind][r.key]
                 /\ r = Point(m.name, m.type, cache[m.kind].dims[r.key], now + 1,
                              hist[m.kind][r.key], r.key)
    <3>1. PICK m \in Metrics : \E key \in DOMAIN hist[m.kind] : NewPoint(r, m, key, now')
        OBVIOUS
    <3>2. PICK key : NewPoint(r, m, key, now')
        BY <3>1
    <3>3. /\ r.name = m.name /\ r.type = m.type /\ r.key = key /\ r.value = hist[m.kind][key]
          /\ r.dims = cache[m.kind].dims[key]
          /\ r.time = IF Timed(key) THEN FirstSegment(key) ELSE now'
          /\ r = Point(m.name, m.type, r.dims, r.time, r.value, r.key)
        BY <3>2, NewPointIs
    <3> QED BY <2>n, <3>3
  <2>t. now \in Nat /\ \A i \in 0..now : i < now + 1 /\ ~(now + 1 < i) /\ i # now + 1
      BY DEF Goes
  <2>k. ~Timed(q.key)
      BY <1>2
  <2>1. CASE p \in OwnPoints /\ q \in OwnPoints
      BY <1>2, <2>1 DEF PointsAgree
  <2>2. CASE p \in OwnPoints /\ q \in N
    <3>1. PICK m \in Metrics : /\ p.name = m.name /\ p.type = m.type /\ p.time \in 0..now
                               /\ Roomy => p.value <= hist[m.kind][p.key]
        BY <1>2, <2>2, <2>o
    <3>2. PICK n \in Metrics : /\ q.name = n.name /\ q.type = n.type /\ q.time = now + 1
                               /\ q.value = hist[n.kind][q.key]
        BY <2>2, <2>k, <2>n
    <3>3. m = n
        BY <1>2, <3>1, <3>2, MetricIs
    <3> QED BY <1>2, <2>t, <3>1, <3>2, <3>3
  <2>3. CASE p \in N /\ q \in OwnPoints
    <3>1. q.time \in 0..now /\ p.time = now + 1
        BY <1>2, <2>3, <2>k, <2>o, <2>n
    <3> QED BY <2>t, <3>1
  <2>4. CASE p \in N /\ q \in N
    <3>1. PICK m \in Metrics :
            /\ p.name = m.name /\ p.type = m.type /\ p.time = now + 1
            /\ p = Point(m.name, m.type, cache[m.kind].dims[p.key], now + 1,
                         hist[m.kind][p.key], p.key)
        BY <1>2, <2>4, <2>n
    <3>2. PICK n \in Metrics :
            /\ q.name = n.name /\ q.type = n.type /\ q.time = now + 1
            /\ q = Point(n.name, n.type, cache[n.kind].dims[q.key], now + 1,
                         hist[n.kind][q.key], q.key)
        BY <2>4, <2>k, <2>n
    <3>3. m = n
        BY <1>2, <3>1, <3>2, MetricIs
    <3>4. p = q
        BY <1>2, <3>1, <3>2, <3>3
    <3>5. ~(p.time < q.time)
        BY <2>t, <3>1, <3>2
    <3> QED BY <3>4, <3>5
  <2> QED BY <2>1, <2>2, <2>3, <2>4
<1>3. PointsAgree'
    BY <1>0, <1>2 DEF PointsAgree
<1> QED BY <1>1, <1>3 DEF PointsKnown

(* The points that are pushed: those of a push more, *)
LEMMA PushedAdded ==
  ASSUME Sequence(metricPush), NEW points,
         metricPush' = Append(metricPush, NewMetricPush(points))
  PROVE  Pushed' = Pushed \cup points
PROOF
<1>1. PICK n : /\ n \notin DOMAIN metricPush /\ DOMAIN metricPush' = DOMAIN metricPush \cup {n}
               /\ metricPush'[n] = NewMetricPush(points)
               /\ \A j \in DOMAIN metricPush : metricPush'[j] = metricPush[j]
    BY AppendsToIs DEF AppendsTo
<1>2. NewMetricPush(points).points = points
    BY DEF NewMetricPush
<1>3. ASSUME NEW p \in Pushed' PROVE p \in Pushed \cup points
    BY <1>1, <1>2 DEF Pushed
<1>4. ASSUME NEW p \in Pushed \cup points PROVE p \in Pushed'
    BY <1>1, <1>2 DEF Pushed
<1> QED BY <1>3, <1>4

(* or the same. *)
LEMMA PushedKept ==
  ASSUME DOMAIN metricPush' = DOMAIN metricPush,
         \A i \in DOMAIN metricPush : metricPush'[i].points = metricPush[i].points
  PROVE  Pushed' = Pushed
PROOF
<1>1. {metricPush'[i].points : i \in DOMAIN metricPush'}
        = {metricPush[i].points : i \in DOMAIN metricPush}
    OBVIOUS
<1> QED BY <1>1 DEF Pushed

(* The exporter stores rows of points that were pushed. *)
LEMMA RowsStep ==
  ASSUME MetricShape, RowsKnown, MetricActs
  PROVE  RowsKnown' /\ Pushed' = Pushed
PROOF
<1>0. Pushed' = Pushed
    BY MetricPointsKept, PushedKept
<1>1. CASE metricTable' = metricTable
    BY <1>0, <1>1 DEF RowsKnown
<1>2. ASSUME NEW i \in DOMAIN metricPush, NEW t, MetricSends(i, t)
      PROVE  RowsKnown'
  <2> DEFINE rows == PrepareBatch(metricPush[i].points)["samples"]
  <2>1. metricTable'["samples"] \subseteq metricTable["samples"] \cup rows
    <3>1. PICK table, new :
            /\ \/ t = "send" /\ table = "ts"
               \/ /\ t \in Tables \ {"ts"} /\ table = t
                  /\ new = PrepareBatch(metricPush[i].points)[t]
            /\ metricTable' = [metricTable EXCEPT ![table] = @ \cup new]
        BY <1>2 DEF MetricSends
    <3>2. "samples" \in Tables /\ metricTable = [u \in Tables |-> metricTable[u]]
        BY DEF Tables, MetricShape
    <3>3. "samples" # "send" /\ "samples" # "ts"
        OBVIOUS
    <3> HIDE DEF rows
    <3>4. CASE table = "samples"
        BY <3>1, <3>2, <3>3, <3>4 DEF rows
    <3>5. CASE table # "samples"
        BY <3>1, <3>2, <3>5
    <3> QED BY <3>4, <3>5
  <2>2. ASSUME NEW a \in rows
        PROVE  /\ a = [series |-> a.series, of |-> a.of] /\ a.of \in Pushed
               /\ a.series \in SeriesOf(a.of)
    <3>1. rows = UNION {{[series |-> s, of |-> p] : s \in SeriesOf(p)} : p \in metricPush[i].points}
        BY DEF PrepareBatch
    <3>2. PICK p \in metricPush[i].points : \E s \in SeriesOf(p) : a = [series |-> s, of |-> p]
        BY <3>1
    <3>3. p \in Pushed
        BY DEF Pushed
    <3> QED BY <3>2, <3>3
  <2> HIDE DEF rows
  <2> QED BY <1>0, <2>1, <2>2 DEF RowsKnown
<1>3. ASSUME NEW i \in DOMAIN metricPush, NEW t,
             MetricMoves(i) \/ MetricAdmits(i) \/ MetricAppends(i) \/ MetricFails(i, t)
      PROVE  metricTable' = metricTable
    BY <1>3 DEF MetricMoves, MetricAdmits, MetricAppends, MetricFails, MetricRest
<1>4. MetricCloses => metricTable' = metricTable
    BY DEF MetricCloses
<1> QED BY <1>0, <1>1, <1>2, <1>3, <1>4 DEF MetricActs

(* Nothing is stored at first. *)
LEMMA SeriesInit ==
  ASSUME Init
  PROVE  SeriesInv
PROOF
<1>1. /\ hist = [k \in Kinds |-> << >>] /\ cache = [k \in Kinds |-> NewCache]
      /\ operations = << >> /\ metricPush = << >> /\ now = 0
      /\ metricTable = [t \in Tables |-> {}]
    BY DEF Init, InitAggregate, InitMetricExporter
<1>2. DOMAIN << >> = {} /\ IsFiniteSet({})
    BY FS_EmptySet
<1>3. OpsFinite(operations) /\ now \in Nat
    BY <1>1, <1>2 DEF OpsFinite
<1>4. RowsKnown
    BY <1>1 DEF RowsKnown, Tables
<1>5. Pushed = {} /\ OwnPoints = {}
    BY <1>1, <1>2 DEF Pushed, OwnPoints
<1>6. NewCache.lru = << >> /\ NewCache.dims = << >>
    BY DEF NewCache
<1>7. << >> \in Lrus({})
  <2>1. << >> \in Seq({}) /\ DOMAIN << >> = {}
      OBVIOUS
  <2> QED BY <2>1 DEF Lrus, IsInjective, Range
<1>8. Keyed(Aggregate)
    BY <1>1, <1>2, <1>6, <1>7 DEF Keyed, Aggregate, KeysOf, AllRecent, Kinds
<1>9. OwnPairs \cup PairsOf(Aggregate) = {}
    BY <1>1, <1>2, <1>5, <1>6 DEF OwnPairs, PairsOf, Aggregate
<1>10. Orderly(OwnPairs \cup PairsOf(Aggregate), operations)
    BY <1>9 DEF Orderly
<1> QED BY <1>3, <1>4, <1>5, <1>8, <1>10 DEF SeriesInv, PointsKnown, PointsAgree

(* A step that leaves the aggregate and the processor's points alone. *)
LEMMA SeriesIdle ==
  ASSUME UNCHANGED <<setting, aggregate>>, now' \in {now, now + 1}, CallsInv, SeriesInv,
         OwnPoints' = OwnPoints, RowsKnown'
  PROVE  SeriesInv'
PROOF
<1>1. /\ setting' = setting /\ hist' = hist /\ cache' = cache /\ operations' = operations
      /\ now \in Nat /\ now' \in Nat /\ now <= now'
    BY DEF aggregate, SeriesInv
<1>2. Counted(Aggregate) /\ Counted(Aggregate)'
    BY <1>1 DEF CallsInv, Counted, Aggregate
<1>3. HistKeeps
  <2> SUFFICES ASSUME NEW k \in Kinds, NEW key \in DOMAIN hist[k] PROVE hist[k][key] <= hist[k][key]
      BY <1>1 DEF HistKeeps
  <2>1. hist[k][key] \in Nat
      BY <1>2 DEF Counted, Counts, Aggregate
  <2> QED BY <2>1
<1>4. Goes
    BY <1>1, <1>2, <1>3 DEF Goes
<1>5. OpsFinite(operations)'
    BY <1>1 DEF OpsFinite, SeriesInv
<1>6. Keyed(Aggregate)'
  <2>1. Roomy' = Roomy /\ \A k, key : IsKey(k, key)' = IsKey(k, key)
      BY <1>1, SameSetting
  <2> QED BY <1>1, <2>1 DEF Keyed, Aggregate, KeysOf, SeriesInv
<1>7. Orderly(OwnPairs \cup PairsOf(Aggregate), operations)'
  <2>1. PICK S : S = OwnPairs \cup PairsOf(Aggregate)
      OBVIOUS
  <2>2. PICK o : o = operations
      OBVIOUS
  <2>3. Orderly(S, o)'
      BY <1>1, <2>1, <2>2, SameOrder DEF SeriesInv
  <2>4. (OwnPairs \cup PairsOf(Aggregate))' = S /\ operations' = o
      BY <1>1, <2>1, <2>2 DEF OwnPairs, Aggregate
  <2> QED BY <2>3, <2>4
<1> QED BY <1>1, <1>4, <1>5, <1>6, <1>7, SeriesKept DEF SeriesInv

(* A span is consumed. *)
LEMMA SeriesConsume ==
  ASSUME IInv, CallsInv, CallsInv', SeriesInv, NEW span \in setting.spans, ConsumeTraces(span)
  PROVE  SeriesInv'
PROOF
<1>1. /\ setting' = setting /\ metricPush' = metricPush /\ metricTable' = metricTable
      /\ now' = now /\ AggregateMetrics(span)
    BY DEF ConsumeTraces, metricVars
<1>2. Pushed' = Pushed /\ OwnPoints' = OwnPoints /\ RowsKnown'
    BY <1>1 DEF Pushed, OwnPoints, RowsKnown, SeriesInv
<1>3. AggregateInv /\ setting \in Settings
    BY DEF IInv, CallsInv
<1>4. CASE ~Aggregated(span)
  <2>1. UNCHANGED aggregate
      BY <1>1, <1>3, <1>4, AggregateMetricsStep
  <2> QED BY <1>1, <1>2, <2>1, SeriesIdle
<1>5. CASE Aggregated(span)
  <2>1. ObservesSpan(Aggregate, Aggregate', span)
      BY <1>1, <1>3, <1>5, AggregateMetricsStep
  <2>2. Sound(Aggregate)
      BY <1>3 DEF Sound, AggregateInv, CallsInv, Counted, SeriesInv, Aggregate
  <2>3. Leads(Aggregate, Aggregate')
      BY <1>3, <2>1, <2>2, SpanLeads
  <2>4. OpsFinite(operations)'
      BY <2>3 DEF Leads, Sound, Aggregate, OpsFinite
  <2>5. HistKeeps
      BY <2>3 DEF Leads, HistGrows, HistKeeps, Aggregate
  <2>6. now \in Nat /\ now <= now'
      BY <1>1 DEF SeriesInv
  <2>7. Goes
      BY <1>1, <2>5, <2>6 DEF Goes, CallsInv
  <2>8. Keyed(Aggregate)'
    <3>1. Keyed(Aggregate')
        BY <2>3 DEF Leads, SeriesInv
    <3>2. Roomy' = Roomy /\ \A k, key : IsKey(k, key)' = IsKey(k, key)
        BY <1>1, SameSetting
    <3> QED BY <3>1, <3>2 DEF Keyed, Aggregate, KeysOf
  <2>9. Orderly(OwnPairs \cup PairsOf(Aggregate), operations)'
    <3>1. PICK S : S = OwnPairs' \cup PairsOf(Aggregate')
        OBVIOUS
    <3>2. PICK o : o = operations'
        OBVIOUS
    <3>3. OwnPairs' = OwnPairs /\ Aggregate.operations = operations
            /\ Aggregate'.operations = operations'
        BY <1>2 DEF OwnPairs, Aggregate
    <3>4. Orderly(OwnPairs \cup PairsOf(Aggregate), Aggregate.operations)
        BY <3>3 DEF SeriesInv
    <3>5. Orderly(OwnPairs \cup PairsOf(Aggregate'), Aggregate'.operations)
        BY <2>3, <3>4 DEF Leads, OrderKept
    <3>6. Orderly(S, o)
        BY <3>1, <3>2, <3>3, <3>5
    <3>7. Orderly(S, o)'
        BY <1>1, <3>6, SameOrder
    <3>8. (OwnPairs \cup PairsOf(Aggregate))' = S
        BY <3>1
    <3> QED BY <3>2, <3>7, <3>8
  <2>10. PointsKnown' /\ PointsAgree'
      BY <1>2, <2>7, SeriesKept DEF SeriesInv
  <2> QED BY <1>1, <1>2, <2>4, <2>6, <2>8, <2>9, <2>10 DEF SeriesInv
<1> QED BY <1>4, <1>5

(* Metrics are flushed. *)
LEMMA SeriesExport ==
  ASSUME IInv, CallsInv, CallsInv', SeriesInv, ExportMetrics
  PROVE  SeriesInv'
PROOF
<1>1. /\ setting' = setting /\ metricTable' = metricTable /\ now' = now + 1 /\ BuildMetrics
      /\ \/ metricPush' = Append(metricPush, NewMetricPush(Collected(now')))
         \/ metricPush' = metricPush
    BY DEF ExportMetrics
<1>2. /\ AggregateInv /\ setting \in Settings /\ Sequence(metricPush) /\ now \in Nat
      /\ Counted(Aggregate) /\ Counted(Aggregate)'
      /\ Keyed(Aggregate) /\ PointsKnown /\ PointsAgree
    BY DEF IInv, CallsInv, MetricInv, MetricShape, SeriesInv
<1>3. operations' = operations
    BY <1>1 DEF BuildMetrics
<1>4. Pushed \subseteq Pushed' /\ Pushed' \subseteq Pushed \cup Collected(now')
  <2>1. CASE metricPush' = Append(metricPush, NewMetricPush(Collected(now')))
      BY <1>2, <2>1, PushedAdded
  <2>2. CASE metricPush' = metricPush
      BY <2>2 DEF Pushed
  <2> QED BY <1>1, <2>1, <2>2
<1>5. RowsKnown'
    BY <1>1, <1>4 DEF RowsKnown, SeriesInv
<1>6. OwnPoints' \subseteq OwnPoints \cup Collected(now')
    BY <1>4 DEF OwnPoints
<1>7. OpsFinite(operations)'
    BY <1>3 DEF OpsFinite, SeriesInv
<1>8. /\ Keyed(Aggregate)' /\ PairsOf(Aggregate)' \subseteq PairsOf(Aggregate)
      /\ ~setting.delta /\ Roomy => \A k \in Kinds : hist'[k] = hist[k]
    BY <1>1, <1>2, FlushKeyed
<1>9. ~setting.delta /\ Roomy => HistKeeps
  <2> SUFFICES ASSUME ~setting.delta, Roomy, NEW k \in Kinds, NEW key \in DOMAIN hist[k]
               PROVE  key \in DOMAIN hist'[k] /\ hist[k][key] <= hist'[k][key]
      BY DEF HistKeeps
  <2>1. hist[k][key] \in Nat
      BY <1>2 DEF Counted, Counts, Aggregate
  <2> QED BY <1>8, <2>1
<1>10. Goes
    BY <1>1, <1>2, <1>9 DEF Goes
<1>11. \A p \in Collected(now') : \E m \in Metrics : \E key \in DOMAIN hist[m.kind] :
         NewPoint(p, m, key, now')
    BY CollectedIs
<1>12. PointsKnown' /\ PointsAgree'
    BY <1>1, <1>2, <1>6, <1>10, <1>11, SeriesAdded
<1>13. OwnPairs' \subseteq OwnPairs \cup PairsOf(Aggregate)
    BY <1>2, <1>6, <1>11, NewPairs DEF OwnPairs
<1>14. Orderly(OwnPairs \cup PairsOf(Aggregate), operations)'
  <2>1. PICK S : S = OwnPairs' \cup PairsOf(Aggregate)'
      OBVIOUS
  <2>2. PICK o : o = operations
      OBVIOUS
  <2>3. Orderly(S, o)
    <3>1. S \in SUBSET (OwnPairs \cup PairsOf(Aggregate))
        BY <1>8, <1>13, <2>1
    <3> QED BY <2>2, <3>1, OrderlyPart DEF SeriesInv
  <2>4. Orderly(S, o)'
      BY <1>1, <2>3, SameOrder
  <2>5. (OwnPairs \cup PairsOf(Aggregate))' = S /\ operations' = o
      BY <1>3, <2>1, <2>2
  <2> QED BY <2>4, <2>5
<1> QED BY <1>1, <1>2, <1>5, <1>7, <1>8, <1>12, <1>14 DEF SeriesInv

(* Every step keeps the invariant. *)
LEMMA SeriesStep ==
  ASSUME IInv, CallsInv, CallsInv', SeriesInv, [Next]_vars
  PROVE  SeriesInv'
PROOF
<1>s. Sequence(metricPush) /\ MetricShape /\ RowsKnown /\ now \in Nat /\ setting \in Settings
    BY DEF IInv, MetricInv, MetricShape, SeriesInv, CallsInv
<1>1. ASSUME NEW span \in setting.spans, ConsumeTraces(span) PROVE SeriesInv'
    BY <1>1, SeriesConsume
<1>2. CASE ExportMetrics
    BY <1>2, SeriesExport
<1>3. ASSUME NEW point \in setting.points, ReceivePoint(point) PROVE SeriesInv'
  <2> DEFINE points == {[point EXCEPT !.time = now']}
  <2>1. /\ UNCHANGED <<setting, aggregate, metricTable>> /\ now' = now + 1
        /\ metricPush' = Append(metricPush, NewMetricPush(points))
      BY <1>3 DEF ReceivePoint
  <2>2. \A p \in points : p.key = NoKey
      BY <1>s, SpanAssumption DEF SpanAssumption
  <2> HIDE DEF points
  <2>3. Pushed' = Pushed \cup points
      BY <1>s, <2>1, PushedAdded
  <2>4. OwnPoints' = OwnPoints
      BY <2>2, <2>3 DEF OwnPoints
  <2>5. RowsKnown'
      BY <1>s, <2>1, <2>3 DEF RowsKnown
  <2> QED BY <2>1, <2>4, <2>5, SeriesIdle
<1>4. CASE /\ MetricExporterStep
           /\ UNCHANGED <<setting, aggregate, traceVars, meterVars, processor, now, counts>>
  <2>1. RowsKnown' /\ Pushed' = Pushed
      BY <1>4, <1>s, MetricStepIs, RowsStep
  <2>2. OwnPoints' = OwnPoints
      BY <2>1 DEF OwnPoints
  <2> QED BY <1>4, <2>1, <2>2, SeriesIdle
<1>5. ASSUME \/ ShutdownProcessor \/ LoopReturns \/ FlushMeter \/ StopMeter \/ UNCHANGED vars
             \/ UNCHANGED <<setting, aggregate, metricVars, meterVars, processor, now, counts>>
             \/ UNCHANGED <<setting, aggregate, metricVars, traceVars, processor, now, counts>>
      PROVE  SeriesInv'
  <2>1. UNCHANGED <<setting, aggregate, metricPush, metricTable>> /\ now' \in {now, now + 1}
      BY <1>5 DEF ShutdownProcessor, LoopReturns, FlushMeter, StopMeter, vars, metricVars
  <2>2. OwnPoints' = OwnPoints /\ RowsKnown'
      BY <1>s, <2>1 DEF OwnPoints, Pushed, RowsKnown
  <2> QED BY <2>1, <2>2, SeriesIdle
<1> QED BY <1>1, <1>2, <1>3, <1>4, <1>5 DEF Next

(* A series has the name and the dimensions of its point; exponential       *)
(* histograms are stored only where they are enabled.                       *)
LEMMA SeriesOfIs ==
  ASSUME NEW p, p.type \in {"sum", "histogram", "exponential"}, NEW s \in SeriesOf(p)
  PROVE  /\ s.name[1] = p.name /\ s.dims = p.dims
         /\ p.type = "exponential" => EnableExpHist
PROOF
<1>1. Stores(p)
    BY DEF SeriesOf
<1>2. p.type = "exponential" => EnableExpHist
    BY <1>1 DEF Stores, Accepts
<1>3. \E suffix, temporality, le : s = Series(p, suffix, temporality, le)
  <2>1. CASE p.type = "sum"
      BY <1>1, <2>1 DEF SeriesOf, ProcessSum
  <2>2. CASE p.type = "histogram"
      BY <1>1, <2>2 DEF SeriesOf, ProcessHistogram, MinMax
  <2>3. CASE p.type = "exponential"
      BY <1>1, <2>3 DEF SeriesOf, ProcessExponentialHistogram, MinMax
  <2> QED BY <2>1, <2>2, <2>3
<1> QED BY <1>2, <1>3 DEF Series

(* Where no limit has been passed, the time bucket and the dimensions are   *)
(* what a key is made of.                                                   *)
LEMMA KeyIs ==
  ASSUME NEW y, NEW z, Shaped(y), Shaped(z), Passed(y) = {}, Passed(z) = {},
         y.dims = z.dims, y.key[1] = z.key[1]
  PROVE  y.key = z.key
PROOF
<1>1. ASSUME NEW w, Shaped(w), Passed(w) = {}
      PROVE  \/ \E t, a, b, k : w.key = <<t, a, b, k>> /\ w.dims = <<a, b, k>>
             \/ \E t, a, b : w.key = <<t, a, b>> /\ w.dims = <<a, b>>
             \/ \E t, a : w.key = <<t, a>> /\ w.dims = <<a>>
  <2>1. ASSUME NEW t, NEW a, NEW b, NEW c, NEW d, NEW k,
               w = Pair(<<t, a, b, k>>, <<c, d, k>>)
        PROVE  w.key = <<t, a, b, k>> /\ w.dims = <<a, b, k>>
    <3>1. c = a /\ d = b
        BY <1>1, <2>1, PassedIs
    <3> QED BY <2>1, <3>1 DEF Pair
  <2>2. \A t, a, b : w = Pair(<<t, a, b>>, <<a, b>>) => w.key = <<t, a, b>> /\ w.dims = <<a, b>>
      BY DEF Pair
  <2>3. \A t, a : w = Pair(<<t, a>>, <<a>>) => w.key = <<t, a>> /\ w.dims = <<a>>
      BY DEF Pair
  <2>4. CASE \E t, a, b, c, d, k : w = Pair(<<t, a, b, k>>, <<c, d, k>>)
    <3>1. PICK t, a, b, c, d, k : w = Pair(<<t, a, b, k>>, <<c, d, k>>)
        BY <2>4
    <3>2. w.key = <<t, a, b, k>> /\ w.dims = <<a, b, k>>
        BY <2>1, <3>1
    <3> QED BY <3>2
  <2>5. CASE \E t, a, b : w = Pair(<<t, a, b>>, <<a, b>>)
    <3>1. PICK t, a, b : w = Pair(<<t, a, b>>, <<a, b>>)
        BY <2>5
    <3>2. w.key = <<t, a, b>> /\ w.dims = <<a, b>>
        BY <2>2, <3>1
    <3> QED BY <3>2
  <2>6. CASE \E t, a : w = Pair(<<t, a>>, <<a>>)
    <3>1. PICK t, a : w = Pair(<<t, a>>, <<a>>)
        BY <2>6
    <3>2. w.key = <<t, a>> /\ w.dims = <<a>>
        BY <2>3, <3>1
    <3> QED BY <3>2
  <2>7. \/ \E t, a, b, c, d, k : w = Pair(<<t, a, b, k>>, <<c, d, k>>)
        \/ \E t, a, b : w = Pair(<<t, a, b>>, <<a, b>>)
        \/ \E t, a : w = Pair(<<t, a>>, <<a>>)
      BY <1>1 DEF Shaped
  <2> QED BY <2>4, <2>5, <2>6, <2>7
<1>2. \/ \E t, a, b, k : y.key = <<t, a, b, k>> /\ y.dims = <<a, b, k>>
      \/ \E t, a, b : y.key = <<t, a, b>> /\ y.dims = <<a, b>>
      \/ \E t, a : y.key = <<t, a>> /\ y.dims = <<a>>
    BY <1>1
<1>3. \/ \E t, a, b, k : z.key = <<t, a, b, k>> /\ z.dims = <<a, b, k>>
      \/ \E t, a, b : z.key = <<t, a, b>> /\ z.dims = <<a, b>>
      \/ \E t, a : z.key = <<t, a>> /\ z.dims = <<a>>
    BY <1>1
<1> QED BY <1>2, <1>3

(* The rows of a series are well formed. *)
LEMMA SeriesAre ==
  ASSUME SeriesInv, setting \in Settings
  PROVE  SeriesWellFormed
PROOF
<1> SUFFICES ASSUME NEW a \in metricTable["samples"], NEW b \in metricTable["samples"],
                    a.series = b.series, a.of.type = b.of.type,
                    a.of.key # NoKey, b.of.key # NoKey
             PROVE  /\ (setting.delta => a.of.time = b.of.time) /\ Passed(a.of) = Passed(b.of)
                         => a.of.key = b.of.key
                    /\ ~setting.delta /\ a.of.key = b.of.key =>
                         IF Timed(a.of.key) THEN a.of.time = b.of.time
                         ELSE /\ a.of.time = b.of.time => a = b
                              /\ Roomy /\ a.of.time < b.of.time => a.of.value <= b.of.value
    BY DEF SeriesWellFormed
<1> DEFINE p == a.of
           q == b.of
<1>1. ASSUME NEW r \in metricTable["samples"], r.of.key # NoKey
      PROVE  /\ r = [series |-> r.series, of |-> r.of] /\ r.of \in OwnPoints
             /\ r.series.name[1] = r.of.name /\ r.series.dims = r.of.dims
             /\ Timed(r.of.key) => r.of.time = FirstSegment(r.of.key)
             /\ LET z == Pair(r.of.key, r.of.dims)
                IN  Shaped(z) /\ z \in OwnPairs /\ z.key = r.of.key /\ z.dims = r.of.dims
                      /\ Passed(z) = Passed(r.of)
  <2>1. r = [series |-> r.series, of |-> r.of] /\ r.of \in OwnPoints /\ r.series \in SeriesOf(r.of)
      BY <1>1 DEF SeriesInv, RowsKnown, OwnPoints
  <2>2. PICK m \in Metrics : PointOf(r.of, m)
      BY <2>1 DEF SeriesInv, PointsKnown
  <2>3. r.of.type = m.type
      BY <2>2 DEF PointOf, Point
  <2>4. m.type \in {"sum", "histogram", "exponential"}
      BY MetricIs
  <2>5. r.series.name[1] = r.of.name /\ r.series.dims = r.of.dims
      BY <2>1, <2>3, <2>4, SeriesOfIs
  <2>6. Timed(r.of.key) => r.of.time = FirstSegment(r.of.key)
      BY <2>2 DEF PointOf
  <2> DEFINE z == Pair(r.of.key, r.of.dims)
  <2>7. z \in OwnPairs /\ z.key = r.of.key /\ z.dims = r.of.dims
      BY <2>1 DEF OwnPairs, Pair
  <2> HIDE DEF z
  <2>8. Shaped(z) /\ Passed(z) = Passed(r.of)
      BY <2>7 DEF SeriesInv, Orderly, Passed
  <2> QED BY <2>1, <2>5, <2>6, <2>7, <2>8 DEF z
<1>2. p.dims = q.dims /\ p.name = q.name
    BY <1>1
<1>3. ASSUME setting.delta => p.time = q.time, Passed(p) = Passed(q)
      PROVE  p.key = q.key
  <2> DEFINE y == Pair(p.key, p.dims)
             z == Pair(q.key, q.dims)
  <2>1. /\ Shaped(y) /\ y \in OwnPairs /\ y.key = p.key /\ y.dims = p.dims /\ Passed(y) = Passed(p)
        /\ Shaped(z) /\ z \in OwnPairs /\ z.key = q.key /\ z.dims = q.dims /\ Passed(z) = Passed(q)
      BY <1>1
  <2> HIDE DEF y, z
  <2>2. CASE Passed(z) # {}
      BY <1>2, <1>3, <2>1, <2>2 DEF SeriesInv, Orderly
  <2>3. CASE Passed(z) = {}
    <3>1. Passed(y) = {}
        BY <1>3, <2>1, <2>3
    <3>2. \A w : Shaped(w) => Bucket(w.key[1])
        BY DEF Shaped, Pair
    <3>3. y.key[1] = z.key[1]
      <4>1. CASE setting.delta
        <5>1. y.key[1] \in Nat /\ z.key[1] \in Nat
            BY <2>1, <3>2, <4>1 DEF Bucket
        <5>2. p.time = y.key[1] /\ q.time = z.key[1]
            BY <1>1, <2>1, <4>1, <5>1 DEF Timed, FirstSegment
        <5> QED BY <1>3, <4>1, <5>2
      <4>2. CASE ~setting.delta
          BY <2>1, <3>2, <4>2 DEF Bucket
      <4> QED BY <4>1, <4>2
    <3>4. y.dims = z.dims
        BY <1>2, <2>1
    <3>5. y.key = z.key
        BY <2>1, <2>3, <3>1, <3>3, <3>4, KeyIs
    <3> QED BY <2>1, <3>5
  <2> QED BY <2>2, <2>3
<1>4. ASSUME ~setting.delta, p.key = q.key
      PROVE  IF Timed(p.key) THEN p.time = q.time
             ELSE /\ p.time = q.time => a = b
                  /\ Roomy /\ p.time < q.time => p.value <= q.value
  <2>1. CASE Timed(p.key)
      BY <1>1, <1>4, <2>1
  <2>2. CASE ~Timed(p.key)
    <3>1. p \in OwnPoints /\ q \in OwnPoints
        BY <1>1
    <3>2. /\ p.time = q.time => p = q
          /\ Roomy /\ p.time < q.time => p.value <= q.value
        BY <1>2, <1>4, <2>2, <3>1 DEF SeriesInv, PointsAgree
    <3>3. a = [series |-> a.series, of |-> p] /\ b = [series |-> a.series, of |-> q]
        BY <1>1
    <3> QED BY <2>2, <3>2, <3>3
  <2> QED BY <2>1, <2>2
<1> QED BY <1>3, <1>4

(* A stored series is fed by one key, and by one more only where a span has *)
(* passed a limit on names at that very key, however often; and a           *)
(* cumulative one, unless a number names its service, has one value of a    *)
(* key at a time, which never falls as long as the cache has room for the   *)
(* keys of all spans, however pushes of the processor are retried, fail or  *)
(* overtake each other.                                                     *)
THEOREM SeriesStayWellFormed == Spec => []SeriesWellFormed
PROOF
<1>1. Init => CallsInv /\ SeriesInv
    BY CallsInit, SeriesInit
<1>2. IInv /\ (CallsInv /\ SeriesInv) /\ [Next]_vars => (CallsInv /\ SeriesInv)'
    BY CallsStep, SeriesStep
<1>3. CallsInv /\ SeriesInv => SeriesWellFormed
    BY SeriesAre DEF CallsInv
<1> QED BY <1>1, <1>2, <1>3, Invariant, PTL DEF Spec

===============================================================================
