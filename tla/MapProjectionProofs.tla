------------------------- MODULE MapProjectionProofs -------------------------
(***************************************************************************)
(* The map and its history can always be shown, for every set of maps,     *)
(* identifiers, paths and kinds of decision: the checks MapProjection      *)
(* makes on what it composes never fail.                                   *)
(***************************************************************************)
EXTENDS MapProjection, PolicyMemoryProofs, WellFoundedInduction

-----------------------------------------------------------------------------
(***************************************************************************)
(* Sums. A fold is a function defined on the subsets of a set, each by the *)
(* sum of what is left when an element is taken from it. That equation has *)
(* one solution, and the number of messages in the parts is one, so that   *)
(* the fold is that number.                                                *)
(***************************************************************************)
Any(s) == CHOOSE x \in s : TRUE
SumsUp(v, S, g) ==
    g = [s \in SUBSET S |-> IF s = {} THEN 0 ELSE v[Any(s)] + g[s \ {Any(s)}]]

LEMMA AnyIsIn == ASSUME NEW s, s # {} PROVE Any(s) \in s
  BY DEF Any

(* Some number is the least of any.                                        *)
LEMMA LeastNumber ==
    ASSUME NEW N \in SUBSET Nat, N # {}
    PROVE  \E n \in N : \A k \in N : n <= k
<1> DEFINE R == OpToRel(<, Nat)
<1>1. IsWellFoundedOn(R, Nat)
  BY NatLessThanWellFounded
<1>2. \E n \in N : \A k \in N : ~(<<k, n>> \in R)
  <2> HIDE DEF R
  <2> QED
    BY <1>1, WFMin
<1>3. PICK n \in N : \A k \in N : ~(<<k, n>> \in R)
  BY <1>2
<1>4. \A k \in N : ~(k < n)
  BY <1>3 DEF OpToRel
<1>5. \A k \in N : n <= k
  BY <1>4
<1> QED
  BY <1>5

(* Two solutions differ on no subset: not on one of least size.            *)
LEMMA SumIsUnique ==
    ASSUME NEW S, IsFiniteSet(S), NEW v, NEW f, NEW g, SumsUp(v, S, f), SumsUp(v, S, g)
    PROVE  f[S] = g[S]
<1> DEFINE Apart == {T \in SUBSET S : f[T] # g[T]}
           Sizes == {Cardinality(T) : T \in Apart}
<1> SUFFICES ASSUME Apart # {} PROVE FALSE
  OBVIOUS
<1>1. \A T \in SUBSET S : IsFiniteSet(T) /\ Cardinality(T) \in Nat
  BY FS_Subset, FS_CardinalityType
<1>2. PICK n \in Sizes : \A k \in Sizes : n <= k
  <2>1. Sizes \in SUBSET Nat /\ Sizes # {}
    BY <1>1
  <2> HIDE DEF Sizes
  <2> QED
    BY <2>1, LeastNumber
<1>3. PICK T \in Apart : n = Cardinality(T)
  OBVIOUS
<1> DEFINE x == Any(T)
           T1 == T \ {x}
<1>4. T # {}
  BY <1>3 DEF SumsUp
<1>5. x \in T
  BY <1>4, AnyIsIn
<1>6. T1 \in SUBSET S /\ Cardinality(T1) = Cardinality(T) - 1
  BY <1>1, <1>3, <1>5, FS_RemoveElement
<1>7. f[T1] = g[T1]
  BY <1>1, <1>2, <1>3, <1>6
<1>8. f[T] = v[x] + f[T1] /\ g[T] = v[x] + g[T1]
  BY <1>3, <1>4 DEF SumsUp
<1> QED
  BY <1>3, <1>7, <1>8

(* Disjoint parts of a finite whole, and how much is in some of them.      *)
DisjointParts(S, W, whole) ==
    /\ \A p \in S : W[p] \subseteq whole
    /\ \A p, q \in S : p = q \/ W[p] \intersect W[q] = {}

Totals(S, W) == [T \in SUBSET S |-> Cardinality(UNION {W[p] : p \in T})]

LEMMA PartsSumUp ==
    ASSUME NEW S, IsFiniteSet(S), NEW whole, IsFiniteSet(whole), NEW W, DisjointParts(S, W, whole),
           NEW v, \A p \in S : v[p] = Cardinality(W[p])
    PROVE  SumsUp(v, S, Totals(S, W))
<1> DEFINE F == [T \in SUBSET S |-> Cardinality(UNION {W[p] : p \in T})]
<1>1. F[{}] = 0
  <2>1. UNION {W[p] : p \in {}} = {}
    OBVIOUS
  <2> QED
    BY <2>1, FS_EmptySet
<1>2. ASSUME NEW T \in SUBSET S, T # {}
      PROVE  F[T] = v[Any(T)] + F[T \ {Any(T)}]
  <2> DEFINE x == Any(T)
             A == W[x]
             B == UNION {W[p] : p \in T \ {x}}
  <2>1. x \in T
    BY <1>2, AnyIsIn
  <2>2. UNION {W[p] : p \in T} = A \union B
    BY <2>1
  <2>3. A \subseteq whole /\ B \subseteq whole /\ A \intersect B = {}
    BY <2>1 DEF DisjointParts
  <2>4. IsFiniteSet(A) /\ IsFiniteSet(B)
    BY <2>3, FS_Subset
  <2>5. Cardinality(A \union B) = Cardinality(A) + Cardinality(B)
    <3> HIDE DEF A, B, x
    <3>1. Cardinality(A \union B) = Cardinality(A) + Cardinality(B) - Cardinality(A \intersect B)
      BY <2>4, FS_Union
    <3>2. Cardinality(A \intersect B) = 0
      BY <2>3, FS_EmptySet
    <3>3. Cardinality(A) \in Nat /\ Cardinality(B) \in Nat
      BY <2>4, FS_CardinalityType
    <3> QED
      BY <3>1, <3>2, <3>3
  <2>6. F[T] = Cardinality(A \union B) /\ F[T \ {x}] = Cardinality(B)
    <3>1. T \ {x} \in SUBSET S
      OBVIOUS
    <3> QED
      BY <2>2, <3>1
  <2>7. v[x] = Cardinality(A)
    BY <2>1
  <2> HIDE DEF A, B, F, x
  <2>8. F[T] = v[x] + F[T \ {x}]
    BY <2>5, <2>6, <2>7
  <2> QED
    BY <2>8 DEF x
<1>3. \A T \in SUBSET S : F[T] = IF T = {} THEN 0 ELSE v[Any(T)] + F[T \ {Any(T)}]
  BY <1>1, <1>2
<1>4. F = [T \in SUBSET S |-> F[T]]
  OBVIOUS
<1> HIDE DEF F
<1>5. F = [T \in SUBSET S |-> IF T = {} THEN 0 ELSE v[Any(T)] + F[T \ {Any(T)}]]
  BY <1>3, <1>4
<1>6. SumsUp(v, S, F)
  BY <1>5 DEF SumsUp
<1> QED
  BY <1>6 DEF F, Totals

(* The two sums of MapProjection.                                          *)
LEMMA CountsSum ==
    ASSUME NEW S, IsFiniteSet(S), NEW whole, IsFiniteSet(whole), NEW W, DisjointParts(S, W, whole),
           NEW c, \A p \in S : p.counts[c] = Cardinality(W[p])
    PROVE  TotalOf(c, S) = Cardinality(UNION {W[p] : p \in S})
<1> DEFINE v == [p \in S |-> p.counts[c]]
           F == Totals(S, W)
           Step(g) == [s \in SUBSET S |-> IF s = {} THEN 0 ELSE Any(s).counts[c] + g[s \ {Any(s)}]]
           iter == CHOOSE g : g = Step(g)
<1>1. \A g : Step(g) = [s \in SUBSET S |-> IF s = {} THEN 0 ELSE v[Any(s)] + g[s \ {Any(s)}]]
  BY AnyIsIn
<1>2. SumsUp(v, S, F)
  <2>1. \A p \in S : v[p] = Cardinality(W[p])
    OBVIOUS
  <2> HIDE DEF v
  <2> QED
    BY <2>1, PartsSumUp
<1> HIDE DEF v, F
<1>3. F = Step(F)
  <2>1. F = [s \in SUBSET S |-> IF s = {} THEN 0 ELSE v[Any(s)] + F[s \ {Any(s)}]]
    BY <1>2 DEF SumsUp
  <2> HIDE DEF Step
  <2> QED
    BY <1>1, <2>1
<1>4. iter = Step(iter)
  <2> HIDE DEF Step
  <2> QED
    BY <1>3
<1>5. SumsUp(v, S, iter)
  <2> HIDE DEF Step, iter
  <2> QED
    BY <1>1, <1>4 DEF SumsUp
<1>6. iter[S] = F[S]
  <2> HIDE DEF iter
  <2> QED
    BY <1>2, <1>5, SumIsUnique
<1>7. TotalOf(c, S) = iter[S]
  BY DEF TotalOf, MapThenSumSet, MapThenFoldSet, Any
<1>8. F[S] = Cardinality(UNION {W[p] : p \in S})
  BY DEF F, Totals
<1> QED
  BY <1>6, <1>7, <1>8

-----------------------------------------------------------------------------
(* Counting what is shown. *)

OneToOne(X, R) == \A x, y \in X : R[x] = R[y] => x = y

(* Distinct things have as many images.                                    *)
LEMMA ImagesCount ==
    ASSUME NEW X, IsFiniteSet(X), NEW R, R = [x \in X |-> R[x]], OneToOne(X, R)
    PROVE  IsFiniteSet({R[x] : x \in X}) /\ Cardinality({R[x] : x \in X}) = Cardinality(X)
<1> DEFINE T == {R[x] : x \in X}
<1>1. R \in [X -> T]
  OBVIOUS
<1>2. R \in Surjection(X, T)
  BY <1>1 DEF Surjection
<1>3. R \in Injection(X, T)
  BY <1>1 DEF Injection, IsInjective, OneToOne
<1> HIDE DEF T
<1>4. IsFiniteSet(T) /\ Cardinality(T) = Cardinality(X)
  BY <1>2, <1>3, FS_Surjection
<1> QED
  BY <1>4 DEF T

(* What a counter counts of a set of messages.                             *)
Counted(V, c, A) ==
    CASE c = "messages" -> A
      [] c = "protected" -> A \intersect V.protected
      [] c = "review_required" -> A \intersect V.review_required

LEMMA CountsRead ==
    ASSUME NEW V, NEW A, NEW c \in Counters
    PROVE  Counts(V, A)[c] = Cardinality(Counted(V, c, A))
<1>1. CASE c = "messages"
  BY <1>1 DEF Counts, Counted
<1>2. CASE c = "protected"
  BY <1>2 DEF Counts, Counted
<1>3. CASE c = "review_required"
  BY <1>3 DEF Counts, Counted
<1> QED
  BY <1>1, <1>2, <1>3 DEF Counters

LEMMA CountedReads ==
    ASSUME NEW V, NEW c \in Counters
    PROVE  \A A : /\ Counted(V, c, A) \subseteq A
                  /\ \A B \in SUBSET A : Counted(V, c, B) = B \intersect Counted(V, c, A)
<1>1. CASE c = "messages"
  BY <1>1 DEF Counted
<1>2. CASE c = "protected"
  BY <1>2 DEF Counted
<1>3. CASE c = "review_required"
  BY <1>3 DEF Counted
<1> QED
  BY <1>1, <1>2, <1>3 DEF Counters

(* Holders of messages that part a set of them.                            *)
Partition(X, A) ==
    /\ \A x \in X : x.messages \subseteq A
    /\ \A x, y \in X : x = y \/ x.messages \intersect y.messages = {}
    /\ \A m \in A : \E x \in X : m \in x.messages

(* The counters of the parts add up to those of the whole.                 *)
LEMMA CountersAddUp ==
    ASSUME NEW V, NEW whole, NEW A, IsFiniteSet(A), whole.counts = Counts(V, A),
           NEW X, IsFiniteSet(X), Partition(X, A),
           NEW R, R = [x \in X |-> R[x]], OneToOne(X, R),
           \A x \in X : R[x].counts = Counts(V, x.messages)
    PROVE  CountersCover(whole, {R[x] : x \in X})
<1> DEFINE parts == {R[x] : x \in X}
           Of(p) == CHOOSE x \in X : R[x] = p
<1>1. \A p \in parts : Of(p) \in X /\ R[Of(p)] = p
  OBVIOUS
<1>2. \A x \in X : R[x] \in parts /\ Of(R[x]) = x
  BY <1>1 DEF OneToOne
<1>3. IsFiniteSet(parts)
  BY ImagesCount
<1> HIDE DEF parts, Of
<1>4. ASSUME NEW c \in Counters
      PROVE  /\ whole.counts[c] <= whole.counts.messages
             /\ TotalOf(c, parts) = whole.counts[c]
  <2> DEFINE W == [p \in parts |-> Counted(V, c, Of(p).messages)]
             K == Counted(V, c, A)
  <2>1. /\ K \subseteq A
        /\ \A x \in X : Counted(V, c, x.messages) = x.messages \intersect K
    BY CountedReads DEF Partition
  <2>2. whole.counts[c] = Cardinality(K) /\ whole.counts.messages = Cardinality(A)
    <3>1. whole.counts[c] = Cardinality(K)
      BY CountsRead
    <3>2. Counts(V, A).messages = Cardinality(A)
      BY DEF Counts
    <3> QED
      BY <3>1, <3>2
  <2>3. Cardinality(K) <= Cardinality(A)
    BY <2>1, FS_Subset
  <2>4. \A p \in parts : W[p] = Of(p).messages \intersect K
    BY <1>1, <2>1
  <2>5. \A p \in parts : p.counts[c] = Cardinality(W[p])
    <3> SUFFICES ASSUME NEW p \in parts PROVE p.counts[c] = Cardinality(W[p])
      OBVIOUS
    <3>1. p.counts = Counts(V, Of(p).messages)
      BY <1>1
    <3>2. Counts(V, Of(p).messages)[c] = Cardinality(Counted(V, c, Of(p).messages))
      BY CountsRead
    <3> QED
      BY <3>1, <3>2
  <2> HIDE DEF W, K
  <2>6. DisjointParts(parts, W, A)
    BY <1>1, <2>1, <2>4 DEF DisjointParts, Partition
  <2>7. UNION {W[p] : p \in parts} = K
    <3>1. ASSUME NEW m \in K PROVE \E p \in parts : m \in W[p]
      <4>1. PICK x \in X : m \in x.messages
        BY <2>1, <3>1 DEF Partition
      <4>2. m \in W[R[x]] /\ R[x] \in parts
        BY <1>2, <2>4, <3>1, <4>1
      <4> QED
        BY <4>2
    <3>2. \A p \in parts : W[p] \subseteq K
      BY <2>4
    <3> QED
      BY <3>1, <3>2
  <2>8. TotalOf(c, parts) = Cardinality(UNION {W[p] : p \in parts})
    BY <1>3, <2>5, <2>6, CountsSum
  <2> QED
    BY <2>2, <2>3, <2>7, <2>8
<1>5. CountersCover(whole, parts)
  BY <1>4 DEF CountersCover
<1> QED
  BY <1>5 DEF parts

LEMMA FlowsSum ==
    ASSUME NEW S, IsFiniteSet(S), NEW whole, IsFiniteSet(whole), NEW W, DisjointParts(S, W, whole),
           \A s \in S : Cardinality(s.flows) = Cardinality(W[s])
    PROVE  TotalFlows(S) = Cardinality(UNION {W[s] : s \in S})
<1> DEFINE v == [s \in S |-> Cardinality(s.flows)]
           F == Totals(S, W)
           Step(g) == [s \in SUBSET S |->
                         IF s = {} THEN 0 ELSE Cardinality(Any(s).flows) + g[s \ {Any(s)}]]
           iter == CHOOSE g : g = Step(g)
<1>1. \A g : Step(g) = [s \in SUBSET S |-> IF s = {} THEN 0 ELSE v[Any(s)] + g[s \ {Any(s)}]]
  BY AnyIsIn
<1>2. SumsUp(v, S, F)
  <2>1. \A s \in S : v[s] = Cardinality(W[s])
    OBVIOUS
  <2> HIDE DEF v
  <2> QED
    BY <2>1, PartsSumUp
<1> HIDE DEF v, F
<1>3. F = Step(F)
  <2>1. F = [s \in SUBSET S |-> IF s = {} THEN 0 ELSE v[Any(s)] + F[s \ {Any(s)}]]
    BY <1>2 DEF SumsUp
  <2> HIDE DEF Step
  <2> QED
    BY <1>1, <2>1
<1>4. iter = Step(iter)
  <2> HIDE DEF Step
  <2> QED
    BY <1>3
<1>5. SumsUp(v, S, iter)
  <2> HIDE DEF Step, iter
  <2> QED
    BY <1>1, <1>4 DEF SumsUp
<1>6. iter[S] = F[S]
  <2> HIDE DEF iter
  <2> QED
    BY <1>2, <1>5, SumIsUnique
<1>7. TotalFlows(S) = iter[S]
  BY DEF TotalFlows, MapThenSumSet, MapThenFoldSet, Any
<1>8. F[S] = Cardinality(UNION {W[s] : s \in S})
  BY DEF F, Totals
<1> QED
  BY <1>6, <1>7, <1>8

-----------------------------------------------------------------------------
(* The map that is shown. *)

(* Finitely many, since each has a message of its own.                     *)
LEMMA PartedIsFinite ==
    ASSUME NEW M, IsMap(M), NEW X, Parted(M, X)
    PROVE  IsFiniteSet(X)
<1> DEFINE f == [x \in X |-> x.messages]
<1>1. \A x \in X : x.messages \in SUBSET M.rows /\ x.messages # {}
  BY DEF Parted
<1>2. \A x, y \in X : x.messages = y.messages => x = y
  BY <1>1 DEF Parted
<1>3. f \in Injection(X, SUBSET M.rows)
  BY <1>1, <1>2 DEF Injection, IsInjective
<1>4. IsFiniteSet(SUBSET M.rows)
  BY FS_SUBSET DEF IsMap
<1> HIDE DEF f
<1> QED
  BY <1>3, <1>4, FS_Injection

(* The sources of a view, and the flows within each, part its messages.    *)
FlowsWithin(V, e) == {f \in V.flows : f.selector.within = e.selector}

ViewParts(M, V) ==
    /\ Parted(M, V.sources) /\ Parted(M, V.flows)
    /\ \A f \in V.flows : \E e \in V.sources : f \in FlowsWithin(V, e)
    /\ \A e \in V.sources : Partition(FlowsWithin(V, e), e.messages)

LEMMA FlowsPartEach ==
    ASSUME NEW M, IsMap(M), NEW X, Parted(M, X), NEW e \in X
    PROVE  Partition({f \in FlowsOf(M, X) : f.selector.within = e.selector}, e.messages)
<1> DEFINE Y == {f \in FlowsOf(M, X) : f.selector.within = e.selector}
<1>1. Parted(M, FlowsOf(M, X))
  BY FlowsParted
<1>2. ASSUME NEW f \in Y PROVE f.messages \subseteq e.messages
  <2>1. PICK d \in X : \E m \in d.messages : f = FlowIn(M, d, FlowOf(M, m))
    BY FlowsRead
  <2>2. f.selector.within = d.selector /\ f.messages \subseteq d.messages
    BY <2>1, FlowInReads
  <2>3. d = e
    BY <2>2 DEF Parted
  <2> QED
    BY <2>2, <2>3
<1>3. ASSUME NEW m \in e.messages PROVE \E f \in Y : m \in f.messages
  <2> DEFINE f == FlowIn(M, e, FlowOf(M, m))
  <2>1. f.selector.within = e.selector /\ m \in f.messages
    BY <1>3, FlowInReads
  <2>2. f \in FlowsOf(M, X)
    <3> DEFINE g == f
    <3>1. \E d \in X : \E n \in d.messages : g = FlowIn(M, d, FlowOf(M, n))
      OBVIOUS
    <3> HIDE DEF f
    <3> QED
      BY <3>1, FlowsRead
  <2> HIDE DEF f
  <2> QED
    BY <2>1, <2>2
<1>4. \A f, g \in Y : f = g \/ f.messages \intersect g.messages = {}
  BY <1>1 DEF Parted
<1> HIDE DEF Y
<1>5. Partition(Y, e.messages)
  BY <1>2, <1>3, <1>4 DEF Partition
<1> QED
  BY <1>5 DEF Y

LEMMA ViewHasParts ==
    ASSUME NEW M, IsMap(M), NEW P, PoliciesOK(P)
    PROVE  ViewParts(M, ApplyLocalPolicies(M, P))
<1> DEFINE V == ApplyLocalPolicies(M, P)
           X == SourcesGiven(M, P)
<1>1. V.sources = X /\ V.flows = FlowsOf(M, X)
  BY ViewReads DEF FlowsGiven
<1>2. Parted(M, X)
  BY SourcesParted
<1> HIDE DEF V, X
<1>3. Parted(M, FlowsOf(M, X))
  BY <1>2, FlowsParted
<1>4. ASSUME NEW f \in FlowsOf(M, X) PROVE \E e \in X : f.selector.within = e.selector
  <2>1. PICK e \in X : \E m \in e.messages : f = FlowIn(M, e, FlowOf(M, m))
    BY FlowsRead
  <2> QED
    BY <2>1, FlowInReads
<1>5. \A e \in X : Partition({f \in FlowsOf(M, X) : f.selector.within = e.selector}, e.messages)
  BY <1>2, FlowsPartEach
<1>6. ViewParts(M, V)
  BY <1>1, <1>2, <1>3, <1>4, <1>5 DEF ViewParts, FlowsWithin
<1> QED
  BY <1>6 DEF V

LEMMA FlowShown ==
    ASSUME NEW V, NEW f
    PROVE  LET p == FlowProjection(V, f)
           IN  /\ p.id = f.selector /\ p.source_id = f.selector.within
               /\ p.counts = Counts(V, f.messages)
BY DEF FlowProjection

LEMMA SourceShown ==
    ASSUME NEW V, NEW e
    PROVE  LET s == SourceProjection(V, e)
           IN  /\ s.id = e.selector /\ s.counts = Counts(V, e.messages)
               /\ s.flows = {FlowProjection(V, f) : f \in FlowsWithin(V, e)}
BY DEF SourceProjection, FlowsWithin

(* What holds messages counts some.                                        *)
LEMMA HoldersCount ==
    ASSUME NEW M, IsMap(M), NEW V, NEW A, A \subseteq M.rows, A # {}
    PROVE  IsFiniteSet(A) /\ Counts(V, A).messages > 0
<1>1. IsFiniteSet(A)
  BY FS_Subset DEF IsMap
<1>2. Cardinality(A) \in Nat /\ Cardinality(A) # 0
  BY <1>1, FS_CardinalityType, FS_EmptySet
<1>3. Counts(V, A).messages = Cardinality(A)
  BY DEF Counts
<1> QED
  BY <1>1, <1>2, <1>3

(* A source is shown with its flows, as many as it has.                    *)
LEMMA SourceIsShown ==
    ASSUME NEW M, IsMap(M), NEW V, ViewParts(M, V), NEW e \in V.sources
    PROVE  /\ SourceIsValid(SourceProjection(V, e))
           /\ Cardinality(SourceProjection(V, e).flows) = Cardinality(FlowsWithin(V, e))
<1> DEFINE X == FlowsWithin(V, e)
           R == [f \in X |-> FlowProjection(V, f)]
           s == SourceProjection(V, e)
<1>1. /\ s.id = e.selector /\ s.counts = Counts(V, e.messages)
      /\ s.flows = {R[f] : f \in X}
  BY SourceShown
<1>2. \A f \in X : /\ R[f].id = f.selector /\ R[f].source_id = e.selector
                   /\ R[f].counts = Counts(V, f.messages)
  BY FlowShown DEF FlowsWithin
<1>3. R = [f \in X |-> R[f]]
  OBVIOUS
<1>4. X \subseteq V.flows /\ IsFiniteSet(X)
  BY PartedIsFinite, FS_Subset DEF ViewParts, FlowsWithin
<1>5. Partition(X, e.messages)
  BY DEF ViewParts
<1> HIDE DEF X, R, s
<1>6. OneToOne(X, R)
  BY <1>2, <1>4 DEF OneToOne, ViewParts, Parted
<1>7. IsFiniteSet(e.messages) /\ s.counts.messages > 0
  BY <1>1, HoldersCount DEF ViewParts, Parted
<1>8. CountersCover(s, s.flows)
  BY <1>1, <1>2, <1>3, <1>4, <1>5, <1>6, <1>7, CountersAddUp
<1>9. ASSUME NEW p \in s.flows PROVE FlowIsValid(p) /\ p.source_id = s.id
  <2>1. PICK f \in X : p = R[f]
    BY <1>1
  <2>2. Counts(V, f.messages).messages > 0
    BY <1>4, HoldersCount DEF ViewParts, Parted
  <2> QED
    BY <1>1, <1>2, <2>1, <2>2 DEF FlowIsValid
<1>10. Cardinality(s.flows) = Cardinality(X)
  BY <1>1, <1>3, <1>4, <1>6, ImagesCount
<1> QED
  BY <1>7, <1>8, <1>9, <1>10 DEF SourceIsValid, s, X

(* Every policy has one binding.                                           *)
LEMMA BindingsAreOne ==
    ASSUME NEW M, NEW P, PoliciesOK(P), NEW b \in AllBound(M, P), NEW c \in AllBound(M, P),
           b.policy.decision = c.policy.decision
    PROVE  b = c
<1>1. b.policy \in P /\ c.policy \in P
  BY StructuresRead, OthersRead DEF AllBound, InStructure
<1>2. b.policy = c.policy
  BY <1>1 DEF PoliciesOK
<1>3. \E t, clear : MarkedAs(b, t, clear) /\ MarkedAs(c, t, clear)
  <2>1. CASE b.policy \in InStructure(P)
    <3>1. b \in StructuresBound(M, P) /\ c \in StructuresBound(M, P)
      BY <1>2, <2>1, OthersRead DEF AllBound
    <3> QED
      BY <1>2, <3>1, StructuresRead
  <2>2. CASE b.policy \notin InStructure(P)
    <3>1. b \in OthersBound(M, P) /\ c \in OthersBound(M, P)
      BY <1>2, <2>2, StructuresRead DEF AllBound
    <3> QED
      BY <1>2, <3>1, OthersRead
  <2> QED
    BY <2>1, <2>2
<1>4. b.status = c.status /\ b.candidate = c.candidate
  BY <1>3 DEF MarkedAs
<1>5. IsBinding(b) /\ IsBinding(c)
  BY <1>3 DEF MarkedAs
<1> QED
  BY <1>2, <1>4, <1>5 DEF IsBinding

(* The map as it is shown passes its own checks.                           *)
LEMMA MapIsValid ==
    ASSUME IsMap(map), NEW P, PoliciesOK(P)
    PROVE  ProjectionIsValid(Projection(ApplyLocalPolicies(map, P)))
<1> DEFINE V == ApplyLocalPolicies(map, P)
           X == V.sources
           F == V.flows
           R == [e \in X |-> SourceProjection(V, e)]
           shown == {R[e] : e \in X}
           p == Projection(V)
<1>1. /\ p.sources = shown
      /\ p.policy_review = {[decision |-> b.policy.decision, status |-> b.status,
                             current |-> b.candidate.effective] :
                               b \in {x \in V.bindings : ~Applies(x)}}
      /\ p.summary.counts = Counts(V, map.rows)
      /\ p.summary.source_count = Cardinality(X) /\ p.summary.flow_count = Cardinality(F)
  BY DEF Projection, Summary, PolicyReview
<1>2. ViewParts(map, V)
  BY ViewHasParts
<1>3. IsFiniteSet(X) /\ IsFiniteSet(F) /\ IsFiniteSet(map.rows)
  BY <1>2, PartedIsFinite DEF ViewParts, IsMap
<1>4. \A e \in X : /\ R[e].id = e.selector /\ R[e].counts = Counts(V, e.messages)
                   /\ SourceIsValid(R[e])
                   /\ Cardinality(R[e].flows) = Cardinality(FlowsWithin(V, e))
  <2> SUFFICES ASSUME NEW e \in X
               PROVE  /\ R[e].id = e.selector /\ R[e].counts = Counts(V, e.messages)
                      /\ SourceIsValid(R[e])
                      /\ Cardinality(R[e].flows) = Cardinality(FlowsWithin(V, e))
    OBVIOUS
  <2>1. R[e] = SourceProjection(V, e)
    OBVIOUS
  <2> HIDE DEF R, V
  <2> QED
    BY <1>2, <2>1, SourceShown, SourceIsShown
<1>5. R = [e \in X |-> R[e]]
  OBVIOUS
<1>6. V.bindings = AllBound(map, P)
  BY ViewReads
<1> HIDE DEF V, R
<1>7. OneToOne(X, R)
  BY <1>2, <1>4 DEF OneToOne, ViewParts, Parted
<1>8. \A s, t \in shown : s.id = t.id => s = t
  BY <1>2, <1>4 DEF ViewParts, Parted
<1>9. \A s \in shown : SourceIsValid(s)
  BY <1>4
<1>10. CountersCover(p.summary, shown)
  <2>1. Partition(X, map.rows)
    BY <1>2 DEF ViewParts, Parted, Partition
  <2> HIDE DEF p, X
  <2> QED
    BY <1>1, <1>3, <1>4, <1>5, <1>7, <2>1, CountersAddUp
<1>11. IsFiniteSet(shown) /\ Cardinality(shown) = Cardinality(X)
  <2> HIDE DEF X
  <2> QED
    BY <1>3, <1>5, <1>7, ImagesCount
<1>12. TotalFlows(shown) = Cardinality(F)
  <2> DEFINE W == [s \in shown |-> {f \in F : f.selector.within = s.id}]
  <2>1. \A e \in X : R[e] \in shown /\ W[R[e]] = FlowsWithin(V, e)
    BY <1>4 DEF FlowsWithin
  <2>2. \A s \in shown : Cardinality(s.flows) = Cardinality(W[s])
    BY <1>4, <2>1
  <2>3. DisjointParts(shown, W, F)
    BY <1>8 DEF DisjointParts
  <2>4. UNION {W[s] : s \in shown} = F
    <3>1. ASSUME NEW f \in F PROVE \E s \in shown : f \in W[s]
      <4>1. PICK e \in X : f \in FlowsWithin(V, e)
        BY <1>2 DEF ViewParts
      <4> HIDE DEF shown, W
      <4> QED
        BY <2>1, <4>1
    <3>2. \A s \in shown : W[s] \subseteq F
      OBVIOUS
    <3> HIDE DEF shown, W
    <3> QED
      BY <3>1, <3>2
  <2> HIDE DEF shown, W, F
  <2>5. TotalFlows(shown) = Cardinality(UNION {W[s] : s \in shown})
    BY <1>3, <1>11, <2>2, <2>3, FlowsSum
  <2> QED
    BY <2>4, <2>5
<1>13. \A b, c \in p.policy_review : b.decision = c.decision => b = c
  <2> SUFFICES ASSUME NEW b \in p.policy_review, NEW c \in p.policy_review,
                      b.decision = c.decision
               PROVE  b = c
    OBVIOUS
  <2>1. PICK x \in AllBound(map, P) : b = [decision |-> x.policy.decision, status |-> x.status,
                                           current |-> x.candidate.effective]
    BY <1>1, <1>6
  <2>2. PICK y \in AllBound(map, P) : c = [decision |-> y.policy.decision, status |-> y.status,
                                           current |-> y.candidate.effective]
    BY <1>1, <1>6
  <2>3. x.policy.decision = y.policy.decision
    BY <2>1, <2>2
  <2>4. x = y
    BY <2>3, BindingsAreOne
  <2> QED
    BY <2>1, <2>2, <2>4
<1> HIDE DEF shown, p, X, F
<1>14. ProjectionIsValid(p)
  BY <1>1, <1>8, <1>9, <1>10, <1>11, <1>12, <1>13 DEF ProjectionIsValid
<1> QED
  BY <1>14 DEF p, V

-----------------------------------------------------------------------------
(* The history of the decisions. *)

(* A decision that was prepared is told with what it was about.            *)
LEMMA PreparedIsTold ==
    ASSUME NEW body, NEW anchors, NEW M, NEW V, BodyShape(body), DecisionOK(body, anchors),
           anchors = PreparedAnchors(M, V, body), TargetFound(M, V, body),
           NEW entry, entry.command.body = body, entry.observed = {a.selector : a \in anchors},
           body.kind # "undo"
    PROVE  EntryIsValid(entry)
<1> DEFINE observed == {a.selector : a \in anchors}
           named == {s \in observed : IsSourceSelector(s)}
<1>1. CASE IsStructural(body)
  <2>1. named = body.participants
    <3>1. {a.selector : a \in {b \in anchors : IsSourceSelector(b.selector)}} = body.participants
      BY <1>1 DEF DecisionOK, StructureOK
    <3>2. named = {a.selector : a \in {b \in anchors : IsSourceSelector(b.selector)}}
      OBVIOUS
    <3> QED
      BY <3>1, <3>2
  <2>2. CASE body.kind = "merge"
    <3>1. Cardinality(named) > 1
      BY <1>1, <2>1, <2>2 DEF BodyShape
    <3> QED
      BY <2>2, <3>1 DEF EntryIsValid
  <2>3. CASE body.kind = "partition"
    <3>1. Cardinality(named) = 1
      <4>1. \E t : named = {t}
        BY <1>1, <2>1, <2>3 DEF BodyShape, GroupsOK
      <4> HIDE DEF named
      <4> QED
        BY <4>1, FS_Singleton
    <3>2. ASSUME NEW g \in body.groups PROVE g \intersect observed # {}
      <4>1. PICK a \in g : TRUE
        BY <1>1, <2>3 DEF BodyShape
      <4>2. PICK t \in TargetsOf(M, V, body) : TRUE
        <5>1. PICK x \in body.participants : TRUE
          BY <1>1 DEF BodyShape
        <5>2. PICK e \in V.sources : e.selector = x
          BY <1>1, <5>1 DEF TargetFound
        <5> QED
          BY <1>1, <5>1, <5>2 DEF TargetsOf
      <4> DEFINE o == Observed(M, a, {}, AnchorMessages(M, a, t.messages))
      <4>3. a \in UNION body.groups
        BY <4>1
      <4>4. o \in anchors
        BY <2>3, <4>2, <4>3 DEF PreparedAnchors
      <4>5. o.selector = a
        BY ObservedReads
      <4> HIDE DEF o
      <4> QED
        BY <4>1, <4>4, <4>5
    <3> QED
      BY <2>3, <3>1, <3>2 DEF EntryIsValid
  <2> QED
    BY <1>1, <2>2, <2>3 DEF IsStructural
<1>2. CASE ~IsStructural(body)
  <2>1. PICK a : anchors = {a}
    BY <1>2 DEF DecisionOK, TargetOK
  <2>2. observed = {a.selector}
    BY <2>1
  <2>3. Cardinality(observed) = 1
    BY <2>2, FS_Singleton
  <2> QED
    BY <1>2, <2>3 DEF EntryIsValid, IsStructural
<1> QED
  BY <1>1, <1>2

LEMMA HistoryIsTold ==
    ASSUME PreparedInv, NEW V, NEW i \in DOMAIN log
    PROVE  EntryIsValid(HistoryEntry(V, log[i]))
<1> DEFINE e == log[i]
           entry == HistoryEntry(V, e)
<1>1. entry.command = e.command /\ entry.observed = {a.selector : a \in e.anchors}
  BY DEF HistoryEntry
<1>2. PICK c \in sent : e.command = c.command /\ e.anchors = c.anchors
  <2>1. e \in EventsOf(log)
    BY DEF EventsOf
  <2>2. PICK c \in sent : e = [command |-> c.command, anchors |-> c.anchors]
    BY <2>1 DEF PreparedInv, MemoryInv, TypeOK
  <2> QED
    BY <2>2
<1>3. CASE IsDecision(e.command)
  <2>1. ShapeOK(c) /\ AsSeen(c)
    BY <1>2, <1>3 DEF PreparedInv, SentPrepared
  <2>2. TargetFound(c.seen.map, ViewSeen(c), c.command.body)
    BY <2>1 DEF AsSeen, PreparePolicyOutcome
  <2>3. c.command.body.kind # "undo"
    BY <1>2, <1>3 DEF IsDecision
  <2>4. entry.command.body = c.command.body /\ entry.observed = {a.selector : a \in c.anchors}
    BY <1>1, <1>2
  <2>5. /\ BodyShape(c.command.body) /\ DecisionOK(c.command.body, c.anchors)
        /\ c.anchors = PreparedAnchors(c.seen.map, ViewSeen(c), c.command.body)
    BY <2>1 DEF ShapeOK, AsSeen
  <2> HIDE DEF entry, e
  <2>6. EntryIsValid(entry)
    BY <2>2, <2>3, <2>4, <2>5, PreparedIsTold
  <2> QED
    BY <2>6 DEF entry, e
<1>4. CASE ~IsDecision(e.command)
  <2>1. entry.binding = {} /\ ~entry.active /\ entry.command.body.kind = "undo"
    BY <1>4 DEF HistoryEntry, IsDecision
  <2> HIDE DEF entry
  <2>2. EntryIsValid(entry)
    BY <2>1 DEF EntryIsValid
  <2> QED
    BY <2>2 DEF entry
<1> QED
  BY <1>3, <1>4

(* The map is never refused by its own checks: after any decisions, undos, *)
(* scans and replays its counters agree, it has no empty part, and the     *)
(* history of every decision ever made can be told (MapProjection,         *)
(* MapDecisionHistory).                                                    *)
THEOREM ShownCorrect == Spec => []MapIsShown
<1>1. PreparedInv => MapIsShown
  <2> SUFFICES ASSUME PreparedInv PROVE MapIsShown
    OBVIOUS
  <2>1. IsMap(map) /\ PoliciesOK(policies)
    BY InForceAreOK
  <2>2. View.valid
    BY <2>1, EveryViewIsComplete DEF View
  <2>3. ProjectionIsValid(Projection(View))
    BY <2>1, MapIsValid DEF View
  <2>4. \A i \in DOMAIN DecisionHistory(View) : EntryIsValid(DecisionHistory(View)[i])
    BY HistoryIsTold DEF DecisionHistory
  <2> QED
    BY <2>2, <2>3, <2>4 DEF MapIsShown
<1> QED
  BY <1>1, PreparedCorrect, PTL
=============================================================================
