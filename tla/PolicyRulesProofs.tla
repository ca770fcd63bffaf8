-------------------------- MODULE PolicyRulesProofs --------------------------
(***************************************************************************)
(* Lemmas of PolicyRules, for every map and every set of policies that are *)
(* well formed: the view they give is complete and free of contradictions, *)
(* a message that is protected by its source stays protected, and a        *)
(* decision that is prepared on a view applies in the next one. What a     *)
(* policy has to be for this, its shape, is what prepare_policy_decision   *)
(* gives it; that each policy of the memory has it is proved of the        *)
(* machine, in PolicyMemoryProofs.                                         *)
(***************************************************************************)
EXTENDS PolicyRules, FiniteSetTheorems, TLAPS

(* The selector of an automatic source.                                    *)
IsAutomatic(sel) == \E S \in sel.sources : S # {} /\ sel = Automatic(S)

(* The groups of a partition: disjoint, of anchors of its one source.      *)
GroupsOK(body, anchors) ==
    /\ \E t \in body.participants :
          /\ body.participants = {t}
          /\ \A a \in UNION body.groups : a.kind = "sender" => a.of \in UNION t.sources
    /\ IsFiniteSet(UNION body.groups)
    /\ \A g, h \in body.groups : g = h \/ g \intersect h = {}
    /\ \A a \in anchors : IsSourceSelector(a.selector) \/ a.selector \in UNION body.groups

(* A merge or a partition, with the anchors of its participants.           *)
StructureOK(body, anchors) ==
    /\ body.participants # {}
    /\ \A x \in body.participants : IsAutomatic(x)
    /\ {a.selector : a \in {b \in anchors : IsSourceSelector(b.selector)}} = body.participants
    /\ \A a \in anchors : a.structural = {}
    /\ body.kind = "partition" => GroupsOK(body, anchors)

(* The groups of a source that is a part of another are groups of it.      *)
PartsAreOwn(sel) ==
    sel.kind = "partition_group" =>
        \A a \in sel.part : a.kind = "sender" => a.of \in UNION sel.sources

(* A correction or a protection, with the anchor of its target.            *)
TargetOK(body, anchors) ==
    /\ \E a \in anchors :
          /\ anchors = {a} /\ a.selector = body.target
          /\ body.target.kind \in {"message", "sender"} => a.structural = {}
    /\ body.kind \in CorrectionFields \union {"protect"}
    /\ body.kind \in SourceFields => IsSourceSelector(body.target)
    /\ body.kind \in FlowFields => body.target.kind = "flow"
    /\ IsSourceSelector(body.target) \/ body.target.kind \in {"flow", "message", "sender"}
    /\ PartsAreOwn(body.target)

DecisionOK(body, anchors) ==
    IF IsStructural(body) THEN StructureOK(body, anchors) ELSE TargetOK(body, anchors)

(* Well formed policies: each has its shape, and its own decision.         *)
PoliciesOK(P) ==
    /\ \A p \in P : DecisionOK(p.body, p.anchors)
    /\ \A p, q \in P : p.decision = q.decision => p = q

-----------------------------------------------------------------------------
(* The view, part by part. *)
InStructure(P) == {p \in P : IsStructural(p.body)}
StructuresBound(M, P) == StructuralBindings(M, InStructure(P))
Applied(M, P) == {b.policy : b \in {x \in StructuresBound(M, P) : Applies(x)}}
SourcesGiven(M, P) == ApplyStructure(M, Applied(M, P), BaselineSources(M))
FlowsGiven(M, P) == FlowsOf(M, SourcesGiven(M, P))
OthersBound(M, P) ==
    OtherBindings(M, P \ InStructure(P), SourcesGiven(M, P), FlowsGiven(M, P))
AllBound(M, P) == StructuresBound(M, P) \union OthersBound(M, P)

LEMMA ViewReads ==
    ASSUME NEW M, NEW P
    PROVE  LET view == ApplyLocalPolicies(M, P)
           IN  /\ view.valid <=> /\ StructureApplies(M, Applied(M, P), BaselineSources(M))
                                 /\ CorrectionsApply(AllBound(M, P), SourcesGiven(M, P),
                                                     FlowsGiven(M, P))
               /\ view.sources = SourcesGiven(M, P) /\ view.flows = FlowsGiven(M, P)
               /\ view.bindings = AllBound(M, P)
               /\ view.protected = Protected(M, AllBound(M, P))
BY DEF ApplyLocalPolicies, InStructure, StructuresBound, Applied, SourcesGiven, FlowsGiven,
       OthersBound, AllBound

-----------------------------------------------------------------------------
(* The automatic sources. *)
BaseOf(M, S) ==
    [selector |-> Automatic(S), structural |-> {},
     messages |-> {m \in M.rows : M.sender[m] \in S}]

LEMMA AutomaticReads ==
    ASSUME NEW S
    PROVE  /\ Automatic(S).kind = "automatic" /\ Automatic(S).sources = {S}
           /\ Automatic(S).part = {} /\ IsSourceSelector(Automatic(S))
BY DEF Automatic, IsSourceSelector

LEMMA BaseReads ==
    ASSUME NEW M, IsMap(M), NEW e \in BaselineSources(M)
    PROVE  \E S \in M.sources :
              /\ e = BaseOf(M, S) /\ S # {}
              /\ e.selector = Automatic(S) /\ e.structural = {}
              /\ e.messages = {m \in M.rows : M.sender[m] \in S} /\ e.messages # {}
<1>1. PICK S \in M.sources : e = BaseOf(M, S)
  BY DEF BaselineSources, BaseOf
<1>2. S # {} /\ S \subseteq {M.sender[m] : m \in M.rows}
  BY DEF IsMap
<1>3. \E m \in M.rows : M.sender[m] \in S
  BY <1>2
<1> QED
  BY <1>1, <1>2, <1>3 DEF BaseOf

(* Each message is in one automatic source, which no other is named as.    *)
LEMMA BaseIsOne ==
    ASSUME NEW M, IsMap(M)
    PROVE  /\ \A e, f \in BaselineSources(M) :
                 e.selector = f.selector \/ e.messages \intersect f.messages # {} => e = f
           /\ \A m \in M.rows : \E e \in BaselineSources(M) : m \in e.messages
<1>1. ASSUME NEW e \in BaselineSources(M), NEW f \in BaselineSources(M),
             e.selector = f.selector \/ e.messages \intersect f.messages # {}
      PROVE  e = f
  <2>1. PICK S \in M.sources : /\ e = BaseOf(M, S) /\ e.selector = Automatic(S)
                               /\ e.messages = {m \in M.rows : M.sender[m] \in S}
    BY BaseReads
  <2>2. PICK T \in M.sources : /\ f = BaseOf(M, T) /\ f.selector = Automatic(T)
                               /\ f.messages = {m \in M.rows : M.sender[m] \in T}
    BY BaseReads
  <2>3. S = T
    <3>1. CASE e.selector = f.selector
      <4>1. Automatic(S).sources = {S} /\ Automatic(T).sources = {T}
        BY AutomaticReads
      <4>2. Automatic(S) = Automatic(T)
        BY <2>1, <2>2, <3>1
      <4> QED
        BY <4>1, <4>2
    <3>2. CASE e.messages \intersect f.messages # {}
      BY <2>1, <2>2, <3>2 DEF IsMap
    <3> QED
      BY <1>1, <3>1, <3>2
  <2> QED
    BY <2>1, <2>2, <2>3
<1>2. ASSUME NEW m \in M.rows PROVE \E e \in BaselineSources(M) : m \in e.messages
  <2>1. PICK S \in M.sources : M.sender[m] \in S
    BY DEF IsMap
  <2>2. BaseOf(M, S) \in BaselineSources(M)
    BY DEF BaselineSources, BaseOf
  <2>3. m \in BaseOf(M, S).messages
    BY <2>1 DEF BaseOf
  <2> QED
    BY <2>2, <2>3
<1> QED
  BY <1>1, <1>2

-----------------------------------------------------------------------------
(* Bindings. *)
Statuses == {"exact", "rebound", "needs_review", "orphaned", "ambiguous"}

LEMMA BoundReads ==
    ASSUME NEW status, NEW candidate
    PROVE  Bound(status, candidate).status = status /\ Bound(status, candidate).candidate = candidate
BY DEF Bound

(* Only what is found exactly applies, and only in the context it was      *)
(* made in; what cannot be found exactly is about what it may mean.        *)
Resolves(r, anchor, exact, fallbacks) ==
    /\ r.status \in Statuses
    /\ Applies(r) => exact # {}
    /\ Applies(r) => anchor.structural = MergeCandidates(exact).structural
    /\ exact # {} => r.candidate = MergeCandidates(exact) /\ r.status # "orphaned"
    /\ exact # {} /\ anchor.structural = MergeCandidates(exact).structural => Applies(r)
    /\ exact # {} => Applies(r) \/ r.status = "needs_review"
    /\ exact = {} => r.candidate = MergeCandidates(fallbacks)
    /\ exact = {} /\ fallbacks # {} => r.status \in {"needs_review", "ambiguous"}

LEMMA ResolveReads ==
    ASSUME NEW anchor, NEW exact, NEW fallbacks
    PROVE  Resolves(Resolve(anchor, exact, fallbacks), anchor, exact, fallbacks)
<1> DEFINE r == Resolve(anchor, exact, fallbacks)
           c == MergeCandidates(IF exact # {} THEN exact ELSE fallbacks)
<1>1. r = IF exact # {} THEN Bound(StatusForExactAnchor(anchor, c), c)
          ELSE IF fallbacks = {} THEN Bound("orphaned", c)
          ELSE IF anchor.structural # c.structural \/ Cardinality(fallbacks) = 1
          THEN Bound("needs_review", c) ELSE Bound("ambiguous", c)
  BY DEF Resolve
<1> HIDE DEF r
<1>2. CASE exact # {}
  <2>1. c = MergeCandidates(exact)
    BY <1>2
  <2>2. /\ StatusForExactAnchor(anchor, c) \in {"exact", "rebound", "needs_review"}
        /\ StatusForExactAnchor(anchor, c) = "needs_review" <=> anchor.structural # c.structural
    BY DEF StatusForExactAnchor
  <2> HIDE DEF c
  <2>3. r.status = StatusForExactAnchor(anchor, c) /\ r.candidate = c
    BY <1>1, <1>2, BoundReads
  <2> QED
    BY <1>2, <2>1, <2>2, <2>3 DEF Applies, Statuses, r, Resolves
<1>3. CASE exact = {}
  <2>1. c = MergeCandidates(fallbacks)
    BY <1>3
  <2> HIDE DEF c
  <2>2. r.candidate = c /\ r.status \in {"orphaned", "needs_review", "ambiguous"}
        /\ (fallbacks # {} => r.status # "orphaned")
    BY <1>1, <1>3, BoundReads
  <2> QED
    BY <1>3, <2>1, <2>2 DEF Applies, Statuses, r, Resolves
<1> QED
  BY <1>2, <1>3

(* Statuses combine to one that applies only if each of them does.         *)
LEMMA CombinedReads ==
    ASSUME NEW T, T \subseteq Statuses
    PROVE  CombinedStatus(T) \in {"exact", "rebound"} <=> T \subseteq {"exact", "rebound"}
<1>1. CASE T \subseteq {"exact", "rebound"}
  BY <1>1 DEF CombinedStatus
<1>2. CASE ~ T \subseteq {"exact", "rebound"}
  <2>1. \E s \in T : s \in {"needs_review", "orphaned", "ambiguous"}
    BY <1>2 DEF Statuses
  <2> QED
    BY <1>2, <2>1 DEF CombinedStatus
<1> QED
  BY <1>1, <1>2

(* A candidate that stands for some effective sources or flows.            *)
StandsFor(candidate, Y) ==
    /\ candidate.effective = {e.selector : e \in Y}
    /\ candidate.structural = UNION {e.structural : e \in Y}
    /\ candidate.messages = UNION {e.messages : e \in Y}

LEMMA SourcesMerged ==
    ASSUME NEW M, NEW Y
    PROVE  StandsFor(MergeCandidates({SourceCandidate(M, e) : e \in Y}), Y)
<1> DEFINE C == {SourceCandidate(M, e) : e \in Y}
<1>1. \A e : /\ SourceCandidate(M, e).effective = {e.selector}
             /\ SourceCandidate(M, e).structural = e.structural
             /\ SourceCandidate(M, e).messages = e.messages
  BY DEF SourceCandidate
<1>2. /\ UNION {c.effective : c \in C} = {e.selector : e \in Y}
      /\ UNION {c.structural : c \in C} = UNION {e.structural : e \in Y}
      /\ UNION {c.messages : c \in C} = UNION {e.messages : e \in Y}
  BY <1>1
<1> QED
  BY <1>2 DEF StandsFor, MergeCandidates

LEMMA FlowsMerged ==
    ASSUME NEW Y
    PROVE  StandsFor(MergeCandidates({FlowCandidate(f) : f \in Y}), Y)
<1> DEFINE C == {FlowCandidate(e) : e \in Y}
<1>1. \A e : /\ FlowCandidate(e).effective = {e.selector}
             /\ FlowCandidate(e).structural = e.structural
             /\ FlowCandidate(e).messages = e.messages
  BY DEF FlowCandidate
<1>2. /\ UNION {c.effective : c \in C} = {e.selector : e \in Y}
      /\ UNION {c.structural : c \in C} = UNION {e.structural : e \in Y}
      /\ UNION {c.messages : c \in C} = UNION {e.messages : e \in Y}
  BY <1>1
<1> QED
  BY <1>2 DEF StandsFor, MergeCandidates

(* What an anchor binds to, of the sources or flows that bear its selector *)
(* and, when there is none, of those that are near.                        *)
BindsAmong(r, anchor, exact, near) ==
    /\ r.status \in Statuses
    /\ Applies(r) => exact # {} /\ anchor.structural = UNION {e.structural : e \in exact}
    /\ exact # {} => /\ StandsFor(r.candidate, exact)
                     /\ Applies(r) \/ r.status = "needs_review"
                     /\ anchor.structural = UNION {e.structural : e \in exact} => Applies(r)
    /\ exact = {} => /\ StandsFor(r.candidate, near)
                     /\ near # {} => r.status \in {"needs_review", "ambiguous"}

LEMMA ResolvesAmong ==
    ASSUME NEW r, NEW anchor, NEW E, NEW N, NEW exact, NEW near, Resolves(r, anchor, E, N),
           E = {} <=> exact = {}, N = {} <=> near = {},
           StandsFor(MergeCandidates(E), exact), StandsFor(MergeCandidates(N), near)
    PROVE  BindsAmong(r, anchor, exact, near)
<1>1. MergeCandidates(E).structural = UNION {e.structural : e \in exact}
  BY DEF StandsFor
<1> DEFINE structural == UNION {e.structural : e \in exact}
<1> HIDE DEF structural
<1>2. /\ r.status \in Statuses
      /\ Applies(r) => exact # {} /\ anchor.structural = structural
      /\ exact # {} => /\ r.candidate = MergeCandidates(E)
                       /\ Applies(r) \/ r.status = "needs_review"
                       /\ anchor.structural = structural => Applies(r)
      /\ exact = {} => /\ r.candidate = MergeCandidates(N)
                       /\ near # {} => r.status \in {"needs_review", "ambiguous"}
  BY <1>1 DEF Resolves, structural
<1> QED
  BY <1>2 DEF BindsAmong, structural

LEMMA SourceAnchorBinds ==
    ASSUME NEW M, NEW anchor, NEW X
    PROVE  BindsAmong(ResolveSourceAnchor(M, anchor, X), anchor,
               {x \in X : x.selector = anchor.selector},
               {x \in X : AnyShareAnchor(anchor.selector.sources, x.selector.sources)})
<1> DEFINE exact == {x \in X : x.selector = anchor.selector}
           near == {x \in X : AnyShareAnchor(anchor.selector.sources, x.selector.sources)}
           E == {SourceCandidate(M, e) : e \in exact}
           N == {SourceCandidate(M, e) : e \in near}
           r == ResolveSourceAnchor(M, anchor, X)
<1>1. r = Resolve(anchor, E, N)
  BY DEF ResolveSourceAnchor
<1>2. (E = {} <=> exact = {}) /\ (N = {} <=> near = {})
  OBVIOUS
<1>3. StandsFor(MergeCandidates(E), exact) /\ StandsFor(MergeCandidates(N), near)
  BY SourcesMerged
<1> HIDE DEF E, N, exact, near, r
<1>4. Resolves(r, anchor, E, N)
  BY <1>1, ResolveReads
<1>5. BindsAmong(r, anchor, exact, near)
  BY <1>2, <1>3, <1>4, ResolvesAmong
<1> QED
  BY <1>5 DEF r, exact, near

LEMMA FlowAnchorBinds ==
    ASSUME NEW anchor, NEW X
    PROVE  \E near \in SUBSET X :
              BindsAmong(ResolveFlowAnchor(anchor, X), anchor,
                  {x \in X : x.selector = anchor.selector}, near)
<1> DEFINE flow == anchor.selector.flow
           same == {f \in X : FlowsShareAnchor(flow, f.selector.flow)}
           close == {f \in X : DescriptorsShareAnchor(flow.source, f.selector.flow.source)}
           near == IF same # {} THEN same ELSE close
           exact == {x \in X : x.selector = anchor.selector}
           E == {FlowCandidate(e) : e \in exact}
           N == {FlowCandidate(e) : e \in near}
           r == ResolveFlowAnchor(anchor, X)
<1>1. r = Resolve(anchor, E, N)
  BY DEF ResolveFlowAnchor
<1>2. near \in SUBSET X
  OBVIOUS
<1> HIDE DEF near
<1>3. (E = {} <=> exact = {}) /\ (N = {} <=> near = {})
  OBVIOUS
<1>4. StandsFor(MergeCandidates(E), exact) /\ StandsFor(MergeCandidates(N), near)
  BY FlowsMerged
<1> HIDE DEF E, N, exact, r
<1>5. Resolves(r, anchor, E, N)
  BY <1>1, ResolveReads
<1>6. BindsAmong(r, anchor, exact, near)
  BY <1>3, <1>4, <1>5, ResolvesAmong
<1> QED
  BY <1>2, <1>6 DEF r, exact

(* What can be marked as a conflict and what cannot.                       *)
IsBinding(b) == b = [policy |-> b.policy, status |-> b.status, candidate |-> b.candidate]

LEMMA BindingReads ==
    ASSUME NEW policy, NEW r
    PROVE  LET b == BindingTo(policy, r)
           IN  /\ IsBinding(b) /\ b.policy = policy /\ b.status = r.status
               /\ b.candidate = r.candidate /\ (Applies(b) <=> Applies(r))
BY DEF BindingTo, IsBinding, Applies

LEMMA ConflictReads ==
    ASSUME NEW b, IsBinding(b)
    PROVE  LET c == InConflict(b)
           IN  /\ IsBinding(c) /\ c.policy = b.policy /\ c.candidate = b.candidate
               /\ c.status = "conflict" /\ ~Applies(c)
<1>1. InConflict(b) = [policy |-> b.policy, status |-> "conflict", candidate |-> b.candidate]
  BY DEF IsBinding, InConflict
<1> QED
  BY <1>1 DEF IsBinding, Applies

(* A binding after the marks, and what it was before: clear is whether it   *)
(* clashed with no other.                                                   *)
MarkedAs(x, b, clear) ==
    /\ IsBinding(x) /\ x.policy = b.policy /\ x.candidate = b.candidate
    /\ x = b \/ x.status = "conflict"
    /\ clear => x = b
    /\ ~clear => x.status = "conflict"
    /\ Applies(x) => x = b /\ clear

LEMMA MarkReads ==
    ASSUME NEW b, IsBinding(b), NEW clear
    PROVE  MarkedAs(IF ~clear THEN InConflict(b) ELSE b, b, clear)
<1>1. CASE clear
  BY <1>1 DEF MarkedAs
<1>2. CASE ~clear
  BY <1>2, ConflictReads DEF MarkedAs
<1> QED
  BY <1>1, <1>2

(* The structural policies, each bound on its own, and without a clash.    *)
StructureBound(M, p) == BindingTo(p, StructuralBinding(M, p, BaselineSources(M)))
StructureClear(M, P, p) ==
    \A q \in InStructure(P) :
        q = p \/ ~StructuresClash(StructureBound(M, p), StructureBound(M, q))

LEMMA StructuresRead ==
    ASSUME NEW M, NEW P
    PROVE  /\ \A x \in StructuresBound(M, P) :
                 /\ x.policy \in InStructure(P)
                 /\ MarkedAs(x, StructureBound(M, x.policy), StructureClear(M, P, x.policy))
           /\ \A p \in InStructure(P) : \E x \in StructuresBound(M, P) : x.policy = p
<1> DEFINE Clear(p) == StructureClear(M, P, p)
           B == {StructureBound(M, p) : p \in InStructure(P)}
           Marked(b) == IF \E c \in B \ {b} : StructuresClash(b, c) THEN InConflict(b) ELSE b
<1>1. StructuresBound(M, P) = {Marked(b) : b \in B}
  BY DEF StructuresBound, StructuralBindings, MarkStructuralConflicts, StructureBound
<1>2. \A p : IsBinding(StructureBound(M, p)) /\ StructureBound(M, p).policy = p
  BY BindingReads DEF StructureBound
<1>3. ASSUME NEW p \in InStructure(P)
      PROVE  (\E c \in B \ {StructureBound(M, p)} : StructuresClash(StructureBound(M, p), c))
             <=> ~Clear(p)
  BY <1>2 DEF StructureClear
<1>4. ASSUME NEW p \in InStructure(P)
      PROVE  Marked(StructureBound(M, p)) =
                IF ~Clear(p) THEN InConflict(StructureBound(M, p)) ELSE StructureBound(M, p)
  BY <1>3
<1> HIDE DEF Marked, Clear
<1>5. ASSUME NEW p \in InStructure(P)
      PROVE  MarkedAs(Marked(StructureBound(M, p)), StructureBound(M, p), Clear(p))
  BY <1>2, <1>4, MarkReads
<1>6. ASSUME NEW p \in InStructure(P)
      PROVE  Marked(StructureBound(M, p)).policy = p
  BY <1>2, <1>5 DEF MarkedAs
<1>7. ASSUME NEW x \in StructuresBound(M, P)
      PROVE  /\ x.policy \in InStructure(P)
             /\ MarkedAs(x, StructureBound(M, x.policy), Clear(x.policy))
  <2>1. PICK p \in InStructure(P) : x = Marked(StructureBound(M, p))
    BY <1>1
  <2> QED
    BY <1>5, <1>6, <2>1
<1>8. ASSUME NEW p \in InStructure(P) PROVE \E x \in StructuresBound(M, P) : x.policy = p
  BY <1>1, <1>6
<1> QED
  BY <1>7, <1>8 DEF Clear

(* The others, each bound to the sources and flows the structure gives.    *)
TargetBound(M, P, p) ==
    BindingTo(p, ResolveTargetAnchor(M, CHOOSE a \in p.anchors : TRUE,
                                     SourcesGiven(M, P), FlowsGiven(M, P)))
TargetClear(M, P, p) ==
    \A q \in P \ InStructure(P) :
        q = p \/ ~CorrectionsClash(TargetBound(M, P, p), TargetBound(M, P, q))

LEMMA OthersRead ==
    ASSUME NEW M, NEW P
    PROVE  /\ \A x \in OthersBound(M, P) :
                 /\ x.policy \in P \ InStructure(P)
                 /\ MarkedAs(x, TargetBound(M, P, x.policy), TargetClear(M, P, x.policy))
           /\ \A p \in P \ InStructure(P) : \E x \in OthersBound(M, P) : x.policy = p
<1> DEFINE R == P \ InStructure(P)
           Clear(p) == TargetClear(M, P, p)
           B == {TargetBound(M, P, p) : p \in R}
           Marked(b) == IF \E c \in B \ {b} : CorrectionsClash(b, c) THEN InConflict(b) ELSE b
<1>1. OthersBound(M, P) = {Marked(b) : b \in B}
  BY DEF OthersBound, OtherBindings, MarkCorrectionConflicts, TargetBound
<1>2. \A p : IsBinding(TargetBound(M, P, p)) /\ TargetBound(M, P, p).policy = p
  BY BindingReads DEF TargetBound
<1>3. ASSUME NEW p \in R
      PROVE  (\E c \in B \ {TargetBound(M, P, p)} : CorrectionsClash(TargetBound(M, P, p), c))
             <=> ~Clear(p)
  BY <1>2 DEF TargetClear
<1>4. ASSUME NEW p \in R
      PROVE  Marked(TargetBound(M, P, p)) =
                IF ~Clear(p) THEN InConflict(TargetBound(M, P, p)) ELSE TargetBound(M, P, p)
  BY <1>3
<1> HIDE DEF Marked, Clear, R
<1>5. ASSUME NEW p \in R
      PROVE  MarkedAs(Marked(TargetBound(M, P, p)), TargetBound(M, P, p), Clear(p))
  BY <1>2, <1>4, MarkReads
<1>6. ASSUME NEW p \in R PROVE Marked(TargetBound(M, P, p)).policy = p
  BY <1>2, <1>5 DEF MarkedAs
<1>7. ASSUME NEW x \in OthersBound(M, P)
      PROVE  x.policy \in R /\ MarkedAs(x, TargetBound(M, P, x.policy), Clear(x.policy))
  <2>1. PICK p \in R : x = Marked(TargetBound(M, P, p))
    BY <1>1
  <2> QED
    BY <1>5, <1>6, <2>1
<1>8. ASSUME NEW p \in R PROVE \E x \in OthersBound(M, P) : x.policy = p
  BY <1>1, <1>6
<1> QED
  BY <1>7, <1>8 DEF Clear, R

(* The policies whose structure applies.                                   *)
LEMMA AppliedReads ==
    ASSUME NEW M, NEW P
    PROVE  Applied(M, P) = {p \in InStructure(P) : /\ Applies(StructureBound(M, p))
                                                   /\ StructureClear(M, P, p)}
<1>1. ASSUME NEW p \in Applied(M, P)
      PROVE  p \in InStructure(P) /\ Applies(StructureBound(M, p)) /\ StructureClear(M, P, p)
  <2>1. PICK x \in StructuresBound(M, P) : x.policy = p /\ Applies(x)
    BY DEF Applied
  <2> QED
    BY <2>1, StructuresRead DEF MarkedAs
<1>2. ASSUME NEW p \in InStructure(P), Applies(StructureBound(M, p)), StructureClear(M, P, p)
      PROVE  p \in Applied(M, P)
  <2>1. PICK x \in StructuresBound(M, P) : x.policy = p
    BY StructuresRead
  <2>2. x = StructureBound(M, p)
    BY <1>2, <2>1, StructuresRead DEF MarkedAs
  <2> QED
    BY <1>2, <2>1, <2>2 DEF Applied
<1> QED
  BY <1>1, <1>2

(* The binding of a decision is the one of its policy.                     *)
LEMMA BindingOfReads ==
    ASSUME NEW M, NEW P, PoliciesOK(P), NEW p \in P
    PROVE  LET b == BindingOf(ApplyLocalPolicies(M, P), p.decision)
           IN  /\ b \in AllBound(M, P)
               /\ p \in InStructure(P) =>
                    MarkedAs(b, StructureBound(M, p), StructureClear(M, P, p))
               /\ p \notin InStructure(P) =>
                    MarkedAs(b, TargetBound(M, P, p), TargetClear(M, P, p))
<1> DEFINE b == BindingOf(ApplyLocalPolicies(M, P), p.decision)
<1>1. \A x \in AllBound(M, P) : x.policy \in P
  BY StructuresRead, OthersRead DEF AllBound, InStructure
<1>2. \E x \in AllBound(M, P) : x.policy = p
  BY StructuresRead, OthersRead DEF AllBound
<1>3. b = CHOOSE x \in AllBound(M, P) : x.policy.decision = p.decision
  BY ViewReads DEF BindingOf
<1> HIDE DEF b
<1>4. b \in AllBound(M, P) /\ b.policy.decision = p.decision
  BY <1>2, <1>3
<1>5. b.policy = p
  BY <1>1, <1>4 DEF PoliciesOK
<1> QED
  BY <1>4, <1>5, StructuresRead, OthersRead DEF AllBound, b

-----------------------------------------------------------------------------
(* What a merge or a partition binds to. *)

(* A structural policy with the shape it has.                              *)
IsStructure(p) == IsStructural(p.body) /\ StructureOK(p.body, p.anchors)

(* The automatic sources that take part, and all of them are there.        *)
Taken(M, p) == {e \in BaselineSources(M) : e.selector \in p.body.participants}
AllThere(M, p) == p.body.participants \subseteq {e.selector : e \in BaselineSources(M)}

(* An anchor of a participant binds to the automatic source it names.      *)
LEMMA ParticipantBinds ==
    ASSUME NEW M, IsMap(M), NEW p, IsStructure(p), NEW a \in ParticipantAnchors(p)
    PROVE  LET r == ResolveSourceAnchor(M, a, BaselineSources(M))
           IN  /\ r.status \in Statuses
               /\ a.selector \in p.body.participants
               /\ Applies(r) <=> a.selector \in {e.selector : e \in BaselineSources(M)}
               /\ Applies(r) => r.candidate.messages =
                     UNION {e.messages : e \in {x \in BaselineSources(M) : x.selector = a.selector}}
               /\ \A m \in r.candidate.messages : \E e \in BaselineSources(M) :
                     m \in e.messages /\ e.selector \in r.candidate.effective
<1> DEFINE base == BaselineSources(M)
           r == ResolveSourceAnchor(M, a, base)
           exact == {x \in base : x.selector = a.selector}
           near == {x \in base : AnyShareAnchor(a.selector.sources, x.selector.sources)}
<1>1. BindsAmong(r, a, exact, near)
  BY SourceAnchorBinds
<1>2. a.structural = {} /\ a.selector \in p.body.participants
  BY DEF IsStructure, StructureOK, ParticipantAnchors
<1>3. \A e \in base : e.structural = {}
  BY BaseReads
<1>4. UNION {e.structural : e \in exact} = {}
  BY <1>3
<1>5. exact # {} <=> a.selector \in {e.selector : e \in base}
  OBVIOUS
<1>6. exact \subseteq base /\ near \subseteq base
  OBVIOUS
<1> HIDE DEF base, r, exact, near
<1>7. r.status \in Statuses /\ (Applies(r) <=> exact # {})
  BY <1>1, <1>2, <1>4 DEF BindsAmong
<1>8. \E Y : StandsFor(r.candidate, Y) /\ Y \subseteq base
  BY <1>1, <1>6 DEF BindsAmong
<1>9. Applies(r) => r.candidate.messages = UNION {e.messages : e \in exact}
  BY <1>1, <1>7 DEF BindsAmong, StandsFor
<1>10. \A m \in r.candidate.messages : \E e \in base :
          m \in e.messages /\ e.selector \in r.candidate.effective
  BY <1>8 DEF StandsFor
<1> QED
  BY <1>2, <1>5, <1>7, <1>9, <1>10 DEF base, r, exact

(* What it is about are messages of automatic sources it is in effect on.  *)
OfBase(M, candidate) ==
    \A m \in candidate.messages : \E e \in BaselineSources(M) :
        m \in e.messages /\ e.selector \in candidate.effective

LEMMA MergeBinds ==
    ASSUME NEW M, IsMap(M), NEW p, IsStructure(p)
    PROVE  LET r == MergeBinding(M, p, BaselineSources(M))
           IN  /\ Applies(r) <=> AllThere(M, p)
               /\ Applies(r) => r.candidate.messages = UNION {e.messages : e \in Taken(M, p)}
               /\ OfBase(M, r.candidate)
<1> DEFINE base == BaselineSources(M)
           R(a) == ResolveSourceAnchor(M, a, base)
           anchors == ParticipantAnchors(p)
           resolved == {R(a) : a \in anchors}
           T == {r.status : r \in resolved}
           C == {r.candidate : r \in resolved}
           r == MergeBinding(M, p, base)
<1>1. r = Bound(CombinedStatus(T), MergeCandidates(C))
  BY DEF MergeBinding
<1>2. r.status = CombinedStatus(T) /\ r.candidate = MergeCandidates(C)
  BY <1>1, BoundReads
<1>3. \A a \in anchors : R(a).status \in Statuses
  BY ParticipantBinds
<1>4. T \subseteq Statuses
  BY <1>3
<1>5. {a.selector : a \in anchors} = p.body.participants
  BY DEF IsStructure, StructureOK, ParticipantAnchors
<1> HIDE DEF r
<1>6. Applies(r) <=> \A a \in anchors : Applies(R(a))
  <2>1. Applies(r) <=> T \subseteq {"exact", "rebound"}
    BY <1>2, <1>4, CombinedReads DEF Applies
  <2>2. T \subseteq {"exact", "rebound"} <=> \A a \in anchors : Applies(R(a))
    BY DEF Applies
  <2> QED
    BY <2>1, <2>2
<1>7. \A a \in anchors : Applies(R(a)) <=> a.selector \in {e.selector : e \in base}
  BY ParticipantBinds
<1>8. Applies(r) <=> AllThere(M, p)
  BY <1>5, <1>6, <1>7 DEF AllThere
<1>9. /\ r.candidate.messages = UNION {c.messages : c \in C}
      /\ r.candidate.effective = UNION {c.effective : c \in C}
  BY <1>2 DEF MergeCandidates
<1>10. ASSUME Applies(r)
       PROVE  r.candidate.messages = UNION {e.messages : e \in Taken(M, p)}
  <2>1. \A a \in anchors : R(a).candidate.messages =
           UNION {e.messages : e \in {x \in base : x.selector = a.selector}}
    BY <1>6, <1>10, ParticipantBinds
  <2>2. r.candidate.messages = UNION {R(a).candidate.messages : a \in anchors}
    BY <1>9
  <2> HIDE DEF R
  <2>3. r.candidate.messages = UNION {UNION {e.messages : e \in {x \in base : x.selector = a.selector}} : a \in anchors}
    BY <2>1, <2>2
  <2>4. ASSUME NEW m
        PROVE  m \in UNION {e.messages : e \in Taken(M, p)} <=>
               m \in UNION {UNION {e.messages : e \in {x \in base : x.selector = a.selector}} : a \in anchors}
    BY <1>5 DEF Taken
  <2> QED
    BY <2>3, <2>4
<1>11. OfBase(M, r.candidate)
  <2>1. SUFFICES ASSUME NEW m \in r.candidate.messages
                 PROVE  \E e \in base : m \in e.messages /\ e.selector \in r.candidate.effective
    BY DEF OfBase
  <2>2. PICK a \in anchors : m \in R(a).candidate.messages
    BY <1>9
  <2>3. PICK e \in base : m \in e.messages /\ e.selector \in R(a).candidate.effective
    BY <2>2, ParticipantBinds
  <2>4. R(a).candidate \in C
    OBVIOUS
  <2> QED
    BY <1>9, <2>3, <2>4
<1> QED
  BY <1>8, <1>10, <1>11 DEF r

(* Every group of anchors has messages of the source, which are all of its. *)
GroupsFit(M, p, messages) ==
    /\ GroupsResolve(M, p.body.groups, messages)
    /\ \A a \in UNION p.body.groups : AnchorMessages(M, a, messages) # {}

LEMMA PartitionBinds ==
    ASSUME NEW M, IsMap(M), NEW p, IsStructure(p), p.body.kind = "partition"
    PROVE  LET r == PartitionBinding(M, p, BaselineSources(M))
           IN  /\ Applies(r) => /\ AllThere(M, p)
                                /\ r.candidate.messages = UNION {e.messages : e \in Taken(M, p)}
                                /\ \A e \in Taken(M, p) :
                                      GroupsResolve(M, p.body.groups, e.messages)
               /\ AllThere(M, p) /\ (\A e \in Taken(M, p) : GroupsFit(M, p, e.messages))
                     => Applies(r)
               /\ OfBase(M, r.candidate)
<1> DEFINE base == BaselineSources(M)
           anchors == ParticipantAnchors(p)
           anchor == CHOOSE a \in anchors : TRUE
           target == ResolveSourceAnchor(M, anchor, base)
           messages == target.candidate.messages
           members == p.anchors \ anchors
           T == {target.status} \union {MemberStatus(M, a, messages) : a \in members}
           r == PartitionBinding(M, p, base)
<1>1. r = IF ~Applies(target) THEN target
          ELSE IF ~GroupsResolve(M, p.body.groups, messages)
          THEN Bound("needs_review", target.candidate)
          ELSE Bound(CombinedStatus(T), target.candidate)
  BY DEF PartitionBinding
<1>2. PICK t : p.body.participants = {t} /\ {a.selector : a \in anchors} = {t}
  BY DEF IsStructure, StructureOK, GroupsOK, ParticipantAnchors
<1>3. anchor \in anchors /\ anchor.selector = t
  BY <1>2
<1> HIDE DEF anchor, r
<1>4. /\ target.status \in Statuses
      /\ Applies(target) <=> AllThere(M, p)
      /\ Applies(target) => messages = UNION {e.messages : e \in Taken(M, p)}
      /\ OfBase(M, target.candidate)
  BY <1>2, <1>3, ParticipantBinds DEF AllThere, Taken, OfBase
<1>5. \A a \in members : /\ MemberStatus(M, a, messages) \in Statuses
                         /\ AnchorMessages(M, a.selector, messages) # {} =>
                               MemberStatus(M, a, messages) \in {"exact", "rebound"}
  BY DEF MemberStatus, Statuses
<1>6. \A a \in members : a.selector \in UNION p.body.groups
  BY DEF IsStructure, StructureOK, GroupsOK, ParticipantAnchors
<1>7. T \subseteq Statuses
  BY <1>4, <1>5
<1>8. Applies(target) => \A e \in Taken(M, p) : e.messages = messages
  <2> SUFFICES ASSUME Applies(target), NEW e \in Taken(M, p) PROVE e.messages = messages
    OBVIOUS
  <2>1. Taken(M, p) = {e}
    BY <1>2, BaseIsOne DEF Taken
  <2>2. messages = UNION {f.messages : f \in {e}}
    BY <1>4, <2>1
  <2> QED
    BY <2>2
<1>9. AllThere(M, p) => Taken(M, p) # {}
  BY <1>2 DEF AllThere, Taken
<1> HIDE DEF target, T, members
<1>10. r.candidate = target.candidate
  BY <1>1, BoundReads
<1>11. Applies(r) => Applies(target) /\ GroupsResolve(M, p.body.groups, messages)
  BY <1>1, BoundReads DEF Applies
<1>12. ASSUME AllThere(M, p), \A e \in Taken(M, p) : GroupsFit(M, p, e.messages)
       PROVE  Applies(r)
  <2>1. Applies(target) /\ GroupsFit(M, p, messages)
    BY <1>4, <1>8, <1>9, <1>12
  <2>2. T \subseteq {"exact", "rebound"}
    BY <1>5, <1>6, <2>1 DEF T, GroupsFit, Applies
  <2>3. r.status = CombinedStatus(T)
    BY <1>1, <2>1, BoundReads DEF GroupsFit
  <2> QED
    BY <1>7, <2>2, <2>3, CombinedReads DEF Applies
<1> QED
  BY <1>4, <1>8, <1>10, <1>11, <1>12 DEF r

(* Both at once.                                                           *)
LEMMA StructureBinds ==
    ASSUME NEW M, IsMap(M), NEW p, IsStructure(p)
    PROVE  LET b == StructureBound(M, p)
           IN  /\ IsBinding(b) /\ b.policy = p
               /\ Applies(b) =>
                     /\ AllThere(M, p)
                     /\ b.candidate.messages = UNION {e.messages : e \in Taken(M, p)}
                     /\ p.body.kind = "partition" =>
                           \A e \in Taken(M, p) : GroupsResolve(M, p.body.groups, e.messages)
               /\ AllThere(M, p) =>
                     \/ p.body.kind = "partition"
                        /\ \E e \in Taken(M, p) : ~GroupsFit(M, p, e.messages)
                     \/ Applies(b)
               /\ OfBase(M, b.candidate)
<1>1. p.body.kind \in {"merge", "partition"}
  BY DEF IsStructure, IsStructural
<1>2. /\ StructureBound(M, p) = BindingTo(p, StructuralBinding(M, p, BaselineSources(M)))
      /\ p.body.kind = "merge" =>
            StructuralBinding(M, p, BaselineSources(M)) = MergeBinding(M, p, BaselineSources(M))
      /\ p.body.kind = "partition" =>
            StructuralBinding(M, p, BaselineSources(M)) = PartitionBinding(M, p, BaselineSources(M))
  BY DEF StructureBound, StructuralBinding
<1>3. CASE p.body.kind = "merge"
  BY <1>2, <1>3, BindingReads, MergeBinds
<1>4. CASE p.body.kind = "partition"
  BY <1>2, <1>4, BindingReads, PartitionBinds
<1> QED
  BY <1>1, <1>3, <1>4

-----------------------------------------------------------------------------
(* The structural policies that apply find their sources, and take no      *)
(* source twice.                                                           *)
Fits(M, p) ==
    /\ IsStructure(p) /\ AllThere(M, p)
    /\ p.body.kind = "partition" =>
          \A e \in Taken(M, p) : GroupsResolve(M, p.body.groups, e.messages)
AppliedOK(M, A) ==
    /\ \A p \in A : Fits(M, p)
    /\ \A p, q \in A : p = q \/ p.body.participants \intersect q.body.participants = {}

(* Two that take the same source share its anchors.                        *)
LEMMA TakenTwiceClashes ==
    ASSUME NEW p, NEW q, IsStructure(p), IsStructure(q),
           NEW t \in p.body.participants \intersect q.body.participants
    PROVE  StructuresShareAnchor(p.body, q.body)
<1>1. PICK S \in t.sources : S # {}
  BY DEF IsStructure, StructureOK, IsAutomatic
<1>2. S \in StructuralDescriptors(p.body) /\ S \in StructuralDescriptors(q.body)
  BY <1>1 DEF IsStructure, StructuralDescriptors
<1> QED
  BY <1>1, <1>2 DEF StructuresShareAnchor, AnyShareAnchor, DescriptorsShareAnchor

LEMMA StructuresAreOK ==
    ASSUME NEW P, PoliciesOK(P)
    PROVE  \A p \in InStructure(P) : IsStructure(p)
BY DEF PoliciesOK, DecisionOK, InStructure, IsStructure

LEMMA AppliedFit ==
    ASSUME NEW M, IsMap(M), NEW P, PoliciesOK(P)
    PROVE  AppliedOK(M, Applied(M, P)) /\ Applied(M, P) \subseteq InStructure(P)
<1> DEFINE A == Applied(M, P)
<1>1. \A p \in A : /\ p \in InStructure(P) /\ IsStructure(p)
                   /\ Applies(StructureBound(M, p)) /\ StructureClear(M, P, p)
  BY AppliedReads, StructuresAreOK
<1> HIDE DEF A
<1>2. \A p \in A : Fits(M, p)
  BY <1>1, StructureBinds DEF Fits
<1>3. ASSUME NEW p \in A, NEW q \in A, p # q
      PROVE  p.body.participants \intersect q.body.participants = {}
  <2>1. ~StructuresClash(StructureBound(M, p), StructureBound(M, q))
    BY <1>1, <1>3 DEF StructureClear
  <2>2. StructureBound(M, p).policy = p /\ StructureBound(M, q).policy = q
    BY <1>1, StructureBinds
  <2>3. ~StructuresShareAnchor(p.body, q.body)
    BY <2>1, <2>2 DEF StructuresClash
  <2> QED
    BY <1>1, <2>3, TakenTwiceClashes
<1> QED
  BY <1>1, <1>2, <1>3 DEF AppliedOK, A

(* So that applying them finds what it needs.                              *)
LEMMA StructureIsValid ==
    ASSUME NEW M, NEW A, AppliedOK(M, A)
    PROVE  StructureApplies(M, A, BaselineSources(M))
<1>1. Consumed(A) \subseteq {e.selector : e \in BaselineSources(M)}
  BY DEF AppliedOK, Fits, AllThere, Consumed
<1> QED
  BY <1>1 DEF AppliedOK, Fits, Taken, StructureApplies

-----------------------------------------------------------------------------
(* The effective sources. *)
GivenBy(M, A) == ApplyStructure(M, A, BaselineSources(M))
GroupOf(M, p, t, g) ==
    [selector |-> PartitionGroup(t.selector, g), structural |-> {p.decision},
     messages |-> UNION {AnchorMessages(M, a, t.messages) : a \in g}]

IsKept(M, A, x) == x \in BaselineSources(M) /\ x.selector \notin Consumed(A)
IsMerged(M, x, p) == p.body.kind = "merge" /\ x = MergedSource(M, p, BaselineSources(M))
IsGroup(M, x, p, t, g) ==
    /\ p.body.kind = "partition" /\ t \in Taken(M, p)
    /\ g \in p.body.groups /\ x = GroupOf(M, p, t, g)

LEMMA GivenReads ==
    ASSUME NEW M, NEW A, NEW x
    PROVE  x \in GivenBy(M, A) <=>
              \/ IsKept(M, A, x)
              \/ \E p \in A : IsMerged(M, x, p)
              \/ \E p \in A : \E t, g : IsGroup(M, x, p, t, g)
<1> DEFINE base == BaselineSources(M)
           merges == {MergedSource(M, p, base) : p \in {q \in A : q.body.kind = "merge"}}
           groups == UNION {GroupSources(M, p, base) : p \in {q \in A : q.body.kind = "partition"}}
<1>1. GivenBy(M, A) = {e \in base : e.selector \notin Consumed(A)} \union merges \union groups
  BY DEF GivenBy, ApplyStructure
<1>2. x \in merges <=> \E p \in A : IsMerged(M, x, p)
  BY DEF IsMerged
<1>3. \A p : x \in GroupSources(M, p, base) <=>
         \E t \in Taken(M, p), g \in p.body.groups : x = GroupOf(M, p, t, g)
  BY DEF GroupSources, GroupOf, Taken
<1>4. x \in groups <=> \E p \in A : \E t, g : IsGroup(M, x, p, t, g)
  BY <1>3 DEF IsGroup
<1>5. x \in {e \in base : e.selector \notin Consumed(A)} <=> IsKept(M, A, x)
  BY DEF IsKept
<1> QED
  BY <1>1, <1>2, <1>4, <1>5

LEMMA MergedReads ==
    ASSUME NEW M, NEW x, NEW p, IsMerged(M, x, p)
    PROVE  /\ x.selector.kind = "merged" /\ x.selector = Merged(p.body.participants)
           /\ x.selector.sources = UNION {t.sources : t \in p.body.participants}
           /\ x.structural = {p.decision}
           /\ x.messages = UNION {e.messages : e \in Taken(M, p)}
BY DEF IsMerged, MergedSource, Merged, Taken

LEMMA GroupReads ==
    ASSUME NEW M, NEW x, NEW p, NEW t, NEW g, IsGroup(M, x, p, t, g)
    PROVE  /\ x.selector.kind = "partition_group" /\ x.selector.sources = t.selector.sources
           /\ x.selector.part = g /\ x.structural = {p.decision}
           /\ x.messages = UNION {AnchorMessages(M, a, t.messages) : a \in g}
BY DEF IsGroup, GroupOf, PartitionGroup

(* A structural policy takes its sources from the base, one per selector.  *)
LEMMA TakenReads ==
    ASSUME NEW M, IsMap(M), NEW p, Fits(M, p)
    PROVE  /\ Taken(M, p) # {}
           /\ \A t \in p.body.participants : \E e \in Taken(M, p) : e.selector = t
           /\ \A e \in Taken(M, p) : e \in BaselineSources(M) /\ e.selector \in p.body.participants
BY DEF Fits, AllThere, Taken, IsStructure, StructureOK

(* The one anchor a message of a partitioned source falls under.           *)
LEMMA AnchorIsOne ==
    ASSUME NEW M, NEW p, IsStructure(p), p.body.kind = "partition", NEW messages,
           GroupsResolve(M, p.body.groups, messages), NEW m \in messages
    PROVE  \E a \in UNION p.body.groups :
              /\ m \in AnchorMessages(M, a, messages)
              /\ \A b \in UNION p.body.groups : m \in AnchorMessages(M, b, messages) => b = a
<1> DEFINE anchors == {a \in UNION p.body.groups : m \in AnchorMessages(M, a, messages)}
<1>1. IsFiniteSet(UNION p.body.groups)
  BY DEF IsStructure, StructureOK, GroupsOK
<1>2. IsFiniteSet(anchors)
  BY <1>1, FS_Subset
<1>3. Cardinality(anchors) = 1
  BY DEF GroupsResolve
<1>4. \E a : anchors = {a}
  <2> HIDE DEF anchors
  <2> QED
    BY <1>2, <1>3, FS_Singleton
<1> QED
  BY <1>4

LEMMA GroupIsOne ==
    ASSUME NEW p, IsStructure(p), p.body.kind = "partition",
           NEW g \in p.body.groups, NEW h \in p.body.groups, NEW a, a \in g, a \in h
    PROVE  g = h
BY DEF IsStructure, StructureOK, GroupsOK

(* The automatic source a message of an effective source comes from, and   *)
(* how that became, or became part of, the effective source.               *)
ComesFrom(M, A, x, e) ==
    \/ x = e /\ IsKept(M, A, x)
    \/ \E p \in A : e \in Taken(M, p) /\ IsMerged(M, x, p)
    \/ \E p \in A : \E g : IsGroup(M, x, p, e, g)

LEMMA GivenComesFrom ==
    ASSUME NEW M, NEW A, NEW x \in GivenBy(M, A), NEW m \in x.messages
    PROVE  \E e \in BaselineSources(M) : m \in e.messages /\ ComesFrom(M, A, x, e)
<1>1. CASE IsKept(M, A, x)
  BY <1>1 DEF IsKept, ComesFrom
<1>2. ASSUME NEW p \in A, IsMerged(M, x, p)
      PROVE  \E e \in BaselineSources(M) : m \in e.messages /\ ComesFrom(M, A, x, e)
  <2>1. PICK e \in Taken(M, p) : m \in e.messages
    BY <1>2, MergedReads
  <2> QED
    BY <1>2, <2>1 DEF Taken, ComesFrom
<1>3. ASSUME NEW p \in A, NEW t, NEW g, IsGroup(M, x, p, t, g)
      PROVE  \E e \in BaselineSources(M) : m \in e.messages /\ ComesFrom(M, A, x, e)
  <2>1. PICK a \in g : m \in AnchorMessages(M, a, t.messages)
    BY <1>3, GroupReads
  <2>2. t \in BaselineSources(M) /\ m \in t.messages
    BY <1>3, <2>1 DEF IsGroup, Taken, AnchorMessages
  <2> QED
    BY <1>3, <2>2 DEF ComesFrom
<1> QED
  BY <1>1, <1>2, <1>3, GivenReads

(* No two effective sources share a message.                               *)
LEMMA GivenApart ==
    ASSUME NEW M, IsMap(M), NEW A, AppliedOK(M, A),
           NEW x \in GivenBy(M, A), NEW y \in GivenBy(M, A),
           NEW m, m \in x.messages, m \in y.messages
    PROVE  x = y
<1>1. PICK e \in BaselineSources(M) : m \in e.messages /\ ComesFrom(M, A, x, e)
  BY GivenComesFrom
<1>2. PICK f \in BaselineSources(M) : m \in f.messages /\ ComesFrom(M, A, y, f)
  BY GivenComesFrom
<1>3. e = f
  BY <1>1, <1>2, BaseIsOne
<1>4. \A p \in A : e \in Taken(M, p) => e.selector \in Consumed(A)
  BY DEF Taken, Consumed
<1>5. \A p, q \in A : e \in Taken(M, p) /\ e \in Taken(M, q) => p = q
  BY DEF Taken, AppliedOK
<1>6. \A p : \A g, z : IsGroup(M, z, p, e, g) => e \in Taken(M, p) /\ p.body.kind = "partition"
  BY DEF IsGroup
<1>7. \A p : \A z : IsMerged(M, z, p) => p.body.kind = "merge"
  BY DEF IsMerged
<1>8. CASE e.selector \notin Consumed(A)
  BY <1>1, <1>2, <1>3, <1>4, <1>6, <1>8 DEF ComesFrom
<1>9. ASSUME NEW p \in A, e \in Taken(M, p) PROVE x = y
  <2>1. ~IsKept(M, A, e)
    BY <1>4, <1>9 DEF IsKept
  <2>2. CASE p.body.kind = "merge"
    <3>1. IsMerged(M, x, p) /\ IsMerged(M, y, p)
      BY <1>1, <1>2, <1>3, <1>5, <1>6, <1>9, <2>1, <2>2 DEF ComesFrom
    <3> QED
      BY <3>1 DEF IsMerged
  <2>3. CASE p.body.kind = "partition"
    <3>1. PICK g : IsGroup(M, x, p, e, g)
      BY <1>1, <1>5, <1>6, <1>7, <1>9, <2>1, <2>3 DEF ComesFrom
    <3>2. PICK h : IsGroup(M, y, p, e, h)
      BY <1>2, <1>3, <1>5, <1>6, <1>7, <1>9, <2>1, <2>3 DEF ComesFrom
    <3>3. PICK a \in g : m \in AnchorMessages(M, a, e.messages)
      BY <3>1, GroupReads
    <3>4. PICK b \in h : m \in AnchorMessages(M, b, e.messages)
      BY <3>2, GroupReads
    <3>5. g \in p.body.groups /\ h \in p.body.groups
      BY <3>1, <3>2 DEF IsGroup
    <3>6. IsStructure(p) /\ GroupsResolve(M, p.body.groups, e.messages)
      BY <1>9, <2>3 DEF AppliedOK, Fits
    <3>7. a = b
      BY <1>1, <2>3, <3>3, <3>4, <3>5, <3>6, AnchorIsOne
    <3>8. g = h
      BY <2>3, <3>3, <3>4, <3>5, <3>6, <3>7, GroupIsOne
    <3> QED
      BY <3>1, <3>2, <3>8 DEF IsGroup
  <2> QED
    BY <2>2, <2>3, <1>9 DEF AppliedOK, Fits, IsStructure, IsStructural
<1>10. e.selector \in Consumed(A) => \E p \in A : e \in Taken(M, p)
  BY DEF Consumed, Taken
<1> QED
  BY <1>8, <1>9, <1>10

(* Every message is in an effective source.                                *)
LEMMA GivenWhole ==
    ASSUME NEW M, IsMap(M), NEW A, AppliedOK(M, A), NEW m \in M.rows
    PROVE  \E x \in GivenBy(M, A) : m \in x.messages
<1>1. PICK e \in BaselineSources(M) : m \in e.messages
  BY BaseIsOne
<1>2. CASE e.selector \notin Consumed(A)
  BY <1>1, <1>2, GivenReads DEF IsKept
<1>3. ASSUME NEW p \in A, e \in Taken(M, p)
      PROVE  \E x \in GivenBy(M, A) : m \in x.messages
  <2>1. CASE p.body.kind = "merge"
    <3> DEFINE x == MergedSource(M, p, BaselineSources(M))
    <3>1. IsMerged(M, x, p)
      BY <2>1 DEF IsMerged
    <3>2. m \in x.messages
      BY <1>1, <1>3, <3>1, MergedReads
    <3> QED
      BY <3>1, <3>2, GivenReads
  <2>2. CASE p.body.kind = "partition"
    <3>1. IsStructure(p) /\ GroupsResolve(M, p.body.groups, e.messages)
      BY <1>3, <2>2 DEF AppliedOK, Fits
    <3>2. PICK a \in UNION p.body.groups : m \in AnchorMessages(M, a, e.messages)
      BY <1>1, <2>2, <3>1, AnchorIsOne
    <3>3. PICK g \in p.body.groups : a \in g
      BY <3>2
    <3> DEFINE x == GroupOf(M, p, e, g)
    <3>4. IsGroup(M, x, p, e, g)
      BY <1>3, <2>2 DEF IsGroup
    <3>5. m \in x.messages
      BY <3>2, <3>3, <3>4, GroupReads
    <3> QED
      BY <3>4, <3>5, GivenReads
  <2> QED
    BY <1>3, <2>1, <2>2 DEF AppliedOK, Fits, IsStructure, IsStructural
<1>4. e.selector \in Consumed(A) => \E p \in A : e \in Taken(M, p)
  BY DEF Consumed, Taken
<1> QED
  BY <1>2, <1>3, <1>4

(* No effective source is empty.                                           *)
LEMMA GivenNotEmpty ==
    ASSUME NEW M, IsMap(M), NEW A, AppliedOK(M, A), NEW x \in GivenBy(M, A)
    PROVE  x.messages # {}
<1>1. CASE IsKept(M, A, x)
  BY <1>1, BaseReads DEF IsKept
<1>2. ASSUME NEW p \in A, IsMerged(M, x, p) PROVE x.messages # {}
  <2>1. PICK e \in Taken(M, p) : e \in BaselineSources(M)
    BY TakenReads DEF AppliedOK
  <2>2. e.messages # {}
    BY <2>1, BaseReads
  <2> QED
    BY <1>2, <2>1, <2>2, MergedReads
<1>3. ASSUME NEW p \in A, NEW t, NEW g, IsGroup(M, x, p, t, g) PROVE x.messages # {}
  <2>1. GroupsResolve(M, p.body.groups, t.messages) /\ g \in p.body.groups
    BY <1>3 DEF AppliedOK, Fits, IsGroup
  <2>2. PICK a \in g : AnchorMessages(M, a, t.messages) # {}
    BY <2>1 DEF GroupsResolve
  <2> QED
    BY <1>3, <2>2, GroupReads
<1> QED
  BY <1>1, <1>2, <1>3, GivenReads

(* A source that takes part is automatic, and nothing else in its selector. *)
LEMMA AutomaticIsNamed ==
    ASSUME NEW sel, IsAutomatic(sel)
    PROVE  \E S : S # {} /\ sel = Automatic(S) /\ sel.sources = {S} /\ sel.kind = "automatic"
BY AutomaticReads DEF IsAutomatic

(* No two effective sources have the same selector.                        *)
LEMMA GivenNamed ==
    ASSUME NEW M, IsMap(M), NEW A, AppliedOK(M, A),
           NEW x \in GivenBy(M, A), NEW y \in GivenBy(M, A), x.selector = y.selector
    PROVE  x = y
<1>1. \A z : IsKept(M, A, z) => z.selector.kind = "automatic"
  BY BaseReads, AutomaticReads DEF IsKept
<1>2. CASE x.selector.kind = "automatic"
  <2>1. IsKept(M, A, x) /\ IsKept(M, A, y)
    BY <1>2, GivenReads, MergedReads, GroupReads
  <2> QED
    BY <2>1, BaseIsOne DEF IsKept
<1>3. CASE x.selector.kind = "merged"
  <2>1. PICK p \in A : IsMerged(M, x, p)
    BY <1>1, <1>3, GivenReads, GroupReads
  <2>2. PICK q \in A : IsMerged(M, y, q)
    BY <1>1, <1>3, GivenReads, GroupReads
  <2>3. PICK t : t \in p.body.participants
    BY DEF AppliedOK, Fits, IsStructure, StructureOK
  <2>4. \A u \in p.body.participants \union q.body.participants : IsAutomatic(u)
    BY DEF AppliedOK, Fits, IsStructure, StructureOK
  <2>5. PICK S : t = Automatic(S) /\ t.sources = {S}
    BY <2>3, <2>4, AutomaticIsNamed
  <2>6. S \in x.selector.sources
    BY <2>1, <2>3, <2>5, MergedReads
  <2>7. PICK u \in q.body.participants : S \in u.sources
    BY <2>2, <2>6, MergedReads
  <2>8. u = Automatic(S)
    BY <2>4, <2>7, AutomaticIsNamed
  <2>9. p = q
    BY <2>3, <2>5, <2>7, <2>8 DEF AppliedOK
  <2> QED
    BY <2>1, <2>2, <2>9 DEF IsMerged
<1>4. CASE x.selector.kind = "partition_group"
  <2>a. PICK p \in A : \E t, g : IsGroup(M, x, p, t, g)
    BY <1>1, <1>4, GivenReads, MergedReads
  <2>b. PICK q \in A : \E u, h : IsGroup(M, y, q, u, h)
    BY <1>1, <1>4, GivenReads, MergedReads
  <2>1. PICK t, g : IsGroup(M, x, p, t, g)
    BY <2>a
  <2>2. PICK u, h : IsGroup(M, y, q, u, h)
    BY <2>b
  <2>3. t.selector.sources = u.selector.sources /\ g = h
    BY <2>1, <2>2, GroupReads
  <2>4. PICK S : t.selector = Automatic(S) /\ t.selector.sources = {S}
    BY <2>1, BaseReads, AutomaticReads DEF IsGroup, Taken
  <2>5. PICK T : u.selector = Automatic(T) /\ u.selector.sources = {T}
    BY <2>2, BaseReads, AutomaticReads DEF IsGroup, Taken
  <2>6. t = u
    BY <2>1, <2>2, <2>3, <2>4, <2>5, BaseIsOne DEF IsGroup, Taken
  <2>7. p = q
    BY <2>1, <2>2, <2>6 DEF IsGroup, Taken, AppliedOK
  <2> QED
    BY <2>1, <2>2, <2>3, <2>6, <2>7 DEF IsGroup
<1>5. x.selector.kind \in {"automatic", "merged", "partition_group"}
  BY <1>1, GivenReads, MergedReads, GroupReads
<1> QED
  BY <1>2, <1>3, <1>4, <1>5

(* The messages a selector of a source is about, by their senders.         *)
SourceCovers(M, sel, m) ==
    /\ sel.kind \in {"automatic", "merged"} => M.sender[m] \in UNION sel.sources
    /\ sel.kind = "partition_group" => \E a \in sel.part : a.kind = "sender" /\ M.sender[m] = a.of

(* What an effective source is.                                            *)
SourceShape(M, A, x) ==
    /\ IsSourceSelector(x.selector)
    /\ x.messages \subseteq M.rows
    /\ \A m \in x.messages : M.sender[m] \in UNION x.selector.sources
    /\ x.structural \subseteq {p.decision : p \in A}
    /\ x.selector.kind = "automatic" => x \in BaselineSources(M)
    /\ PartsAreOwn(x.selector)
    /\ \A m \in M.rows : SourceCovers(M, x.selector, m) => m \in x.messages

LEMMA GivenShape ==
    ASSUME NEW M, IsMap(M), NEW A, AppliedOK(M, A), NEW x \in GivenBy(M, A)
    PROVE  SourceShape(M, A, x)
<1>1. \A e \in BaselineSources(M) :
         /\ e.selector.kind = "automatic" /\ IsSourceSelector(e.selector)
         /\ e.structural = {} /\ e.messages \subseteq M.rows
         /\ \A m \in M.rows : m \in e.messages <=> M.sender[m] \in UNION e.selector.sources
  <2> SUFFICES ASSUME NEW e \in BaselineSources(M)
               PROVE  /\ e.selector.kind = "automatic" /\ IsSourceSelector(e.selector)
                      /\ e.structural = {} /\ e.messages \subseteq M.rows
                      /\ \A m \in M.rows : m \in e.messages <=> M.sender[m] \in UNION e.selector.sources
    OBVIOUS
  <2>1. PICK S : /\ e.selector = Automatic(S) /\ e.structural = {}
                 /\ e.messages = {m \in M.rows : M.sender[m] \in S}
    BY BaseReads
  <2>2. e.selector.sources = {S} /\ e.selector.kind = "automatic" /\ IsSourceSelector(e.selector)
    BY <2>1, AutomaticReads
  <2>3. UNION e.selector.sources = S
    BY <2>2
  <2> QED
    BY <2>1, <2>2, <2>3
<1>2. CASE IsKept(M, A, x)
  BY <1>1, <1>2 DEF IsKept, SourceShape, SourceCovers, PartsAreOwn
<1>3. ASSUME NEW p \in A, IsMerged(M, x, p) PROVE SourceShape(M, A, x)
  <2>1. Fits(M, p)
    BY DEF AppliedOK
  <2>2. ASSUME NEW e \in Taken(M, p)
        PROVE  /\ e \in BaselineSources(M)
               /\ UNION e.selector.sources \subseteq UNION x.selector.sources
    BY <1>3, MergedReads DEF Taken
  <2>3. ASSUME NEW m \in x.messages PROVE m \in M.rows /\ M.sender[m] \in UNION x.selector.sources
    <3>1. PICK e \in Taken(M, p) : m \in e.messages
      BY <1>3, MergedReads
    <3>2. m \in M.rows /\ M.sender[m] \in UNION e.selector.sources
      BY <1>1, <2>2, <3>1
    <3> QED
      BY <2>2, <3>1, <3>2
  <2>4. ASSUME NEW m \in M.rows, M.sender[m] \in UNION x.selector.sources PROVE m \in x.messages
    <3>1. PICK t \in p.body.participants : M.sender[m] \in UNION t.sources
      BY <1>3, <2>4, MergedReads
    <3>2. PICK e \in Taken(M, p) : e.selector = t
      BY <2>1, TakenReads
    <3>3. m \in e.messages
      BY <1>1, <2>2, <3>1, <3>2
    <3> QED
      BY <1>3, <3>3, MergedReads
  <2> QED
    BY <1>3, <2>3, <2>4, MergedReads DEF SourceShape, SourceCovers, PartsAreOwn, IsSourceSelector
<1>4. ASSUME NEW p \in A, NEW t, NEW g, IsGroup(M, x, p, t, g) PROVE SourceShape(M, A, x)
  <2>1. t \in BaselineSources(M) /\ t.selector \in p.body.participants /\ g \in p.body.groups
    BY <1>4 DEF IsGroup, Taken
  <2>2. x.messages \subseteq t.messages
    BY <1>4, GroupReads DEF AnchorMessages
  <2>3. UNION x.selector.sources = UNION t.selector.sources
    <3>1. x.selector.sources = t.selector.sources
      BY <1>4, GroupReads
    <3> QED
      BY <3>1
  <2>4. \A m \in x.messages : m \in M.rows /\ M.sender[m] \in UNION x.selector.sources
    <3> SUFFICES ASSUME NEW m \in x.messages
                 PROVE  m \in M.rows /\ M.sender[m] \in UNION x.selector.sources
      OBVIOUS
    <3>1. m \in t.messages
      BY <2>2
    <3>2. m \in M.rows /\ M.sender[m] \in UNION t.selector.sources
      BY <1>1, <2>1, <3>1
    <3> QED
      BY <2>3, <3>2
  <2> DEFINE own == UNION x.selector.sources
  <2>5. ASSUME NEW a \in g, a.kind = "sender" PROVE a.of \in own
    <3>1. p.body.kind = "partition" /\ a \in UNION p.body.groups
      BY <1>4, <2>1 DEF IsGroup
    <3>2. GroupsOK(p.body, p.anchors)
      BY <3>1 DEF AppliedOK, Fits, IsStructure, StructureOK
    <3>3. a.of \in UNION t.selector.sources
      BY <2>1, <2>5, <3>1, <3>2 DEF GroupsOK
    <3> QED
      BY <2>3, <3>3
  <2>6. ASSUME NEW m \in M.rows, NEW a \in g, a.kind = "sender", M.sender[m] = a.of
        PROVE  m \in x.messages
    <3>1. m \in t.messages
      BY <1>1, <2>1, <2>3, <2>6, <2>5
    <3>2. m \in AnchorMessages(M, a, t.messages)
      BY <2>6, <3>1 DEF AnchorMessages
    <3> QED
      BY <1>4, <3>2, GroupReads
  <2> QED
    BY <1>4, <2>4, <2>6, <2>5, GroupReads DEF SourceShape, SourceCovers, PartsAreOwn, IsSourceSelector
<1> QED
  BY <1>2, <1>3, <1>4, GivenReads

-----------------------------------------------------------------------------
(* The effective sources, and the effective flows, part the messages among *)
(* them, and each has its own selector.                                    *)
Parted(M, X) ==
    /\ \A x \in X : x.messages # {} /\ x.messages \subseteq M.rows
    /\ \A x, y \in X : \A m : m \in x.messages /\ m \in y.messages => x = y
    /\ \A x, y \in X : x.selector = y.selector => x = y
    /\ \A m \in M.rows : \E x \in X : m \in x.messages

LEMMA SourcesParted ==
    ASSUME NEW M, IsMap(M), NEW P, PoliciesOK(P)
    PROVE  /\ Parted(M, SourcesGiven(M, P))
           /\ \A x \in SourcesGiven(M, P) : SourceShape(M, Applied(M, P), x)
<1> DEFINE A == Applied(M, P)
           X == SourcesGiven(M, P)
<1>1. AppliedOK(M, A) /\ X = GivenBy(M, A)
  BY AppliedFit DEF SourcesGiven, GivenBy
<1> HIDE DEF A, X
<1>2. \A x \in X : SourceShape(M, A, x)
  BY <1>1, GivenShape
<1>3. \A x \in X : x.messages # {} /\ x.messages \subseteq M.rows
  BY <1>1, <1>2, GivenNotEmpty DEF SourceShape
<1>4. \A x, y \in X : \A m : m \in x.messages /\ m \in y.messages => x = y
  BY <1>1, GivenApart
<1>5. \A x, y \in X : x.selector = y.selector => x = y
  BY <1>1, GivenNamed
<1>6. \A m \in M.rows : \E x \in X : m \in x.messages
  BY <1>1, GivenWhole
<1> QED
  BY <1>2, <1>3, <1>4, <1>5, <1>6 DEF Parted, A, X

(* The flow of some messages of a source.                                  *)
FlowIn(M, e, k) ==
    [selector |-> FlowSelector(k, e.selector), structural |-> e.structural,
     messages |-> {m \in e.messages : FlowOf(M, m) = k}]

LEMMA FlowInReads ==
    ASSUME NEW M, NEW e, NEW k
    PROVE  LET f == FlowIn(M, e, k)
           IN  /\ f.selector.kind = "flow" /\ f.selector.flow = k /\ f.selector.within = e.selector
               /\ f.structural = e.structural
               /\ f.messages = {m \in e.messages : FlowOf(M, m) = k}
BY DEF FlowIn, FlowSelector

LEMMA FlowsRead ==
    ASSUME NEW M, NEW X, NEW f
    PROVE  f \in FlowsOf(M, X) <=>
              \E e \in X : \E m \in e.messages : f = FlowIn(M, e, FlowOf(M, m))
<1> DEFINE In(e) == {FlowIn(M, e, k) : k \in {FlowOf(M, m) : m \in e.messages}}
<1>1. FlowsOf(M, X) = UNION {In(e) : e \in X}
  BY DEF FlowsOf, FlowIn
<1>2. \A e : f \in In(e) <=> \E m \in e.messages : f = FlowIn(M, e, FlowOf(M, m))
  OBVIOUS
<1> HIDE DEF In
<1> QED
  BY <1>1, <1>2

LEMMA FlowsParted ==
    ASSUME NEW M, NEW X, Parted(M, X)
    PROVE  /\ Parted(M, FlowsOf(M, X))
           /\ \A f \in FlowsOf(M, X) :
                 /\ f.selector.kind = "flow"
                 /\ \E e \in X : f.structural = e.structural /\ f.messages \subseteq e.messages
<1> DEFINE F == FlowsOf(M, X)
<1>1. ASSUME NEW f \in F
      PROVE  \E e \in X : \E k :
                /\ f = FlowIn(M, e, k) /\ f.messages # {} /\ f.messages \subseteq e.messages
  <2>1. PICK e \in X : \E m \in e.messages : f = FlowIn(M, e, FlowOf(M, m))
    BY FlowsRead
  <2>2. PICK m \in e.messages : f = FlowIn(M, e, FlowOf(M, m))
    BY <2>1
  <2>3. m \in f.messages /\ f.messages \subseteq e.messages
    BY <2>2, FlowInReads
  <2> QED
    BY <2>2, <2>3
<1>2. \A f \in F : f.messages # {} /\ f.messages \subseteq M.rows
  BY <1>1 DEF Parted
<1>3. ASSUME NEW f \in F, NEW g \in F, NEW m, m \in f.messages, m \in g.messages PROVE f = g
  <2>a. PICK e \in X : \E k : f = FlowIn(M, e, k)
    BY <1>1
  <2>b. PICK d \in X : \E l : g = FlowIn(M, d, l)
    BY <1>1
  <2>1. PICK k : f = FlowIn(M, e, k)
    BY <2>a
  <2>2. PICK l : g = FlowIn(M, d, l)
    BY <2>b
  <2>3. m \in e.messages /\ m \in d.messages /\ FlowOf(M, m) = k /\ FlowOf(M, m) = l
    BY <1>3, <2>1, <2>2, FlowInReads
  <2> QED
    BY <2>1, <2>2, <2>3 DEF Parted
<1>4. ASSUME NEW f \in F, NEW g \in F, f.selector = g.selector PROVE f = g
  <2>a. PICK e \in X : \E k : f = FlowIn(M, e, k)
    BY <1>1
  <2>b. PICK d \in X : \E l : g = FlowIn(M, d, l)
    BY <1>1
  <2>1. PICK k : f = FlowIn(M, e, k)
    BY <2>a
  <2>2. PICK l : g = FlowIn(M, d, l)
    BY <2>b
  <2>3. e.selector = d.selector /\ k = l
    BY <1>4, <2>1, <2>2, FlowInReads
  <2> QED
    BY <2>1, <2>2, <2>3 DEF Parted
<1>5. ASSUME NEW m \in M.rows PROVE \E f \in F : m \in f.messages
  <2>1. PICK e \in X : m \in e.messages
    BY DEF Parted
  <2>2. FlowIn(M, e, FlowOf(M, m)) \in F
    BY <2>1, FlowsRead
  <2>3. m \in FlowIn(M, e, FlowOf(M, m)).messages
    BY <2>1, FlowInReads
  <2> QED
    BY <2>2, <2>3
<1>6. \A f \in F : /\ f.selector.kind = "flow"
                   /\ \E e \in X : f.structural = e.structural /\ f.messages \subseteq e.messages
  BY <1>1, FlowInReads
<1> QED
  BY <1>2, <1>3, <1>4, <1>5, <1>6 DEF Parted

(* Exactly one holds a message.                                            *)
LEMMA HolderIsOne ==
    ASSUME NEW M, NEW X, Parted(M, X), NEW m \in M.rows
    PROVE  Cardinality({x \in X : m \in x.messages}) = 1
<1>1. PICK x \in X : m \in x.messages
  BY DEF Parted
<1>2. {y \in X : m \in y.messages} = {x}
  BY <1>1 DEF Parted
<1> QED
  BY <1>2, FS_Singleton

(* Sources and flows together: what they are named and what they rest on.  *)
LEMMA HoldersRead ==
    ASSUME NEW M, IsMap(M), NEW P, PoliciesOK(P)
    PROVE  LET X == SourcesGiven(M, P)
               F == FlowsGiven(M, P)
           IN  /\ Parted(M, X) /\ Parted(M, F)
               /\ \A x \in X : IsSourceSelector(x.selector)
               /\ \A f \in F : f.selector.kind = "flow" /\ ~IsSourceSelector(f.selector)
               /\ \A x \in X \union F : x.structural \subseteq {p.decision : p \in Applied(M, P)}
<1> DEFINE X == SourcesGiven(M, P)
           F == FlowsGiven(M, P)
           D == {p.decision : p \in Applied(M, P)}
<1>1. Parted(M, X) /\ \A x \in X : IsSourceSelector(x.selector) /\ x.structural \subseteq D
  BY SourcesParted DEF SourceShape
<1>2. F = FlowsOf(M, X)
  BY DEF FlowsGiven
<1> HIDE DEF X, F, D
<1>3. /\ Parted(M, F)
      /\ \A f \in F : /\ f.selector.kind = "flow"
                      /\ \E e \in X : f.structural = e.structural
  BY <1>1, <1>2, FlowsParted
<1> QED
  BY <1>1, <1>3 DEF X, F, D, IsSourceSelector

-----------------------------------------------------------------------------
(* What a correction or a protection binds to. *)

(* Its binding r, of its one anchor a.                                     *)
BindsTarget(M, P, r, target, a) ==
    /\ IsSourceSelector(target) =>
         BindsAmong(r, a, {x \in SourcesGiven(M, P) : x.selector = target},
                    {x \in SourcesGiven(M, P) : AnyShareAnchor(target.sources, x.selector.sources)})
    /\ target.kind = "flow" =>
         \E near \in SUBSET FlowsGiven(M, P) :
            BindsAmong(r, a, {x \in FlowsGiven(M, P) : x.selector = target}, near)
    /\ target.kind \in {"message", "sender"} =>
         /\ r.status = IF DirectMessages(M, target) = {} THEN "orphaned" ELSE "exact"
         /\ r.candidate.messages = DirectMessages(M, target)

LEMMA AnchorBinds ==
    ASSUME NEW M, NEW P, NEW a
    PROVE  BindsTarget(M, P, ResolveTargetAnchor(M, a, SourcesGiven(M, P), FlowsGiven(M, P)),
                       a.selector, a)
<1> DEFINE X == SourcesGiven(M, P)
           F == FlowsGiven(M, P)
           r == ResolveTargetAnchor(M, a, X, F)
           exact == {x \in X : x.selector = a.selector}
           near == {x \in X : AnyShareAnchor(a.selector.sources, x.selector.sources)}
           named == {x \in F : x.selector = a.selector}
           direct == DirectMessages(M, a.selector)
<1>1. IsSourceSelector(a.selector) => BindsAmong(r, a, exact, near)
  <2>1. IsSourceSelector(a.selector) => r = ResolveSourceAnchor(M, a, X)
    BY DEF ResolveTargetAnchor
  <2>2. BindsAmong(ResolveSourceAnchor(M, a, X), a, exact, near)
    BY SourceAnchorBinds
  <2> QED
    BY <2>1, <2>2
<1>2. a.selector.kind = "flow" => r = ResolveFlowAnchor(a, F)
  BY DEF ResolveTargetAnchor, IsSourceSelector
<1>3. a.selector.kind = "flow" => \E close \in SUBSET F : BindsAmong(r, a, named, close)
  <2>1. \E close \in SUBSET F : BindsAmong(ResolveFlowAnchor(a, F), a, named, close)
    BY FlowAnchorBinds
  <2> HIDE DEF F, r, named
  <2> QED
    BY <1>2, <2>1
<1>4. a.selector.kind \in {"message", "sender"} =>
        /\ r.status = IF direct = {} THEN "orphaned" ELSE "exact"
        /\ r.candidate.messages = direct
  <2>1. a.selector.kind \in {"message", "sender"} =>
          r = Bound(IF direct = {} THEN "orphaned" ELSE "exact", MessagesCandidate(M, X, F, direct))
    BY DEF ResolveTargetAnchor, IsSourceSelector
  <2>2. MessagesCandidate(M, X, F, direct).messages = direct
    BY DEF MessagesCandidate
  <2> QED
    BY <2>1, <2>2, BoundReads
<1> QED
  BY <1>1, <1>3, <1>4 DEF BindsTarget

(* Only the status and the candidate of a binding count for this.          *)
LEMMA SameBinding ==
    ASSUME NEW M, NEW P, NEW r, NEW b, NEW target, NEW a, BindsTarget(M, P, r, target, a),
           b.status = r.status, b.candidate = r.candidate
    PROVE  BindsTarget(M, P, b, target, a)
<1>1. \A exact, near : BindsAmong(r, a, exact, near) => BindsAmong(b, a, exact, near)
  BY DEF BindsAmong, Applies
<1> QED
  BY <1>1 DEF BindsTarget

LEMMA TargetBinds ==
    ASSUME NEW M, NEW P, PoliciesOK(P), NEW p \in P \ InStructure(P)
    PROVE  /\ IsBinding(TargetBound(M, P, p)) /\ TargetBound(M, P, p).policy = p
           /\ TargetOK(p.body, p.anchors)
           /\ \E a : /\ p.anchors = {a} /\ a.selector = p.body.target
                     /\ BindsTarget(M, P, TargetBound(M, P, p), p.body.target, a)
<1> DEFINE b == TargetBound(M, P, p)
<1>1. TargetOK(p.body, p.anchors)
  BY DEF PoliciesOK, DecisionOK, InStructure
<1>2. PICK a : p.anchors = {a} /\ a.selector = p.body.target
  BY <1>1 DEF TargetOK
<1>3. (CHOOSE c \in p.anchors : TRUE) = a
  BY <1>2
<1> DEFINE r == ResolveTargetAnchor(M, a, SourcesGiven(M, P), FlowsGiven(M, P))
<1>4. b = BindingTo(p, r)
  BY <1>3 DEF TargetBound
<1>5. BindsTarget(M, P, r, p.body.target, a)
  BY <1>2, AnchorBinds
<1> HIDE DEF r, b
<1>6. IsBinding(b) /\ b.policy = p /\ b.status = r.status /\ b.candidate = r.candidate
  BY <1>4, BindingReads
<1>7. BindsTarget(M, P, b, p.body.target, a)
  BY <1>5, <1>6, SameBinding
<1> QED
  BY <1>1, <1>2, <1>6, <1>7 DEF b

(* One that applies is about a source or a flow that is there, and was      *)
(* made in the context that is there.                                       *)
LEMMA AppliesToWhatIsThere ==
    ASSUME NEW M, IsMap(M), NEW P, PoliciesOK(P), NEW p \in P \ InStructure(P),
           Applies(TargetBound(M, P, p)),
           IsSourceSelector(p.body.target) \/ p.body.target.kind = "flow"
    PROVE  \E x \in SourcesGiven(M, P) \union FlowsGiven(M, P) :
              x.selector = p.body.target /\ \A a \in p.anchors : a.structural = x.structural
<1> DEFINE b == TargetBound(M, P, p)
           X == SourcesGiven(M, P)
           F == FlowsGiven(M, P)
<1>1. PICK a : p.anchors = {a} /\ BindsTarget(M, P, b, p.body.target, a)
  BY TargetBinds
<1>2. \E Y \in {X, F} : \E near :
         BindsAmong(b, a, {x \in Y : x.selector = p.body.target}, near)
  BY <1>1 DEF BindsTarget
<1> HIDE DEF b, X, F
<1>3. PICK Y \in {X, F} : \E near :
         BindsAmong(b, a, {x \in Y : x.selector = p.body.target}, near)
  BY <1>2
<1> DEFINE exact == {x \in Y : x.selector = p.body.target}
<1>4. Parted(M, Y)
  BY <1>3, HoldersRead DEF X, F
<1>5. exact # {} /\ a.structural = UNION {e.structural : e \in exact}
  BY <1>3 DEF BindsAmong, b
<1>6. PICK x \in Y : x.selector = p.body.target
  BY <1>5
<1>7. exact = {x}
  BY <1>4, <1>6 DEF Parted
<1> HIDE DEF exact
<1>8. a.structural = x.structural
  BY <1>5, <1>7
<1> QED
  BY <1>1, <1>3, <1>6, <1>8 DEF X, F

-----------------------------------------------------------------------------
(***************************************************************************)
(* What holds of every view.                                               *)
(***************************************************************************)

LEMMA CorrectionsFindTheirs ==
    ASSUME NEW M, IsMap(M), NEW P, PoliciesOK(P)
    PROVE  CorrectionsApply(AllBound(M, P), SourcesGiven(M, P), FlowsGiven(M, P))
<1> SUFFICES ASSUME NEW b \in AllBound(M, P), b.policy.body.kind \in CorrectionFields, Applies(b)
             PROVE  b.policy.body.target \in
                       {x.selector : x \in SourcesGiven(M, P) \union FlowsGiven(M, P)}
  BY DEF CorrectionsApply
<1>1. ~IsStructural(b.policy.body)
  BY DEF IsStructural, CorrectionFields, SourceFields, FlowFields
<1>2. b \in OthersBound(M, P)
  BY <1>1, StructuresRead DEF AllBound, InStructure
<1> DEFINE p == b.policy
<1>3. p \in P \ InStructure(P) /\ Applies(TargetBound(M, P, p))
  BY <1>2, OthersRead DEF MarkedAs
<1>4. TargetOK(p.body, p.anchors)
  BY <1>3, TargetBinds
<1>5. IsSourceSelector(p.body.target) \/ p.body.target.kind = "flow"
  BY <1>4 DEF TargetOK, CorrectionFields
<1>6. \E x \in SourcesGiven(M, P) \union FlowsGiven(M, P) : x.selector = p.body.target
  BY <1>3, <1>5, AppliesToWhatIsThere
<1> QED
  BY <1>6

(* The decisions apply without error, and every message is in exactly one  *)
(* source and one flow, none of them empty.                                *)
THEOREM EveryViewIsComplete ==
    ASSUME NEW M, IsMap(M), NEW P, PoliciesOK(P)
    PROVE  LET view == ApplyLocalPolicies(M, P)
           IN  /\ view.valid
               /\ \A x \in view.sources \union view.flows : x.messages # {}
               /\ \A m \in M.rows :
                     /\ Cardinality({e \in view.sources : m \in e.messages}) = 1
                     /\ Cardinality({f \in view.flows : m \in f.messages}) = 1
<1> DEFINE view == ApplyLocalPolicies(M, P)
<1>1. StructureApplies(M, Applied(M, P), BaselineSources(M))
  BY AppliedFit, StructureIsValid
<1>2. view.valid
  BY <1>1, CorrectionsFindTheirs, ViewReads
<1>3. view.sources = SourcesGiven(M, P) /\ view.flows = FlowsGiven(M, P)
  BY ViewReads
<1> HIDE DEF view
<1>4. Parted(M, view.sources) /\ Parted(M, view.flows)
  BY <1>3, HoldersRead
<1>5. \A x \in view.sources \union view.flows : x.messages # {}
  BY <1>4 DEF Parted
<1>6. \A m \in M.rows : /\ Cardinality({e \in view.sources : m \in e.messages}) = 1
                        /\ Cardinality({f \in view.flows : m \in f.messages}) = 1
  BY <1>4, HolderIsOne
<1> QED
  BY <1>2, <1>5, <1>6 DEF view

(* A decision that applies was made in a context of decisions in force.    *)
THEOREM ContextIsInForce ==
    ASSUME NEW M, IsMap(M), NEW P, PoliciesOK(P), NEW p \in P,
           Applies(BindingOf(ApplyLocalPolicies(M, P), p.decision)), NEW a \in p.anchors
    PROVE  a.structural \subseteq {q.decision : q \in P}
<1>1. CASE p \in InStructure(P)
  BY <1>1, StructuresAreOK DEF IsStructure, StructureOK
<1>2. CASE p \notin InStructure(P)
  <2>1. Applies(TargetBound(M, P, p))
    BY <1>2, BindingOfReads DEF MarkedAs
  <2>2. TargetOK(p.body, p.anchors)
    BY <1>2, TargetBinds
  <2>3. CASE p.body.target.kind \in {"message", "sender"}
    BY <2>2, <2>3 DEF TargetOK
  <2>4. CASE IsSourceSelector(p.body.target) \/ p.body.target.kind = "flow"
    <3>1. PICK x \in SourcesGiven(M, P) \union FlowsGiven(M, P) : a.structural = x.structural
      BY <1>2, <2>1, <2>4, AppliesToWhatIsThere
    <3>2. x.structural \subseteq {q.decision : q \in Applied(M, P)}
      BY <3>1, HoldersRead
    <3>3. Applied(M, P) \subseteq P
      BY AppliedFit DEF InStructure
    <3> QED
      BY <3>1, <3>2, <3>3
  <2> QED
    BY <2>2, <2>3, <2>4 DEF TargetOK
<1> QED
  BY <1>1, <1>2

(* The messages a protection of a message, a sender or a source is about.  *)
CoveredBy(M, sel, m) ==
    \/ sel.kind = "message" /\ m = sel.of
    \/ sel.kind = "sender" /\ M.sender[m] = sel.of
    \/ IsSourceSelector(sel) /\ SourceCovers(M, sel, m)

(* Such a message is of a source whose anchors those of the target share.  *)
LEMMA CoveredIsNear ==
    ASSUME NEW sel, IsSourceSelector(sel), PartsAreOwn(sel),
           NEW M, NEW m, SourceCovers(M, sel, m), NEW Ss, M.sender[m] \in UNION Ss
    PROVE  AnyShareAnchor(sel.sources, Ss)
<1>1. M.sender[m] \in UNION sel.sources
  <2>1. CASE sel.kind = "partition_group"
    BY <2>1 DEF SourceCovers, PartsAreOwn
  <2>2. CASE sel.kind # "partition_group"
    BY <2>2 DEF SourceCovers, IsSourceSelector
  <2> QED
    BY <2>1, <2>2
<1> QED
  BY <1>1 DEF AnyShareAnchor, DescriptorsShareAnchor

(* A protection holds its messages: those it binds to, and when it cannot  *)
(* be bound, those it may mean.                                            *)
LEMMA ProtectionHolds ==
    ASSUME NEW M, IsMap(M), NEW P, PoliciesOK(P), NEW p \in P, p.body.kind = "protect",
           NEW m \in M.rows, CoveredBy(M, p.body.target, m)
    PROVE  LET b == TargetBound(M, P, p)
           IN  m \in b.candidate.messages /\ b.status # "orphaned" /\ b.status \in Statuses
<1> DEFINE b == TargetBound(M, P, p)
           target == p.body.target
           X == SourcesGiven(M, P)
           exact == {x \in X : x.selector = target}
           near == {x \in X : AnyShareAnchor(target.sources, x.selector.sources)}
<1>1. p \in P \ InStructure(P)
  BY DEF InStructure, IsStructural
<1>2. PICK a : p.anchors = {a} /\ BindsTarget(M, P, b, target, a)
  BY <1>1, TargetBinds
<1>3. PartsAreOwn(target)
  BY <1>1, TargetBinds DEF TargetOK
<1> HIDE DEF b
<1>4. CASE target.kind \in {"message", "sender"}
  <2>1. m \in DirectMessages(M, target)
    BY <1>4 DEF CoveredBy, IsSourceSelector, DirectMessages
  <2> QED
    BY <1>2, <1>4, <2>1 DEF BindsTarget, b, Statuses
<1>5. CASE IsSourceSelector(target) /\ SourceCovers(M, target, m)
  <2>1. BindsAmong(b, a, exact, near)
    BY <1>2, <1>5 DEF BindsTarget
  <2>2. Parted(M, X) /\ \A x \in X : SourceShape(M, Applied(M, P), x)
    BY SourcesParted
  <2>3. CASE exact # {}
    <3>1. PICK x \in X : x.selector = target
      BY <2>3
    <3>2. m \in x.messages
      BY <1>5, <2>2, <3>1 DEF SourceShape
    <3>3. m \in UNION {e.messages : e \in exact}
      BY <3>1, <3>2
    <3> HIDE DEF exact, near
    <3>4. StandsFor(b.candidate, exact) /\ (Applies(b) \/ b.status = "needs_review")
      BY <2>1, <2>3 DEF BindsAmong
    <3> QED
      BY <3>3, <3>4 DEF StandsFor, Applies, Statuses, b
  <2>4. CASE exact = {}
    <3>1. PICK x \in X : m \in x.messages
      BY <2>2 DEF Parted
    <3>2. M.sender[m] \in UNION x.selector.sources
      BY <2>2, <3>1 DEF SourceShape
    <3>3. x \in near
      BY <1>3, <1>5, <3>1, <3>2, CoveredIsNear
    <3>4. m \in UNION {e.messages : e \in near} /\ near # {}
      BY <3>1, <3>3
    <3> HIDE DEF exact, near
    <3>5. StandsFor(b.candidate, near) /\ b.status \in {"needs_review", "ambiguous"}
      BY <2>1, <2>4, <3>4 DEF BindsAmong
    <3> QED
      BY <3>4, <3>5 DEF StandsFor, Statuses, b
  <2> QED
    BY <2>3, <2>4
<1> QED
  BY <1>4, <1>5 DEF CoveredBy

THEOREM CoveredIsProtected ==
    ASSUME NEW M, IsMap(M), NEW P, PoliciesOK(P), NEW p \in P, p.body.kind = "protect",
           NEW m \in M.rows, CoveredBy(M, p.body.target, m)
    PROVE  m \in ApplyLocalPolicies(M, P).protected
<1> DEFINE b == BindingOf(ApplyLocalPolicies(M, P), p.decision)
           t == TargetBound(M, P, p)
<1>1. p \in P \ InStructure(P)
  BY DEF InStructure, IsStructural
<1>2. b \in AllBound(M, P) /\ MarkedAs(b, t, TargetClear(M, P, p))
  BY <1>1, BindingOfReads
<1>3. t.policy = p /\ m \in t.candidate.messages /\ t.status # "orphaned" /\ t.status \in Statuses
  <2>1. t.policy = p
    BY <1>1, TargetBinds
  <2>2. m \in t.candidate.messages /\ t.status # "orphaned" /\ t.status \in Statuses
    BY ProtectionHolds
  <2> QED
    BY <2>1, <2>2
<1> HIDE DEF b, t
<1>4. /\ b.policy = p /\ m \in b.candidate.messages
      /\ Applies(b) \/ b.status \in {"needs_review", "ambiguous", "conflict"}
  BY <1>2, <1>3 DEF MarkedAs, Statuses, Applies
<1>5. m \in ProtectedAlone(M, AllBound(M, P))
  <2> DEFINE B == AllBound(M, P)
  <2>1. \A S : b \in S => m \in MessagesOf(S)
    BY <1>4 DEF MessagesOf
  <2> HIDE DEF B
  <2>2. CASE Applies(b)
    <3>1. b \in {x \in B : x.policy.body.kind \in ProtectingKinds /\ Applies(x)}
      BY <1>2, <1>4, <2>2 DEF ProtectingKinds, B
    <3> QED
      BY <2>1, <3>1 DEF ProtectedAlone, B
  <2>3. CASE ~Applies(b)
    <3>1. b \in Pending(B)
      BY <1>2, <1>4, <2>3 DEF Pending, B
    <3> QED
      BY <2>1, <3>1 DEF ProtectedAlone, B
  <2> QED
    BY <2>2, <2>3
<1>6. m \in Protected(M, AllBound(M, P))
  BY <1>5 DEF Protected, WithConversations
<1> QED
  BY <1>6, ViewReads

-----------------------------------------------------------------------------
(***************************************************************************)
(* A decision that is prepared on a view has the shape of a policy, and    *)
(* applies in the view it gives.                                           *)
(***************************************************************************)

(* The commands a client can give: participants are automatic sources, the *)
(* groups of a partition are of anchors of its source, a correction names  *)
(* what it can correct.                                                    *)
BodyShape(body) ==
    IF IsStructural(body)
    THEN /\ body.participants # {}
         /\ \A x \in body.participants : IsAutomatic(x)
         /\ body.kind = "merge" => Cardinality(body.participants) > 1
         /\ body.kind = "partition" =>
              /\ GroupsOK(body, {}) /\ {} \notin body.groups
              /\ \A a \in UNION body.groups : a.kind \in {"sender", "flow_anchor"}
    ELSE /\ body.kind \in CorrectionFields \union {"protect"}
         /\ body.kind \in SourceFields => IsSourceSelector(body.target)
         /\ body.kind \in FlowFields => body.target.kind = "flow"
         /\ IsSourceSelector(body.target) \/ body.target.kind \in {"flow", "message", "sender"}
         /\ PartsAreOwn(body.target)

LEMMA ObservedReads ==
    ASSUME NEW M, NEW selector, NEW structural, NEW messages
    PROVE  /\ Observed(M, selector, structural, messages).selector = selector
           /\ Observed(M, selector, structural, messages).structural = structural
BY DEF Observed

(* The participants of a structural command that are found are automatic.  *)
LEMMA ParticipantsAreBase ==
    ASSUME NEW M, IsMap(M), NEW R, PoliciesOK(R), NEW body, IsStructural(body), BodyShape(body),
           NEW t \in TargetsOf(M, ApplyLocalPolicies(M, R), body)
    PROVE  /\ t \in BaselineSources(M) /\ t.selector \in body.participants
           /\ IsSourceSelector(t.selector) /\ t.structural = {}
<1>1. t \in SourcesGiven(M, R) /\ t.selector \in body.participants
  BY ViewReads DEF TargetsOf
<1>2. t.selector.kind = "automatic"
  BY <1>1, AutomaticIsNamed DEF BodyShape
<1>3. t \in BaselineSources(M)
  BY <1>1, <1>2, SourcesParted DEF SourceShape
<1> QED
  BY <1>1, <1>2, <1>3, BaseReads DEF IsSourceSelector

LEMMA PreparedStructureOK ==
    ASSUME NEW M, IsMap(M), NEW R, PoliciesOK(R), NEW body, BodyShape(body), IsStructural(body),
           TargetFound(M, ApplyLocalPolicies(M, R), body)
    PROVE  StructureOK(body, PreparedAnchors(M, ApplyLocalPolicies(M, R), body))
<1> DEFINE V == ApplyLocalPolicies(M, R)
           targets == TargetsOf(M, V, body)
           main == {Observed(M, t.selector, t.structural, t.messages) : t \in targets}
           parts == UNION {{Observed(M, a, {}, AnchorMessages(M, a, t.messages)) :
                              a \in UNION body.groups} : t \in targets}
           anchors == PreparedAnchors(M, V, body)
<1>1. /\ body.kind # "partition" => anchors = main
      /\ body.kind = "partition" => anchors = main \union
            {Observed(M, a, {}, AnchorMessages(M, a, t.messages)) :
               t \in targets, a \in UNION body.groups}
  BY DEF PreparedAnchors, IsStructural
<1>2. \A t \in targets : /\ t.selector \in body.participants
                         /\ IsSourceSelector(t.selector) /\ t.structural = {}
  BY ParticipantsAreBase
<1>3. \A x \in body.participants : \E t \in targets : t.selector = x
  BY DEF TargetFound, TargetsOf
<1> HIDE DEF V, targets
<1>4. ASSUME NEW a \in anchors, a \notin main
      PROVE  /\ body.kind = "partition" /\ a.structural = {}
             /\ a.selector \in UNION body.groups /\ ~IsSourceSelector(a.selector)
  <2>1. body.kind = "partition"
    BY <1>1, <1>4
  <2>2. PICK t \in targets, s \in UNION body.groups :
           a = Observed(M, s, {}, AnchorMessages(M, s, t.messages))
    BY <1>1, <1>4
  <2>3. a.selector = s /\ a.structural = {}
    BY <2>2, ObservedReads
  <2>4. s.kind \in {"sender", "flow_anchor"}
    BY <2>1 DEF BodyShape
  <2> QED
    BY <2>1, <2>3, <2>4 DEF IsSourceSelector
<1>5. ASSUME NEW a \in main
      PROVE  a.selector \in body.participants /\ IsSourceSelector(a.selector) /\ a.structural = {}
  BY <1>2, ObservedReads
<1>6. \A x \in body.participants : \E a \in main : a.selector = x
  BY <1>3, ObservedReads
<1>7. main \subseteq anchors
  BY <1>1
<1> HIDE DEF main, anchors
<1>8. {a.selector : a \in {b \in anchors : IsSourceSelector(b.selector)}} = body.participants
  BY <1>4, <1>5, <1>6, <1>7
<1>9. \A a \in anchors : a.structural = {}
  BY <1>4, <1>5
<1>10. body.kind = "partition" => GroupsOK(body, anchors)
  <2>1. \A a \in anchors : IsSourceSelector(a.selector) \/ a.selector \in UNION body.groups
    BY <1>4, <1>5
  <2> QED
    BY <2>1 DEF BodyShape, GroupsOK
<1> QED
  BY <1>8, <1>9, <1>10 DEF StructureOK, BodyShape, anchors, V

(* The one source or flow that bears the selector of a target, and anchor. *)
LEMMA TargetIsOne ==
    ASSUME NEW M, IsMap(M), NEW R, PoliciesOK(R), NEW body, ~IsStructural(body), BodyShape(body),
           body.target.kind \notin {"message", "sender"},
           TargetFound(M, ApplyLocalPolicies(M, R), body)
    PROVE  \E t \in TargetsOf(M, ApplyLocalPolicies(M, R), body) :
              /\ t.selector = body.target
              /\ t \in IF IsSourceSelector(body.target)
                       THEN SourcesGiven(M, R) ELSE FlowsGiven(M, R)
              /\ TargetsOf(M, ApplyLocalPolicies(M, R), body) = {t}
              /\ PreparedAnchors(M, ApplyLocalPolicies(M, R), body)
                    = {Observed(M, t.selector, t.structural, t.messages)}
<1> DEFINE V == ApplyLocalPolicies(M, R)
           X == SourcesGiven(M, R)
           F == FlowsGiven(M, R)
           targets == TargetsOf(M, V, body)
<1>1. targets = {x \in X \union F : x.selector = body.target} /\ targets # {}
  BY ViewReads DEF TargetsOf, TargetFound
<1>2. PICK t \in targets : t.selector = body.target
  BY <1>1
<1>3. /\ Parted(M, X) /\ Parted(M, F)
      /\ \A x \in X : IsSourceSelector(x.selector)
      /\ \A f \in F : ~IsSourceSelector(f.selector)
  BY HoldersRead
<1> HIDE DEF V, X, F, targets
<1>4. t \in IF IsSourceSelector(body.target) THEN X ELSE F
  BY <1>1, <1>2, <1>3
<1>5. targets = {t}
  BY <1>1, <1>2, <1>3, <1>4 DEF Parted
<1>6. PreparedAnchors(M, V, body) = {Observed(M, u.selector, u.structural, u.messages) : u \in targets}
  BY DEF PreparedAnchors, IsStructural, targets
<1> QED
  BY <1>2, <1>4, <1>5, <1>6 DEF V, X, F, targets

LEMMA PreparedOK ==
    ASSUME NEW M, IsMap(M), NEW R, PoliciesOK(R), NEW body, BodyShape(body),
           TargetFound(M, ApplyLocalPolicies(M, R), body)
    PROVE  DecisionOK(body, PreparedAnchors(M, ApplyLocalPolicies(M, R), body))
<1> DEFINE V == ApplyLocalPolicies(M, R)
           anchors == PreparedAnchors(M, V, body)
<1>1. CASE IsStructural(body)
  BY <1>1, PreparedStructureOK DEF DecisionOK
<1>2. CASE ~IsStructural(body)
  <2>1. \E a : /\ anchors = {a} /\ a.selector = body.target
               /\ body.target.kind \in {"message", "sender"} => a.structural = {}
    <3>1. CASE body.target.kind \in {"message", "sender"}
      <4>1. body.kind = "protect"
        BY <1>2, <3>1 DEF BodyShape, CorrectionFields, IsSourceSelector
      <4> DEFINE a == Observed(M, body.target, {}, DirectMessages(M, body.target))
      <4>2. anchors = {a}
        BY <3>1, <4>1 DEF PreparedAnchors
      <4> QED
        BY <4>2, ObservedReads
    <3>2. CASE body.target.kind \notin {"message", "sender"}
      <4>1. PICK t : /\ t.selector = body.target
                     /\ anchors = {Observed(M, t.selector, t.structural, t.messages)}
        BY <1>2, <3>2, TargetIsOne
      <4> QED
        BY <3>2, <4>1, ObservedReads
    <3> QED
      BY <3>1, <3>2
  <2> HIDE DEF anchors
  <2>2. TargetOK(body, anchors)
    BY <1>2, <2>1 DEF TargetOK, BodyShape
  <2> QED
    BY <1>2, <2>2 DEF DecisionOK, anchors
<1> QED
  BY <1>1, <1>2

(* A decision that stays and that the new one touches stands against it.   *)
LEMMA TouchedStands ==
    ASSUME NEW M, NEW R, NEW body, NEW q \in R,
           LET V == ApplyLocalPolicies(M, R)
           IN  ~RemainingConflicts(V, R, body, {t.selector : t \in TargetsOf(M, V, body)})
    PROVE  LET V == ApplyLocalPolicies(M, R)
               b == BindingOf(V, q.decision)
           IN  /\ IsStructural(body) /\ IsStructural(q.body) =>
                    /\ ~StructuresShareAnchor(body, q.body)
                    /\ \A t \in TargetsOf(M, V, body) : t.selector \notin b.candidate.effective
               /\ body.kind \in CorrectionFields /\ q.body.kind = body.kind =>
                    \A t \in TargetsOf(M, V, body) : t.selector \notin b.candidate.effective
<1> DEFINE V == ApplyLocalPolicies(M, R)
           targets == TargetsOf(M, V, body)
           effective == BindingOf(V, q.decision).candidate.effective
<1>1. \A t \in targets : t.selector \in effective =>
         effective \intersect {u.selector : u \in targets} # {}
  OBVIOUS
<1>2. /\ IsStructural(body) /\ IsStructural(q.body) =>
           /\ ~StructuresShareAnchor(body, q.body)
           /\ effective \intersect {u.selector : u \in targets} = {}
      /\ body.kind \in CorrectionFields /\ q.body.kind = body.kind =>
           effective \intersect {u.selector : u \in targets} = {}
  BY DEF RemainingConflicts
<1> QED
  BY <1>1, <1>2

(* A merge or a partition that is prepared takes effect.                   *)
LEMMA StructureTakesEffect ==
    ASSUME NEW M, IsMap(M), NEW R, PoliciesOK(R), NEW n, PoliciesOK(R \union {n}),
           BodyShape(n.body), IsStructural(n.body),
           LET V == ApplyLocalPolicies(M, R)
           IN  /\ TargetFound(M, V, n.body)
               /\ ~RemainingConflicts(V, R, n.body, {t.selector : t \in TargetsOf(M, V, n.body)})
               /\ n.body.kind = "partition" =>
                    \A t \in TargetsOf(M, V, n.body) : GroupsFit(M, n, t.messages)
    PROVE  Applies(BindingOf(ApplyLocalPolicies(M, R \union {n}), n.decision))
<1> DEFINE P == R \union {n}
           V == ApplyLocalPolicies(M, R)
           targets == TargetsOf(M, V, n.body)
           b == BindingOf(ApplyLocalPolicies(M, P), n.decision)
<1>1. n \in InStructure(P) /\ \A p \in InStructure(P) : IsStructure(p)
  BY StructuresAreOK DEF InStructure
<1>2. \A t \in targets : t \in BaselineSources(M) /\ t.selector \in n.body.participants
  BY ParticipantsAreBase
<1>3. \A x \in n.body.participants : \E t \in targets : t.selector = x
  BY DEF TargetFound, TargetsOf
<1>4. AllThere(M, n)
  BY <1>2, <1>3 DEF AllThere
<1>5. Taken(M, n) \subseteq targets
  BY <1>2, <1>3, BaseIsOne DEF Taken
<1>6. n.body.kind = "partition" => \A e \in Taken(M, n) : GroupsFit(M, n, e.messages)
  BY <1>5
<1>7. Applies(StructureBound(M, n))
  BY <1>1, <1>4, <1>6, StructureBinds
<1>8. StructureBound(M, n).candidate.messages = UNION {e.messages : e \in Taken(M, n)}
  BY <1>1, <1>7, StructureBinds
<1> HIDE DEF P
<1>9. ASSUME NEW q \in InStructure(P), q # n
      PROVE  ~StructuresClash(StructureBound(M, n), StructureBound(M, q))
  <2>1. q \in R /\ q \in InStructure(R) /\ IsStructural(q.body)
    BY <1>9 DEF P, InStructure
  <2> DEFINE c == BindingOf(V, q.decision)
  <2>2. /\ ~StructuresShareAnchor(n.body, q.body)
        /\ \A t \in targets : t.selector \notin c.candidate.effective
    BY <2>1, TouchedStands
  <2>3. c.candidate = StructureBound(M, q).candidate
    BY <2>1, BindingOfReads DEF MarkedAs
  <2> HIDE DEF c, V, targets
  <2>4. /\ OfBase(M, StructureBound(M, q).candidate)
        /\ StructureBound(M, q).policy = q /\ StructureBound(M, n).policy = n
    BY <1>1, <1>9, StructureBinds
  <2>5. ASSUME NEW m \in StructureBound(M, n).candidate.messages,
               m \in StructureBound(M, q).candidate.messages
        PROVE  FALSE
    <3>1. PICK e \in Taken(M, n) : m \in e.messages
      BY <1>8
    <3>2. PICK f \in BaselineSources(M) : m \in f.messages
                                          /\ f.selector \in StructureBound(M, q).candidate.effective
      BY <2>4, <2>5 DEF OfBase
    <3>3. e = f
      BY <3>1, <3>2, BaseIsOne DEF Taken
    <3> QED
      BY <1>5, <2>2, <2>3, <3>1, <3>2, <3>3
  <2> QED
    BY <2>2, <2>4, <2>5 DEF StructuresClash, Overlap
<1>10. StructureClear(M, P, n)
  BY <1>9 DEF StructureClear
<1>11. MarkedAs(b, StructureBound(M, n), StructureClear(M, P, n))
  BY <1>1, BindingOfReads DEF P
<1> QED
  BY <1>7, <1>10, <1>11 DEF MarkedAs, P

(* Another correction or protection leaves the sources and the flows.      *)
LEMMA TargetsLeaveTheRest ==
    ASSUME NEW M, NEW R, NEW n, ~IsStructural(n.body)
    PROVE  /\ InStructure(R \union {n}) = InStructure(R)
           /\ SourcesGiven(M, R \union {n}) = SourcesGiven(M, R)
           /\ FlowsGiven(M, R \union {n}) = FlowsGiven(M, R)
           /\ \A q : TargetBound(M, R \union {n}, q) = TargetBound(M, R, q)
<1>1. InStructure(R \union {n}) = InStructure(R)
  BY DEF InStructure
<1>2. Applied(M, R \union {n}) = Applied(M, R)
  BY <1>1 DEF Applied, StructuresBound
<1>3. SourcesGiven(M, R \union {n}) = SourcesGiven(M, R)
  BY <1>2 DEF SourcesGiven
<1>4. FlowsGiven(M, R \union {n}) = FlowsGiven(M, R)
  BY <1>3 DEF FlowsGiven
<1> QED
  BY <1>1, <1>3, <1>4 DEF TargetBound

(* The messages of such a binding are of sources, or flows, it is in effect *)
(* on.                                                                      *)
LEMMA TargetIsOfHolders ==
    ASSUME NEW M, NEW P, PoliciesOK(P), NEW p \in P \ InStructure(P),
           IsSourceSelector(p.body.target) \/ p.body.target.kind = "flow",
           NEW m \in TargetBound(M, P, p).candidate.messages
    PROVE  \E z \in IF IsSourceSelector(p.body.target)
                    THEN SourcesGiven(M, P) ELSE FlowsGiven(M, P) :
              m \in z.messages /\ z.selector \in TargetBound(M, P, p).candidate.effective
<1> DEFINE b == TargetBound(M, P, p)
           Y == IF IsSourceSelector(p.body.target) THEN SourcesGiven(M, P) ELSE FlowsGiven(M, P)
           exact == {x \in Y : x.selector = p.body.target}
<1>1. PICK a : BindsTarget(M, P, b, p.body.target, a)
  BY TargetBinds
<1>2. PICK near \in SUBSET Y : BindsAmong(b, a, exact, near)
  <2>1. CASE IsSourceSelector(p.body.target)
    BY <1>1, <2>1 DEF BindsTarget
  <2>2. CASE ~IsSourceSelector(p.body.target)
    BY <1>1, <2>2 DEF BindsTarget
  <2> QED
    BY <2>1, <2>2
<1> HIDE DEF b, Y
<1>3. exact \subseteq Y
  OBVIOUS
<1> HIDE DEF exact
<1>4. \E Z \in SUBSET Y : StandsFor(b.candidate, Z)
  BY <1>2, <1>3 DEF BindsAmong
<1>5. m \in b.candidate.messages
  BY DEF b
<1>6. \E z \in Y : m \in z.messages /\ z.selector \in b.candidate.effective
  BY <1>4, <1>5 DEF StandsFor
<1> QED
  BY <1>6 DEF b, Y

(* A correction or a protection binds to the source or flow it was         *)
(* prepared on.                                                            *)
LEMMA TargetBindsBack ==
    ASSUME NEW M, IsMap(M), NEW R, PoliciesOK(R), NEW n, PoliciesOK(R \union {n}),
           BodyShape(n.body), ~IsStructural(n.body),
           n.body.target.kind \notin {"message", "sender"},
           TargetFound(M, ApplyLocalPolicies(M, R), n.body),
           n.anchors = PreparedAnchors(M, ApplyLocalPolicies(M, R), n.body)
    PROVE  /\ Applies(TargetBound(M, R \union {n}, n))
           /\ \E t \in TargetsOf(M, ApplyLocalPolicies(M, R), n.body) :
                 /\ t \in IF IsSourceSelector(n.body.target)
                          THEN SourcesGiven(M, R) ELSE FlowsGiven(M, R)
                 /\ TargetBound(M, R \union {n}, n).candidate.messages = t.messages
<1> DEFINE P == R \union {n}
           V == ApplyLocalPolicies(M, R)
           b == TargetBound(M, P, n)
           Y == IF IsSourceSelector(n.body.target) THEN SourcesGiven(M, R) ELSE FlowsGiven(M, R)
           exact == {x \in Y : x.selector = n.body.target}
<1>1. PICK t \in TargetsOf(M, V, n.body) :
         /\ t.selector = n.body.target /\ t \in Y
         /\ n.anchors = {Observed(M, t.selector, t.structural, t.messages)}
  BY TargetIsOne
<1>2. n \in P \ InStructure(P)
  BY DEF InStructure
<1>3. PICK a : n.anchors = {a} /\ BindsTarget(M, P, b, n.body.target, a)
  BY <1>2, TargetBinds
<1>4. a.structural = t.structural
  <2>1. a = Observed(M, t.selector, t.structural, t.messages)
    BY <1>1, <1>3
  <2> QED
    BY <2>1, ObservedReads
<1>5. SourcesGiven(M, P) = SourcesGiven(M, R) /\ FlowsGiven(M, P) = FlowsGiven(M, R)
  BY TargetsLeaveTheRest
<1>6. \E near : BindsAmong(b, a, exact, near)
  <2>1. CASE IsSourceSelector(n.body.target)
    BY <1>3, <1>5, <2>1 DEF BindsTarget
  <2>2. CASE ~IsSourceSelector(n.body.target)
    <3>1. n.body.target.kind = "flow"
      BY <2>2 DEF BodyShape
    <3> QED
      BY <1>3, <1>5, <2>2, <3>1 DEF BindsTarget
  <2> QED
    BY <2>1, <2>2
<1>7. Parted(M, Y)
  BY HoldersRead
<1>8. exact = {t}
  BY <1>1, <1>7 DEF Parted
<1> HIDE DEF exact, b, Y
<1>9. a.structural = UNION {e.structural : e \in exact}
  BY <1>4, <1>8
<1>10. Applies(b) /\ StandsFor(b.candidate, exact)
  BY <1>6, <1>8, <1>9 DEF BindsAmong
<1>11. b.candidate.messages = t.messages
  BY <1>8, <1>10 DEF StandsFor
<1> QED
  BY <1>1, <1>10, <1>11 DEF b, Y

(* One that is prepared takes effect.                                      *)
LEMMA TargetTakesEffect ==
    ASSUME NEW M, IsMap(M), NEW R, PoliciesOK(R), NEW n, PoliciesOK(R \union {n}),
           BodyShape(n.body), ~IsStructural(n.body),
           n.anchors = PreparedAnchors(M, ApplyLocalPolicies(M, R), n.body),
           LET V == ApplyLocalPolicies(M, R)
           IN  /\ TargetFound(M, V, n.body)
               /\ ~RemainingConflicts(V, R, n.body, {t.selector : t \in TargetsOf(M, V, n.body)})
    PROVE  Applies(BindingOf(ApplyLocalPolicies(M, R \union {n}), n.decision))
<1> DEFINE P == R \union {n}
           V == ApplyLocalPolicies(M, R)
           targets == TargetsOf(M, V, n.body)
           b == TargetBound(M, P, n)
           found == BindingOf(ApplyLocalPolicies(M, P), n.decision)
<1>1. n \in P \ InStructure(P)
  BY DEF InStructure
<1>2. MarkedAs(found, b, TargetClear(M, P, n))
  BY <1>1, BindingOfReads
<1>3. TargetFound(M, V, n.body)
  OBVIOUS
<1>4. CASE n.body.target.kind \in {"message", "sender"}
  <2>1. DirectMessages(M, n.body.target) # {}
    <3>1. targets # {}
      BY <1>3 DEF TargetFound
    <3> QED
      BY <1>4, <3>1 DEF TargetsOf
  <2>2. b.status = "exact"
    <3>1. \E a : BindsTarget(M, P, b, n.body.target, a)
      BY <1>1, TargetBinds
    <3> HIDE DEF b, P
    <3> QED
      BY <1>4, <2>1, <3>1 DEF BindsTarget
  <2>3. b.policy = n
    BY <1>1, TargetBinds
  <2>4. n.body.kind \notin CorrectionFields
    BY <1>4 DEF BodyShape, CorrectionFields, IsSourceSelector
  <2> HIDE DEF b, P, found
  <2>5. TargetClear(M, P, n)
    BY <2>3, <2>4 DEF TargetClear, CorrectionsClash, b
  <2> QED
    BY <1>2, <2>2, <2>5 DEF MarkedAs, Applies, found, P
<1>5. CASE n.body.target.kind \notin {"message", "sender"}
  <2> DEFINE Y == IF IsSourceSelector(n.body.target) THEN SourcesGiven(M, R) ELSE FlowsGiven(M, R)
  <2>1. Applies(b)
    BY <1>3, <1>5, TargetBindsBack
  <2>2. PICK t \in targets : t \in Y /\ b.candidate.messages = t.messages
    BY <1>3, <1>5, TargetBindsBack
  <2>3. b.policy = n
    BY <1>1, TargetBinds
  <2>4. Parted(M, Y)
    BY HoldersRead
  <2>5. ASSUME NEW q \in P \ InStructure(P), q # n
        PROVE  ~CorrectionsClash(b, TargetBound(M, P, q))
    <3> DEFINE c == TargetBound(M, P, q)
    <3>1. SUFFICES ASSUME n.body.kind \in CorrectionFields, q.body.kind = n.body.kind,
                          NEW m, m \in b.candidate.messages, m \in c.candidate.messages
                   PROVE  FALSE
      <4>1. c.policy = q
        BY <2>5, TargetBinds
      <4> QED
        BY <2>3, <4>1 DEF CorrectionsClash, Overlap
    <3>2. q \in R \ InStructure(R) /\ c = TargetBound(M, R, q)
      BY <2>5, TargetsLeaveTheRest
    <3>3. TargetOK(q.body, q.anchors)
      BY <3>2, TargetBinds
    <3>4. /\ IsSourceSelector(q.body.target) \/ q.body.target.kind = "flow"
          /\ IsSourceSelector(q.body.target) <=> IsSourceSelector(n.body.target)
      <4>1. CASE n.body.kind \in SourceFields
        BY <3>1, <3>3, <4>1 DEF TargetOK, BodyShape
      <4>2. CASE n.body.kind \in FlowFields
        BY <3>1, <3>3, <4>2 DEF TargetOK, BodyShape, IsSourceSelector, SourceFields, FlowFields
      <4> QED
        BY <3>1, <4>1, <4>2 DEF CorrectionFields
    <3>5. PICK z \in Y : m \in z.messages /\ z.selector \in TargetBound(M, R, q).candidate.effective
      BY <3>1, <3>2, <3>4, TargetIsOfHolders
    <3>6. z = t
      BY <2>2, <2>4, <3>1, <3>5 DEF Parted
    <3>7. BindingOf(V, q.decision).candidate = TargetBound(M, R, q).candidate
      BY <3>2, BindingOfReads DEF MarkedAs
    <3>8. t.selector \notin BindingOf(V, q.decision).candidate.effective
      BY <2>2, <3>1, <3>2, TouchedStands
    <3> QED
      BY <3>5, <3>6, <3>7, <3>8
  <2> HIDE DEF b, P, found
  <2>6. TargetClear(M, P, n)
    BY <2>5 DEF TargetClear, b
  <2> QED
    BY <1>2, <2>1, <2>6 DEF MarkedAs, found, P
<1> QED
  BY <1>4, <1>5

(* What prepare_policy_decision finds in order takes effect.               *)
THEOREM PreparedTakesEffect ==
    ASSUME NEW M, IsMap(M), NEW Q, NEW supersedes, PoliciesOK(Remaining(Q, supersedes)),
           NEW n, PoliciesOK(Remaining(Q, supersedes) \union {n}), BodyShape(n.body),
           LET V == ApplyLocalPolicies(M, Remaining(Q, supersedes))
           IN  /\ PreparePolicyOutcome(M, V, Q, n.body, supersedes) = "prepared"
               /\ n.anchors = PreparedAnchors(M, V, n.body)
    PROVE  Applies(BindingOf(ApplyLocalPolicies(M, Remaining(Q, supersedes) \union {n}), n.decision))
<1> DEFINE R == Remaining(Q, supersedes)
           V == ApplyLocalPolicies(M, R)
           targets == TargetsOf(M, V, n.body)
<1>1. /\ TargetFound(M, V, n.body)
      /\ ~RemainingConflicts(V, R, n.body, {t.selector : t \in targets})
      /\ n.body.kind = "partition" => \A t \in targets : GroupsFit(M, n, t.messages)
  BY DEF PreparePolicyOutcome, GroupsFit
<1> QED
  BY <1>1, StructureTakesEffect, TargetTakesEffect
=============================================================================
