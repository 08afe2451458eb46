-------------------------- MODULE ToolExecution_proofs --------------------------
(* Theorems of ToolExecution, for any number of calls, paths and tools. *)
EXTENDS ToolExecution, Induction, FiniteSetTheorems, SequenceTheorems, TLAPS

LEMMA CallIsNat == Call \subseteq Nat
BY DEF Call

(* Of calls that are not planned yet one is the first. *)
LEMMA FirstCall ==
    ASSUME NEW S \in SUBSET Call, S # {}
    PROVE  \E c \in S : \A d \in S : c <= d
<1>1. S \in SUBSET Nat
    BY CallIsNat
<1> QED BY <1>1, LeastNumber

(* What conflicts stays the same: the calls of a batch do. *)
LEMMA SameDependencies ==
    ASSUME UNCHANGED <<arguments, known>>
    PROVE  /\ \A c : DependsOn(c)' = DependsOn(c)
           /\ \A c, d : Conflicting(c, d)' = Conflicting(c, d)
<1>1. \A c, d : Conflicting(c, d)' = Conflicting(c, d)
    BY DEF Conflicting
<1> QED BY <1>1 DEF DependsOn

LEMMA CallsKept == [Next]_vars => UNCHANGED <<arguments, known>>
BY DEF Next, vars, PlanGroup, StartGroup, ReturnResults, ToolReturns, ToolFails, ToolAborts

LEMMA EarlierCalls ==
    ASSUME NEW c \in Call, NEW d \in DependsOn(c), known \in SUBSET Call
    PROVE  d \in Call /\ d < c
BY DEF DependsOn

(* What the recursive function in ExtractResources computes is found by induction  *)
(* over the arguments of the call.                                                 *)
Merging(f, s, n) ==
    IF n = 0 THEN NoResources ELSE MergeResources(f[n - 1], s[n])

LEMMA MergedExists ==
    ASSUME NEW s \in Seq(Resources)
    PROVE  \E f : f = [n \in 0..Len(s) |-> Merging(f, s, n)]
<1> DEFINE Bad == {n \in 0..Len(s) : ~ \E f : f = [i \in 0..n |-> Merging(f, s, i)]}
<1>0. Len(s) \in Nat
    BY LenProperties
<1>1. ASSUME Bad # {} PROVE FALSE
    <2>1. PICK n \in Bad : \A k \in Bad : n <= k
        <3>1. Bad \in SUBSET Nat
            BY <1>0
        <3> HIDE DEF Bad
        <3> QED BY <1>1, <3>1, LeastNumber
    <2>2. n \in Nat /\ n <= Len(s)
        BY <1>0
    <2>3. CASE n = 0
        <3> DEFINE f == [i \in 0..0 |-> NoResources]
        <3>1. f = [i \in 0..0 |-> Merging(f, s, i)]
            BY DEF Merging
        <3> HIDE DEF f
        <3> QED BY <2>3, <3>1
    <2>4. CASE n # 0
        <3>1. n - 1 \in 0..Len(s) /\ n - 1 \notin Bad
            BY <1>0, <2>1, <2>2, <2>4
        <3>2. PICK f : f = [i \in 0..(n - 1) |-> Merging(f, s, i)]
            BY <3>1
        <3> DEFINE g == [i \in 0..n |-> IF i = n THEN Merging(f, s, n) ELSE f[i]]
        <3>3. \A i \in 0..n : g[i] = Merging(g, s, i)
            <4> SUFFICES ASSUME NEW i \in 0..n PROVE g[i] = Merging(g, s, i)
                OBVIOUS
            <4>1. i # 0 => g[i - 1] = f[i - 1]
                BY <2>2
            <4>2. Merging(g, s, i) = Merging(f, s, i)
                BY <4>1 DEF Merging
            <4>3. i # n => g[i] = f[i] /\ f[i] = Merging(f, s, i)
                <5>1. i # n => i \in 0..(n - 1)
                    BY <2>2
                <5> QED BY <3>2, <5>1
            <4> QED BY <4>2, <4>3
        <3>4. g = [i \in 0..n |-> Merging(g, s, i)]
            <4>1. g = [i \in 0..n |-> g[i]]
                OBVIOUS
            <4> HIDE DEF g
            <4> QED BY <3>3, <4>1
        <3> HIDE DEF g
        <3> QED BY <3>4
    <2> QED BY <2>3, <2>4
<1> QED BY <1>0, <1>1

LEMMA MergedIs ==
    ASSUME NEW s \in Seq(Resources)
    PROVE  Merged(s) = [n \in 0..Len(s) |-> Merging(Merged(s), s, n)]
<1> DEFINE D(f) == f = [n \in 0..Len(s) |-> Merging(f, s, n)]
<1>1. Merged(s) = CHOOSE f : D(f)
    BY DEF Merged, Merging
<1>2. \E f : D(f)
    BY MergedExists
<1> HIDE DEF D
<1>3. D(Merged(s))
    BY <1>1, <1>2
<1> QED BY <1>3 DEF D

(* The claims of the first arguments, one more at a time. *)
LEMMA MergedNext ==
    ASSUME NEW s \in Seq(Resources)
    PROVE  /\ Len(s) \in Nat
           /\ Merged(s)[0] = NoResources
           /\ \A n \in 1..Len(s) :
                 Merged(s)[n] = MergeResources(Merged(s)[n - 1], s[n])
<1>1. Len(s) \in Nat
    BY LenProperties
<1>2. \A n \in 0..Len(s) : Merged(s)[n] = Merging(Merged(s), s, n)
    <2>1. PICK f : f = Merged(s)
        OBVIOUS
    <2>2. f = [n \in 0..Len(s) |-> Merging(f, s, n)]
        BY <2>1, MergedIs
    <2> QED BY <2>1, <2>2
<1> QED BY <1>1, <1>2 DEF Merging

(* The claim of a call covers that of an argument.                                 *)
FilesCovered(r, a) ==
    a.files # "none" =>
        /\ r.files # "none" /\ (a.files = "write" => r.files = "write")
        /\ r.paths = {} \/ (a.paths # {} /\ a.paths \subseteq r.paths)
Covers(r, a) ==
    /\ FilesCovered(r, a)
    /\ a.sandbox # "none" => r.sandbox = a.sandbox
    /\ a.blueprint => r.blueprint
    /\ a.gitCommit => r.gitCommit

LEMMA NoResourcesType == NoResources \in Resources
BY DEF NoResources, Resources

LEMMA MergeType ==
    ASSUME NEW target \in Resources, NEW source \in Resources
    PROVE  MergeResources(target, source) \in Resources
BY DEF MergeResources, Resources

LEMMA CoversSource ==
    ASSUME NEW target \in Resources, NEW source \in Resources
    PROVE  Covers(MergeResources(target, source), source)
BY DEF Covers, FilesCovered, MergeResources, Resources

LEMMA CoversTarget ==
    ASSUME NEW target \in Resources, NEW source \in Resources, NEW a \in Resources,
           Covers(target, a),
           source.sandbox = a.sandbox \/ "none" \in {source.sandbox, a.sandbox}
    PROVE  Covers(MergeResources(target, source), a)
BY DEF Covers, FilesCovered, MergeResources, Resources

LEMMA CoverConflicts ==
    ASSUME NEW r \in Resources, NEW a \in Resources, NEW q \in Resources,
           Covers(r, a), HasResourceConflict(a, q)
    PROVE  HasResourceConflict(r, q)
BY DEF HasResourceConflict, PathsOverlap, Exclusive, Covers, FilesCovered, Resources

LEMMA MergedType ==
    ASSUME NEW s \in Seq(Resources)
    PROVE  \A n \in 0..Len(s) : Merged(s)[n] \in Resources
<1> DEFINE S == {n \in 0..Len(s) : Merged(s)[n] \in Resources}
<1>1. Len(s) \in Nat /\ \A n \in 1..Len(s) : s[n] \in Resources
    BY LenProperties, ElementOfSeq
<1>2. 0 \in S
    <2>1. Merged(s)[0] = NoResources /\ 0 \in 0..Len(s)
        BY <1>1, MergedNext
    <2> QED BY <2>1, NoResourcesType
<1>3. ASSUME NEW k \in 1..Len(s), k - 1 \in S PROVE k \in S
    <2>1. Merged(s)[k - 1] \in Resources
        BY <1>3
    <2>2. MergeResources(Merged(s)[k - 1], s[k]) \in Resources
        BY <1>1, <2>1, MergeType
    <2>3. Merged(s)[k] = MergeResources(Merged(s)[k - 1], s[k])
        BY MergedNext
    <2>4. k \in 0..Len(s)
        BY <1>1
    <2> QED BY <2>2, <2>3, <2>4
<1>4. S \in SUBSET (0..Len(s))
    OBVIOUS
<1> HIDE DEF S
<1>5. S = 0..Len(s)
    BY <1>1, <1>2, <1>3, <1>4, UpTo
<1> QED BY <1>5 DEF S

(* The merged claim of the first arguments covers each of them. *)
LEMMA MergedCovers ==
    ASSUME NEW s \in Seq(Resources), OneSandbox(s)
    PROVE  \A n \in 0..Len(s) : \A i \in 1..n : Covers(Merged(s)[n], s[i])
<1> DEFINE S == {n \in 0..Len(s) : \A i \in 1..n : Covers(Merged(s)[n], s[i])}
<1>1. Len(s) \in Nat /\ \A n \in 1..Len(s) : s[n] \in Resources
    BY LenProperties, ElementOfSeq
<1>2. 0 \in S
    BY <1>1
<1>3. ASSUME NEW k \in 1..Len(s), k - 1 \in S PROVE k \in S
    <2> DEFINE t == Merged(s)[k - 1]
    <2>1. k \in 0..Len(s) /\ k - 1 \in 0..Len(s) /\ k \in Nat
        BY <1>1
    <2>2. t \in Resources /\ s[k] \in Resources
        BY <1>1, <2>1, MergedType
    <2>3. Merged(s)[k] = MergeResources(t, s[k])
        BY MergedNext
    <2>4. \A i \in 1..(k - 1) : Covers(t, s[i])
        BY <1>3
    <2> HIDE DEF t
    <2>5. Covers(MergeResources(t, s[k]), s[k])
        BY <2>2, CoversSource
    <2>6. ASSUME NEW i \in 1..(k - 1) PROVE Covers(MergeResources(t, s[k]), s[i])
        <3>1. i \in 1..Len(s) /\ i \in DOMAIN s /\ k \in DOMAIN s /\ s[i] \in Resources
            BY <1>1, <2>1, LenProperties
        <3>2. s[k].sandbox = s[i].sandbox \/ "none" \in {s[k].sandbox, s[i].sandbox}
            BY <3>1 DEF OneSandbox
        <3>3. Covers(t, s[i])
            BY <2>4
        <3> QED BY <2>2, <3>1, <3>2, <3>3, CoversTarget
    <2>7. \A i \in 1..k : i = k \/ i \in 1..(k - 1)
        BY <2>1
    <2>8. \A i \in 1..k : Covers(Merged(s)[k], s[i])
        BY <2>3, <2>5, <2>6, <2>7
    <2> QED BY <2>1, <2>8
<1>4. S \in SUBSET (0..Len(s))
    OBVIOUS
<1> HIDE DEF S
<1>5. S = 0..Len(s)
    BY <1>1, <1>2, <1>3, <1>4, UpTo
<1> QED BY <1>5 DEF S

(* The claim of a call covers the claim of each of its arguments. *)
LEMMA ExtractCovers ==
    ASSUME NEW s \in Signatures, NEW i \in DOMAIN s
    PROVE  /\ ExtractResources(s) \in Resources /\ s[i] \in Resources
           /\ Covers(ExtractResources(s), s[i])
<1>1. s \in Seq(Resources) /\ OneSandbox(s)
    BY ToolAssumption
<1>2. Len(s) \in Nat /\ i \in 1..Len(s) /\ s[i] \in Resources
    BY <1>1, LenProperties, ElementOfSeq
<1>3. Len(s) \in 0..Len(s)
    BY <1>2
<1>4. Merged(s)[Len(s)] \in Resources
    BY <1>1, <1>3, MergedType
<1>5. Covers(Merged(s)[Len(s)], s[i])
    BY <1>1, <1>2, <1>3, MergedCovers
<1> QED BY <1>2, <1>4, <1>5 DEF ExtractResources

(* Merging the arguments of a call loses no conflict, however many there are: what  *)
(* one of them conflicts with, on files, the sandbox, the blueprint or a commit,    *)
(* the call conflicts with.                                                         *)
THEOREM MergedConflicts ==
    ASSUME NEW s \in Signatures, NEW i \in DOMAIN s, NEW r \in Resources,
           HasResourceConflict(s[i], r)
    PROVE  HasResourceConflict(ExtractResources(s), r)
BY ExtractCovers, CoverConflicts

LEMMA ConflictIsSymmetric ==
    ASSUME NEW r1, NEW r2, HasResourceConflict(r1, r2)
    PROVE  HasResourceConflict(r2, r1)
<1>1. {r1.files, r2.files} = {r2.files, r1.files} /\ {r1.sandbox, r2.sandbox} = {r2.sandbox, r1.sandbox}
    OBVIOUS
<1>2. PathsOverlap(r1.paths, r2.paths) => PathsOverlap(r2.paths, r1.paths)
    BY DEF PathsOverlap
<1> QED BY <1>1, <1>2 DEF HasResourceConflict

(* Two calls conflict when one has an argument that writes a path and the other one *)
(* that reads or writes it.                                                         *)
THEOREM ClaimsCoverCorrect == ClaimsCover
<1> SUFFICES ASSUME NEW s1 \in Signatures, NEW s2 \in Signatures, NEW p \in Path,
                    Touches(s1, p, "write"), Touches(s2, p, "read") \/ Touches(s2, p, "write")
             PROVE  HasResourceConflict(ExtractResources(s1), ExtractResources(s2))
    BY DEF ClaimsCover
<1>1. PICK i \in DOMAIN s1 : s1[i].files = "write" /\ (s1[i].paths = {} \/ p \in s1[i].paths)
    BY DEF Touches
<1>2. PICK j \in DOMAIN s2 : /\ s2[j].files \in {"read", "write"}
                             /\ s2[j].paths = {} \/ p \in s2[j].paths
    BY DEF Touches
<1>3. /\ ExtractResources(s1) \in Resources /\ s1[i] \in Resources
      /\ ExtractResources(s2) \in Resources /\ s2[j] \in Resources
    BY ExtractCovers
<1>4. HasResourceConflict(s2[j], s1[i])
    BY <1>1, <1>2, <1>3 DEF HasResourceConflict, PathsOverlap
<1>5. HasResourceConflict(ExtractResources(s2), s1[i])
    BY <1>3, <1>4, MergedConflicts
<1>6. HasResourceConflict(s1[i], ExtractResources(s2))
    BY <1>5, ConflictIsSymmetric
<1> QED BY <1>3, <1>6, MergedConflicts

--------------------------------------------------------------------------------
(* The first unplanned call waits for planned calls only. *)
LEMMA NeverCircularAlways ==
    ASSUME TypeOK
    PROVE  NeverCircular
<1> SUFFICES ASSUME Unplanned # {} PROVE Ready # {}
    BY DEF NeverCircular
<1>1. Unplanned \in SUBSET Call
    BY DEF Unplanned
<1>2. PICK c \in Unplanned : \A d \in Unplanned : c <= d
    BY <1>1, FirstCall
<1>3. \A d \in DependsOn(c) : d \in Call /\ d < c
    BY <1>1, <1>2, EarlierCalls DEF TypeOK
<1>4. ASSUME NEW d \in DependsOn(c), d \in Unplanned PROVE FALSE
    <2>1. c <= d /\ d < c /\ c \in Nat /\ d \in Nat
        BY <1>1, <1>2, <1>3, <1>4, CallIsNat
    <2> QED BY <2>1
<1>5. DependsOn(c) \intersect Unplanned = {}
    BY <1>4
<1> QED BY <1>2, <1>5 DEF Ready

(* The plan: groups are not empty, a call is in a later group than the calls it   *)
(* waits for, and directly behind one of them; an unplanned call waits for one    *)
(* that is unplanned or in the last group.                                        *)
Numbered == \A c \in Call : group[c] \in 0..groups
Filled == \A g \in 1..groups : \E c \in Call : group[c] = g
Later == \A c \in Call : \A d \in DependsOn(c) :
            group[c] # 0 => group[d] # 0 /\ group[d] < group[c]
Behind == groups > 0 => \A c \in Unplanned : \E d \in DependsOn(c) : group[d] \in {0, groups}
PlanInv == Numbered /\ Filled /\ Later /\ Behind /\ NoNeedlessWait

(* Groups that are not empty are no more than the calls. *)
LEMMA FewGroups ==
    ASSUME NEW n \in Nat, NEW number,
           \A g \in 1..n : \E c \in Call : number[c] = g
    PROVE  n <= NumCalls
<1> SUFFICES ASSUME ~(n <= NumCalls) PROVE FALSE
    OBVIOUS
<1>1. NumCalls \in Nat
    BY ToolAssumption
<1>2. IsFiniteSet(Call) /\ Cardinality(Call) = NumCalls
    BY <1>1, FS_Interval DEF Call
<1>3. IsFiniteSet(1..n) /\ Cardinality(1..n) = n
    BY FS_Interval
<1> DEFINE f == [g \in 1..n |-> CHOOSE c \in Call : number[c] = g]
<1>4. \A g \in 1..n : f[g] \in Call /\ number[f[g]] = g
    OBVIOUS
<1>5. f \in [1..n -> Call]
    BY <1>4
<1> HIDE DEF f
<1>6. \E x, y \in 1..n : x # y /\ f[x] = f[y]
    BY <1>1, <1>2, <1>3, <1>5, FS_PigeonHole
<1> QED BY <1>4, <1>6

LEMMA PlanInit == Init => PlanInv
<1> SUFFICES ASSUME Init PROVE PlanInv
    OBVIOUS
<1> USE DEF Init
<1>1. Numbered BY DEF Numbered
<1>2. Filled BY DEF Filled
<1>3. Later BY DEF Later
<1>4. Behind BY DEF Behind
<1>5. NoNeedlessWait BY DEF NoNeedlessWait
<1> QED BY <1>1, <1>2, <1>3, <1>4, <1>5 DEF PlanInv

(* A round of the sort numbers exactly the calls that are ready. *)
LEMMA RoundPlans ==
    ASSUME TypeOK, PlanInv, PlanGroup
    PROVE  /\ Ready # {} /\ Ready \subseteq Unplanned
           /\ groups \in Nat /\ groups' = groups + 1
           /\ \A c \in Call : group'[c] = IF c \in Ready THEN groups + 1 ELSE group[c]
           /\ \A c \in Ready : \A d \in DependsOn(c) : d \in Call /\ group[d] \in 1..groups
           /\ \A c \in Call : c \in Unplanned <=> group[c] = 0
<1>1. Ready # {}
    BY NeverCircularAlways DEF NeverCircular, PlanGroup
<1>2. Ready \subseteq Unplanned
    BY DEF Ready
<1>3. \A c \in Call : c \in Unplanned <=> group[c] = 0
    BY DEF Unplanned
<1>4. groups \in Nat /\ groups' = groups + 1
    BY DEF PlanGroup, TypeOK
<1>5. \A c \in Call : group'[c] = IF c \in Ready THEN groups + 1 ELSE group[c]
    BY <1>1 DEF PlanGroup
<1>6. ASSUME NEW c \in Ready, NEW d \in DependsOn(c) PROVE d \in Call /\ group[d] \in 1..groups
    <2>1. c \in Call
        BY <1>2 DEF Unplanned
    <2>2. d \in Call /\ d < c
        BY <2>1, EarlierCalls DEF TypeOK
    <2>3. d \notin Unplanned
        BY DEF Ready
    <2>4. group[d] # 0 /\ group[d] \in 0..groups
        BY <1>3, <2>2, <2>3 DEF PlanInv, Numbered
    <2> QED BY <1>4, <2>2, <2>4
<1> QED BY <1>1, <1>2, <1>3, <1>4, <1>5, <1>6

LEMMA RoundKeepsPlan ==
    ASSUME TypeOK, PlanInv, PlanGroup
    PROVE  PlanInv'
<1>1. /\ Ready # {} /\ Ready \subseteq Unplanned
      /\ groups \in Nat /\ groups' = groups + 1
      /\ \A c \in Call : group'[c] = IF c \in Ready THEN groups + 1 ELSE group[c]
      /\ \A c \in Ready : \A d \in DependsOn(c) : d \in Call /\ group[d] \in 1..groups
      /\ \A c \in Call : c \in Unplanned <=> group[c] = 0
    BY RoundPlans
<1>2. \A c : DependsOn(c)' = DependsOn(c)
    BY SameDependencies DEF PlanGroup
<1>3. \A c \in Call : \A d \in DependsOn(c) : d \in Call
    BY EarlierCalls DEF TypeOK
<1>4. Ready \subseteq Call
    BY <1>1 DEF Unplanned
<1>5. \A c \in Call : group[c] \in 0..groups
    BY DEF PlanInv, Numbered
<1>6. Numbered'
    BY <1>1, <1>5 DEF Numbered
<1>7. Filled'
    <2> SUFFICES ASSUME NEW g \in 1..groups' PROVE \E c \in Call : group'[c] = g
        BY DEF Filled
    <2>1. CASE g = groups + 1
        BY <1>1, <1>4, <2>1
    <2>2. CASE g \in 1..groups
        <3>1. PICK c \in Call : group[c] = g
            BY <2>2 DEF PlanInv, Filled
        <3>2. c \notin Ready
            BY <1>1, <2>2, <3>1
        <3> QED BY <1>1, <3>1, <3>2
    <2> QED BY <1>1, <2>1, <2>2
<1>8. Later'
    <2> SUFFICES ASSUME NEW c \in Call, NEW d \in DependsOn(c), group'[c] # 0
                 PROVE  group'[d] # 0 /\ group'[d] < group'[c]
        BY <1>2 DEF Later
    <2>1. d \in Call
        BY <1>3
    <2>2. CASE c \in Ready
        <3>1. group[d] \in 1..groups
            BY <1>1, <2>2
        <3>2. d \notin Ready
            BY <1>1, <2>1, <3>1
        <3> QED BY <1>1, <2>1, <2>2, <3>1, <3>2
    <2>3. CASE c \notin Ready
        <3>1. group[c] # 0 /\ group'[c] = group[c]
            BY <1>1, <2>3
        <3>2. group[d] # 0 /\ group[d] < group[c]
            BY <3>1 DEF PlanInv, Later
        <3>3. d \notin Ready
            BY <1>1, <2>1, <3>2
        <3> QED BY <1>1, <2>1, <3>1, <3>2, <3>3
    <2> QED BY <2>2, <2>3
<1>9. Behind'
    <2> SUFFICES ASSUME NEW c \in Call, group'[c] = 0
                 PROVE  \E d \in DependsOn(c) : group'[d] \in {0, groups'}
        BY <1>2 DEF Behind, Unplanned
    <2>1. c \in Unplanned /\ c \notin Ready
        BY <1>1
    <2>2. PICK d \in DependsOn(c) : d \in Unplanned
        BY <2>1 DEF Ready
    <2>3. group'[d] \in {0, groups'}
        BY <1>1, <1>3, <2>2
    <2> QED BY <2>3
<1>10. NoNeedlessWait'
    <2> SUFFICES ASSUME NEW c \in Call, group'[c] > 1
                 PROVE  \E d \in DependsOn(c) : group'[d] = group'[c] - 1
        BY <1>2 DEF NoNeedlessWait
    <2>1. CASE c \in Ready
        <3>1. c \in Unplanned /\ groups > 0 /\ group'[c] = groups + 1
            BY <1>1, <2>1
        <3>2. PICK d \in DependsOn(c) : group[d] \in {0, groups}
            BY <3>1 DEF PlanInv, Behind
        <3>3. group[d] = groups /\ d \in Call
            BY <1>1, <2>1, <3>2
        <3>4. d \notin Ready
            BY <1>1, <3>1, <3>3
        <3> QED BY <1>1, <3>1, <3>3, <3>4
    <2>2. CASE c \notin Ready
        <3>1. group'[c] = group[c]
            BY <1>1, <2>2
        <3>2. PICK d \in DependsOn(c) : group[d] = group[c] - 1
            BY <3>1 DEF PlanInv, NoNeedlessWait
        <3>3. d \in Call /\ d \notin Ready
            BY <1>1, <1>3, <1>5, <3>1, <3>2
        <3> QED BY <1>1, <3>1, <3>2, <3>3
    <2> QED BY <2>1, <2>2
<1> QED BY <1>6, <1>7, <1>8, <1>9, <1>10 DEF PlanInv
--------------------------------------------------------------------------------
(* The rest of a batch: no step but a round of the sort changes the plan.         *)
LEMMA PlanKept ==
    ASSUME TypeOK, PlanInv, UNCHANGED <<arguments, known, group, groups>>
    PROVE  PlanInv'
<1>1. \A c : DependsOn(c)' = DependsOn(c)
    BY SameDependencies
<1>2. Unplanned' = Unplanned
    BY DEF Unplanned
<1>3. Numbered' /\ Filled'
    BY DEF PlanInv, Numbered, Filled
<1>4. Later'
    BY <1>1 DEF PlanInv, Later
<1>5. Behind'
    BY <1>1, <1>2 DEF PlanInv, Behind
<1>6. NoNeedlessWait'
    BY <1>1 DEF PlanInv, NoNeedlessWait
<1> QED BY <1>3, <1>4, <1>5, <1>6 DEF PlanInv

LEMMA PlanStep == TypeOK /\ PlanInv /\ [Next]_vars => PlanInv'
<1> SUFFICES ASSUME TypeOK, PlanInv, [Next]_vars PROVE PlanInv'
    OBVIOUS
<1>1. PlanGroup \/ UNCHANGED <<arguments, known, group, groups>>
    BY DEF Next, vars, plan, StartGroup, ReturnResults, ToolReturns, ToolFails, ToolAborts
<1> QED BY <1>1, RoundKeepsPlan, PlanKept

(* Types of the variables the steps write, one lemma for each group of them.      *)
LEMMA PlanTypes ==
    ASSUME TypeOK, PlanInv, [Next]_vars
    PROVE  group' \in [Call -> 0..NumCalls] /\ groups' \in 0..NumCalls
<1>1. CASE PlanGroup
    <2>1. PlanInv'
        BY <1>1, RoundKeepsPlan
    <2>2. groups \in Nat /\ groups' = groups + 1 /\ NumCalls \in Nat
        BY <1>1, ToolAssumption DEF PlanGroup, TypeOK
    <2>3. groups' <= NumCalls
        <3>1. \A g \in 1..groups' : \E c \in Call : group'[c] = g
            BY <2>1 DEF PlanInv, Filled
        <3> QED BY <2>2, <3>1, FewGroups
    <2>4. \A c \in Call : group'[c] \in 0..groups'
        BY <2>1 DEF PlanInv, Numbered
    <2>5. group' = [c \in Call |-> group'[c]]
        BY <1>1 DEF PlanGroup
    <2>6. \A c \in Call : group'[c] \in 0..NumCalls
        BY <2>2, <2>3, <2>4
    <2> QED BY <2>2, <2>3, <2>5, <2>6
<1>2. CASE UNCHANGED <<group, groups>>
    BY <1>2 DEF TypeOK
<1> QED BY <1>1, <1>2 DEF Next, vars, plan, StartGroup, ReturnResults, ToolReturns, ToolFails, ToolAborts

LEMMA FileTypes ==
    ASSUME TypeOK, [Next]_vars
    PROVE  /\ content' \in [Path -> 0..NumCalls]
           /\ found' \in [Call -> [Path -> 0..NumCalls]]
           /\ wrote' \in SUBSET Call
<1> USE DEF TypeOK
<1>1. CASE StartGroup
    BY <1>1 DEF StartGroup
<1>2. ASSUME NEW c \in Call, Written(c)
      PROVE  /\ content' \in [Path -> 0..NumCalls]
             /\ found' \in [Call -> [Path -> 0..NumCalls]]
             /\ wrote' \in SUBSET Call
    <2>1. c \in 0..NumCalls
        BY ToolAssumption DEF Call
    <2> QED BY <1>2, <2>1 DEF Written
<1>3. CASE UNCHANGED files
    BY <1>3 DEF files
<1>4. ASSUME NEW c \in Call, ToolReturns(c) \/ ToolFails(c) \/ ToolAborts(c)
      PROVE  Written(c) \/ UNCHANGED files
    BY <1>4 DEF ToolReturns, ToolFails, ToolAborts
<1> QED BY <1>1, <1>2, <1>3, <1>4 DEF Next, vars, files, PlanGroup, ReturnResults

LEMMA BatchTypes ==
    ASSUME TypeOK, [Next]_vars
    PROVE  /\ stage' \in {"planning", "running", "returned", "rejected"}
           /\ current' \in 0..NumCalls
           /\ status' \in [Call -> {"waiting", "running", "done", "aborted", "unknown"}]
<1> USE DEF TypeOK
<1>1. CASE StartGroup
    <2>1. current' \in 0..NumCalls
        BY <1>1, ToolAssumption DEF StartGroup
    <2>2. stage' \in {"running", "rejected"}
        BY <1>1 DEF StartGroup
    <2>3. status' \in [Call -> {"waiting", "running", "done", "aborted", "unknown"}]
        BY <1>1 DEF StartGroup
    <2> QED BY <2>1, <2>2, <2>3
<1>2. CASE UNCHANGED <<stage, current, status>>
    BY <1>2
<1>3. CASE ReturnResults
    BY <1>3 DEF ReturnResults
<1>4. CASE \E c \in Call : ToolReturns(c) \/ ToolFails(c) \/ ToolAborts(c)
    BY <1>4 DEF ToolReturns, ToolFails, ToolAborts
<1> QED BY <1>1, <1>2, <1>3, <1>4 DEF Next, vars, PlanGroup

LEMMA TypeInit == Init => TypeOK
BY ToolAssumption DEF Init, TypeOK

LEMMA TypeStep == TypeOK /\ PlanInv /\ [Next]_vars => TypeOK'
<1> SUFFICES ASSUME TypeOK, PlanInv, [Next]_vars PROVE TypeOK'
    OBVIOUS
<1>1. arguments' = arguments /\ known' = known
    BY CallsKept
<1> QED BY <1>1, PlanTypes, FileTypes, BatchTypes DEF TypeOK

(* Every variable of a batch keeps its type: no more groups are planned than      *)
(* there are calls, for any number of them.                                       *)
THEOREM TypeCorrect == Spec => [](TypeOK /\ PlanInv)
<1>1. Init => TypeOK /\ PlanInv
    BY TypeInit, PlanInit
<1>2. TypeOK /\ PlanInv /\ [Next]_vars => (TypeOK /\ PlanInv)'
    BY TypeStep, PlanStep
<1> QED BY <1>1, <1>2, PTL DEF Spec

(* The fallback to the sequential order is dead code: a round of the sort always  *)
(* finds a call that is ready, since a call waits for earlier ones only.          *)
THEOREM NeverCircularCorrect == Spec => []NeverCircular
<1>1. TypeOK => NeverCircular
    BY NeverCircularAlways
<1> QED BY <1>1, TypeCorrect, PTL

(* No call waits without need: one in a later group stands directly behind a      *)
(* conflicting one, for any number of calls.                                      *)
THEOREM NoNeedlessWaitCorrect == Spec => []NoNeedlessWait
<1>1. PlanInv => NoNeedlessWait
    BY DEF PlanInv
<1> QED BY <1>1, TypeCorrect, PTL

--------------------------------------------------------------------------------
(* The run of the plan: the group that runs is the only one that may not be done. *)
Begun == stage = "planning" => current = 0
Sorted == Unplanned # {} => stage = "planning"
Started == \A c \in Call : status[c] # "waiting" => group[c] \in 1..current
Finished == \A c \in Call : group[c] \in 1..(current - 1) => status[c] = "done"
Defined == \A c \in Call : status[c] \in {"running", "done", "aborted"} => c \in known
RunInv == Begun /\ Sorted /\ Started /\ Finished /\ Defined

LEMMA RunInit == Init => RunInv
BY DEF Init, RunInv, Begun, Sorted, Started, Finished, Defined

LEMMA RoundKeepsRun ==
    ASSUME TypeOK, RunInv, PlanGroup
    PROVE  RunInv'
<1> USE DEF PlanGroup, TypeOK
<1>1. current = 0 /\ \A c \in Call : status[c] = "waiting"
    BY DEF RunInv, Begun, Started
<1>2. Begun' /\ Sorted' /\ Started' /\ Finished' /\ Defined'
    BY <1>1 DEF Begun, Sorted, Started, Finished, Defined
<1> QED BY <1>2 DEF RunInv

LEMMA StartEffect ==
    ASSUME TypeOK, StartGroup
    PROVE  /\ current \in Nat /\ current' = current + 1 /\ Unplanned = {} /\ GroupDone
           /\ stage' \in {"running", "rejected"} /\ UNCHANGED <<arguments, known, group, groups>>
           /\ \A c \in Call : group[c] # current + 1 => status'[c] = status[c]
           /\ \A c \in Call : group[c] = current + 1 =>
                  status'[c] = IF c \in known THEN "running" ELSE "unknown"
<1>1. current \in Nat /\ current' = current + 1 /\ Unplanned = {} /\ GroupDone
    BY DEF StartGroup, TypeOK
<1>2. stage' \in {"running", "rejected"} /\ UNCHANGED <<arguments, known, group, groups>>
    BY DEF StartGroup, plan
<1>3. ASSUME NEW c \in Call PROVE group[c] # current + 1 => status'[c] = status[c]
    BY DEF StartGroup
<1>4. ASSUME NEW c \in Call, group[c] = current + 1
      PROVE  status'[c] = IF c \in known THEN "running" ELSE "unknown"
    BY <1>4 DEF StartGroup
<1> QED BY <1>1, <1>2, <1>3, <1>4

LEMMA StartKeepsRun ==
    ASSUME TypeOK, RunInv, StartGroup
    PROVE  RunInv'
<1>1. /\ current \in Nat /\ current' = current + 1 /\ Unplanned = {} /\ GroupDone
      /\ stage' \in {"running", "rejected"} /\ UNCHANGED <<arguments, known, group, groups>>
      /\ \A c \in Call : group[c] # current + 1 => status'[c] = status[c]
      /\ \A c \in Call : group[c] = current + 1 =>
             status'[c] = IF c \in known THEN "running" ELSE "unknown"
    BY StartEffect
<1>2. \A c \in Call : group[c] \in Nat /\ group[c] # 0
    BY <1>1 DEF TypeOK, Unplanned
<1>3. Begun' /\ Sorted'
    BY <1>1 DEF Begun, Sorted, Unplanned
<1>4. Started'
    BY <1>1, <1>2 DEF Started, RunInv
<1>5. Finished'
    BY <1>1, <1>2 DEF Finished, RunInv, GroupDone
<1>6. Defined'
    BY <1>1 DEF Defined, RunInv
<1> QED BY <1>3, <1>4, <1>5, <1>6 DEF RunInv

LEMMA ToolKeepsRun ==
    ASSUME TypeOK, RunInv, NEW c \in Call, ToolReturns(c) \/ ToolFails(c) \/ ToolAborts(c)
    PROVE  RunInv'
<1>1. /\ status[c] = "running" /\ status'[c] \in {"done", "aborted"}
      /\ \A d \in Call : d # c => status'[d] = status[d]
      /\ stage' \in {stage, "rejected"} /\ UNCHANGED <<known, group, groups, current>>
    BY DEF ToolReturns, ToolFails, ToolAborts, plan, TypeOK
<1>2. group[c] \in 1..current /\ c \in known /\ group[c] \notin 1..(current - 1)
    BY <1>1 DEF RunInv, Started, Defined, Finished
<1>3. stage # "planning"
    BY <1>2 DEF RunInv, Begun
<1>4. Begun' /\ Sorted'
    BY <1>1, <1>3 DEF RunInv, Begun, Sorted, Unplanned
<1>5. Started' /\ Finished' /\ Defined'
    BY <1>1, <1>2 DEF RunInv, Started, Finished, Defined
<1> QED BY <1>4, <1>5 DEF RunInv

LEMMA RunStep == TypeOK /\ RunInv /\ [Next]_vars => RunInv'
<1> SUFFICES ASSUME TypeOK, RunInv, [Next]_vars PROVE RunInv'
    OBVIOUS
<1>1. CASE PlanGroup
    BY <1>1, RoundKeepsRun
<1>2. CASE StartGroup
    BY <1>2, StartKeepsRun
<1>3. CASE ReturnResults
    BY <1>3 DEF ReturnResults, plan, RunInv, Begun, Sorted, Unplanned, Started, Finished, Defined
<1>4. CASE \E c \in Call : ToolReturns(c) \/ ToolFails(c) \/ ToolAborts(c)
    BY <1>4, ToolKeepsRun
<1>5. CASE UNCHANGED vars
    BY <1>5 DEF vars, RunInv, Begun, Sorted, Unplanned, Started, Finished, Defined
<1> QED BY <1>1, <1>2, <1>3, <1>4, <1>5 DEF Next

LEMMA OrderFromRun ==
    ASSUME TypeOK, PlanInv, RunInv
    PROVE  ProgramOrder
<1> SUFFICES ASSUME NEW c \in known, NEW d \in known,
                    d < c, Conflicting(c, d), status[c] # "waiting"
             PROVE  status[d] = "done"
    BY DEF ProgramOrder
<1>1. c \in Call /\ d \in Call /\ d \in DependsOn(c)
    BY DEF TypeOK, DependsOn
<1>2. group[c] \in 1..current /\ current \in Nat
    BY <1>1 DEF RunInv, Started, TypeOK
<1>3. group[d] # 0 /\ group[d] < group[c] /\ group[d] \in Nat
    BY <1>1, <1>2 DEF PlanInv, Later, TypeOK
<1> QED BY <1>1, <1>2, <1>3 DEF RunInv, Finished

(* Calls that conflict run in the order the model gave them, for any number of    *)
(* calls and whichever of them fail, abort or have no definition.                 *)
THEOREM ProgramOrderCorrect == Spec => []ProgramOrder
<1>1. Init => RunInv
    BY RunInit
<1>2. TypeOK /\ PlanInv /\ RunInv => ProgramOrder
    BY OrderFromRun
<1> QED BY <1>1, <1>2, RunStep, TypeCorrect, PTL DEF Spec

--------------------------------------------------------------------------------
(* A batch that goes on has started every call of the groups so far, and none of   *)
(* them threw.                                                                     *)
NoMoreGroups == current <= groups
Launched == \A c \in Call : group[c] \in 1..current => status[c] # "waiting"
Settled == stage \in {"planning", "running"} =>
               \A c \in Call : status[c] \notin {"aborted", "unknown"}
GoesOnInv == NoMoreGroups /\ Launched /\ Settled

LEMMA StartGoesOn ==
    ASSUME TypeOK, RunInv, GoesOnInv, StartGroup
    PROVE  GoesOnInv'
<1>1. /\ current \in Nat /\ current' = current + 1
      /\ UNCHANGED <<arguments, known, group, groups>>
      /\ \A c \in Call : group[c] # current + 1 => status'[c] = status[c]
      /\ \A c \in Call : group[c] = current + 1 =>
             status'[c] = IF c \in known THEN "running" ELSE "unknown"
    BY StartEffect
<1>2. NoMoreGroups'
    BY <1>1 DEF NoMoreGroups, StartGroup, TypeOK
<1>3. Launched'
    <2> SUFFICES ASSUME NEW c \in Call, group[c] \in 1..(current + 1)
                 PROVE  status'[c] # "waiting"
        BY <1>1 DEF Launched
    <2>1. CASE group[c] = current + 1
        BY <1>1, <2>1
    <2>2. CASE group[c] # current + 1
        <3>1. group[c] \in 1..current
            BY <1>1, <2>2
        <3> QED BY <1>1, <2>2, <3>1 DEF GoesOnInv, Launched
    <2> QED BY <2>1, <2>2
<1>4. Settled'
    <2> SUFFICES ASSUME stage' \in {"planning", "running"}, NEW c \in Call
                 PROVE  status'[c] \notin {"aborted", "unknown"}
        BY DEF Settled
    <2>1. stage \in {"planning", "running"} /\ {d \in Call : group[d] = current + 1} \subseteq known
        BY DEF StartGroup
    <2>2. CASE group[c] = current + 1
        BY <1>1, <2>1, <2>2
    <2>3. CASE group[c] # current + 1
        BY <1>1, <2>1, <2>3 DEF GoesOnInv, Settled
    <2> QED BY <2>2, <2>3
<1> QED BY <1>2, <1>3, <1>4 DEF GoesOnInv

LEMMA StepGoesOn == TypeOK /\ RunInv /\ GoesOnInv /\ [Next]_vars => GoesOnInv'
<1> SUFFICES ASSUME TypeOK, RunInv, GoesOnInv, [Next]_vars PROVE GoesOnInv'
    OBVIOUS
<1>1. CASE PlanGroup
    <2>1. /\ current = 0 /\ current' = 0 /\ groups \in Nat /\ groups' = groups + 1
          /\ stage' = stage /\ status' = status
        BY <1>1 DEF PlanGroup, RunInv, Begun, TypeOK
    <2> QED BY <2>1 DEF GoesOnInv, NoMoreGroups, Launched, Settled
<1>2. CASE StartGroup
    BY <1>2, StartGoesOn
<1>3. CASE ReturnResults
    BY <1>3 DEF ReturnResults, plan, GoesOnInv, NoMoreGroups, Launched, Settled
<1>4. ASSUME NEW c \in Call, ToolReturns(c) \/ ToolFails(c) PROVE GoesOnInv'
    <2>1. /\ status' = [status EXCEPT ![c] = "done"] /\ status \in [Call -> {"waiting", "running", "done", "aborted", "unknown"}]
          /\ UNCHANGED <<group, groups, current, stage>>
        BY <1>4 DEF ToolReturns, ToolFails, plan, TypeOK
    <2> QED BY <2>1 DEF GoesOnInv, NoMoreGroups, Launched, Settled
<1>5. ASSUME NEW c \in Call, ToolAborts(c) PROVE GoesOnInv'
    <2>1. /\ status' = [status EXCEPT ![c] = "aborted"] /\ status \in [Call -> {"waiting", "running", "done", "aborted", "unknown"}]
          /\ stage' = "rejected" /\ UNCHANGED <<group, groups, current>>
        BY <1>5 DEF ToolAborts, plan, TypeOK
    <2> QED BY <2>1 DEF GoesOnInv, NoMoreGroups, Launched, Settled
<1>6. CASE UNCHANGED vars
    BY <1>6 DEF vars, plan, GoesOnInv, NoMoreGroups, Launched, Settled
<1> QED BY <1>1, <1>2, <1>3, <1>4, <1>5, <1>6 DEF Next

LEMMA NotStuckFromRun ==
    ASSUME TypeOK, PlanInv, RunInv, GoesOnInv
    PROVE  NotStuck
<1> SUFFICES ASSUME stage \in {"planning", "running"},
                    ~(stage = "planning" /\ Unplanned # {}),
                    \A c \in Call : status[c] # "running"
             PROVE  /\ Unplanned = {} /\ GroupDone
                    /\ current < groups \/ (stage = "running" /\ current = groups)
    BY DEF NotStuck
<1>1. Unplanned = {} /\ current \in Nat /\ groups \in Nat /\ current <= groups
    BY DEF RunInv, Sorted, GoesOnInv, NoMoreGroups, TypeOK
<1>2. GroupDone
    <2> SUFFICES ASSUME NEW c \in Call, group[c] = current PROVE status[c] = "done"
        BY DEF GroupDone
    <2>1. group[c] \in 1..current
        BY <1>1 DEF Unplanned
    <2> QED BY <2>1 DEF GoesOnInv, Launched, Settled, TypeOK
<1>3. CASE stage = "running"
    BY <1>1, <1>2, <1>3
<1>4. CASE stage = "planning"
    <2>1. 1 \in Call
        BY ToolAssumption DEF Call
    <2>2. group[1] # 0 /\ group[1] \in 0..groups /\ current = 0
        BY <1>1, <1>4, <2>1 DEF Unplanned, PlanInv, Numbered, RunInv, Begun
    <2> QED BY <1>1, <1>2, <2>2
<1> QED BY <1>3, <1>4

(* A batch that is neither returned nor rejected never hangs, for any number of    *)
(* calls, however they conflict and whichever of them fail.                        *)
THEOREM NotStuckCorrect == Spec => []NotStuck
<1>1. Init => RunInv /\ GoesOnInv
    <2>1. Init => GoesOnInv
        BY DEF Init, GoesOnInv, NoMoreGroups, Launched, Settled
    <2> QED BY <2>1, RunInit
<1>2. TypeOK /\ PlanInv /\ RunInv /\ GoesOnInv => NotStuck
    BY NotStuckFromRun
<1> QED BY <1>1, <1>2, RunStep, StepGoesOn, TypeCorrect, PTL DEF Spec

--------------------------------------------------------------------------------
(* The files. Calls that write a path write it in their order, so it holds what   *)
(* the last of them wrote.                                                        *)
Latest(x, S) == IF S = {} THEN x = 0 ELSE x \in S /\ \A d \in S : d <= x
WrittenBy(p) == {d \in wrote : Writes(d, p)}
WritersBefore(c, p) == {d \in wrote : d < c /\ Writes(d, p)}
Uses(c, p) == Reads(c, p) \/ Writes(c, p)

WroteIsDone == \A d \in wrote : status[d] \in {"done", "aborted"}
ContentIsLatest == \A p \in Path : Latest(content[p], WrittenBy(p))
FileInv == WroteIsDone /\ ContentIsLatest /\ AsIfSequential

(* Of a writer and a later user of a path the user waits for the writer.          *)
LEMMA WriterFirst ==
    ASSUME TypeOK, ProgramOrder, NEW p \in Path, NEW c \in known, NEW d \in known,
           d < c, (Writes(d, p) /\ Uses(c, p)) \/ (Writes(c, p) /\ Uses(d, p)), status[c] # "waiting"
    PROVE  status[d] = "done"
<1>1. arguments[c] \in Signatures /\ arguments[d] \in Signatures
    BY DEF TypeOK
<1> DEFINE rc == ExtractResources(arguments[c])
           rd == ExtractResources(arguments[d])
<1>2. HasResourceConflict(rc, rd) \/ HasResourceConflict(rd, rc)
    BY <1>1, ClaimsCoverCorrect DEF ClaimsCover, Writes, Reads, Uses
<1>3. HasResourceConflict(rc, rd)
    <2> HIDE DEF rc, rd
    <2> QED BY <1>2, ConflictIsSymmetric
<1> QED BY <1>3 DEF ProgramOrder, Conflicting

LEMMA UsesKept ==
    ASSUME arguments' = arguments
    PROVE  \A c, p : (Writes(c, p)' <=> Writes(c, p)) /\ (Uses(c, p)' <=> Uses(c, p))
BY DEF Writes, Reads, Uses

LEMMA FileInit == Init => FileInv
<1> SUFFICES ASSUME Init PROVE FileInv
    OBVIOUS
<1>1. wrote = {} /\ \A p \in Path : content[p] = 0
    BY DEF Init
<1>2. WroteIsDone
    BY <1>1 DEF WroteIsDone
<1>3. ContentIsLatest
    BY <1>1 DEF ContentIsLatest, Latest, WrittenBy
<1>4. AsIfSequential
    BY DEF Init, AsIfSequential
<1> QED BY <1>2, <1>3, <1>4 DEF FileInv

(* A call that starts finds what the last earlier writer left: no later one can   *)
(* have written.                                                                  *)
LEMMA StartKeepsFiles ==
    ASSUME TypeOK, RunInv, ProgramOrder, FileInv, StartGroup
    PROVE  FileInv'
<1>1. /\ current \in Nat /\ Unplanned = {} /\ arguments' = arguments
      /\ \A c \in Call : group[c] # current + 1 => status'[c] = status[c]
      /\ \A c \in Call : group[c] = current + 1 =>
             status'[c] = IF c \in known THEN "running" ELSE "unknown"
    BY StartEffect
<1>2. \A c \in Call : group[c] = current + 1 => status[c] = "waiting"
    BY <1>1 DEF RunInv, Started
<1>3. wrote' = wrote /\ content' = content
    BY DEF StartGroup
<1>4. wrote \subseteq Call /\ wrote \subseteq known
    BY DEF TypeOK, FileInv, WroteIsDone, RunInv, Defined
<1>5. WroteIsDone'
    BY <1>1, <1>2, <1>3, <1>4 DEF FileInv, WroteIsDone
<1>6. \A c, p : (Writes(c, p)' <=> Writes(c, p)) /\ (Uses(c, p)' <=> Uses(c, p))
    BY <1>1, UsesKept
<1>7. ContentIsLatest'
    <2>1. \A p : WrittenBy(p)' = WrittenBy(p)
        BY <1>3, <1>6 DEF WrittenBy
    <2> QED BY <1>3, <2>1 DEF FileInv, ContentIsLatest, Latest
<1>8. ASSUME NEW c \in Call, NEW p \in Path,
             status'[c] \notin {"waiting", "unknown"}, Uses(c, p)
      PROVE  Latest(found'[c][p], WritersBefore(c, p))
    <2>1. CASE group[c] # current + 1
        <3>1. status'[c] = status[c] /\ found'[c] = found[c]
            BY <1>1, <2>1 DEF StartGroup, TypeOK
        <3> QED BY <1>8, <3>1 DEF FileInv, AsIfSequential, Latest, WritersBefore, Uses
    <2>2. CASE group[c] = current + 1
        <3>1. c \in known /\ status[c] = "waiting"
            BY <1>1, <1>2, <1>8, <2>2
        <3>2. found'[c] = content
            BY <2>2, <3>1 DEF StartGroup, TypeOK
        <3>3. ASSUME NEW d \in wrote, Writes(d, p) PROVE d < c
            <4>1. d \in known /\ d \in Call /\ status[d] # "waiting"
                BY <1>4 DEF FileInv, WroteIsDone
            <4>2. d # c
                BY <3>1, <4>1
            <4>3. ~(c < d)
                BY <1>8, <3>1, <3>3, <4>1, WriterFirst
            <4> QED BY <4>1, <4>2, <4>3, CallIsNat
        <3>4. WritersBefore(c, p) = WrittenBy(p)
            BY <3>3 DEF WritersBefore, WrittenBy
        <3> QED BY <3>2, <3>4 DEF FileInv, ContentIsLatest
    <2> QED BY <2>1, <2>2
<1>9. AsIfSequential'
    <2>1. \A c, p : WritersBefore(c, p)' = WritersBefore(c, p)
        BY <1>3, <1>6 DEF WritersBefore
    <2> QED BY <1>6, <1>8, <2>1 DEF AsIfSequential, Latest, WritersBefore, Uses
<1> QED BY <1>5, <1>7, <1>9 DEF FileInv

(* Nor can a later call have written, or started to use, what a call writes that   *)
(* ends, whether it returns, fails or aborts.                                      *)
LEMMA WrittenKeepsFiles ==
    ASSUME TypeOK, RunInv, ProgramOrder, FileInv, NEW c \in Call, Written(c),
           status[c] = "running", UNCHANGED arguments,
           NEW end \in {"done", "aborted"}, status' = [status EXCEPT ![c] = end]
    PROVE  FileInv'
<1>1. /\ status[c] = "running" /\ status'[c] = end /\ arguments' = arguments
      /\ \A e \in Call : e # c => status'[e] = status[e]
      /\ wrote' = wrote \union {c} /\ found' = found
      /\ \A p \in Path : content'[p] = IF Writes(c, p) THEN c ELSE content[p]
    BY DEF Written, TypeOK
<1>2. c \in known
    BY <1>1 DEF RunInv, Defined
<1>3. wrote \subseteq Call /\ wrote \subseteq known /\ c \notin wrote
    BY <1>1 DEF TypeOK, FileInv, WroteIsDone, RunInv, Defined
<1>4. WroteIsDone'
    BY <1>1, <1>3 DEF FileInv, WroteIsDone
<1>5. \A e, p : (Writes(e, p)' <=> Writes(e, p)) /\ (Uses(e, p)' <=> Uses(e, p))
    BY <1>1, UsesKept
<1>6. ContentIsLatest'
    <2> SUFFICES ASSUME NEW p \in Path PROVE Latest(content'[p], WrittenBy(p)')
        BY DEF ContentIsLatest, Latest
    <2>1. CASE Writes(c, p)
        <3>1. WrittenBy(p)' = WrittenBy(p) \union {c} /\ content'[p] = c
            BY <1>1, <1>5, <2>1 DEF WrittenBy
        <3>2. ASSUME NEW d \in WrittenBy(p) PROVE d <= c
            <4>1. d \in known /\ d \in Call /\ status[d] # "waiting" /\ Writes(d, p)
                BY <1>3 DEF FileInv, WroteIsDone, WrittenBy
            <4>2. ASSUME c < d PROVE FALSE
                <5>1. Uses(c, p) /\ Uses(d, p) /\ status[d] # "waiting"
                    BY <2>1, <4>1 DEF Uses
                <5>2. status[c] = "done"
                    BY <1>2, <2>1, <4>1, <4>2, <5>1, WriterFirst
                <5> QED BY <1>1, <5>2
            <4> QED BY <4>1, <4>2, CallIsNat
        <3>3. c <= c
            BY CallIsNat
        <3> QED BY <3>1, <3>2, <3>3 DEF Latest
    <2>2. CASE ~Writes(c, p)
        <3>1. WrittenBy(p)' = WrittenBy(p) /\ content'[p] = content[p]
            BY <1>1, <1>5, <2>2 DEF WrittenBy
        <3> QED BY <3>1 DEF FileInv, ContentIsLatest
    <2> QED BY <2>1, <2>2
<1>7. ASSUME NEW e \in Call, NEW p \in Path,
             status'[e] \notin {"waiting", "unknown"}, Uses(e, p)
      PROVE  Latest(found'[e][p], WritersBefore(e, p)')
    <2>1. status[e] \notin {"waiting", "unknown"}
        BY <1>1, <1>7
    <2>2. e \in known
        BY <2>1 DEF RunInv, Defined, TypeOK
    <2>3. ASSUME c < e, Writes(c, p) PROVE FALSE
        <3>1. status[e] # "waiting"
            BY <2>1
        <3>2. status[c] = "done"
            BY <1>2, <1>7, <2>2, <2>3, <3>1, WriterFirst
        <3> QED BY <1>1, <3>2
    <2>4. WritersBefore(e, p)' = WritersBefore(e, p)
        BY <1>1, <1>5, <2>3 DEF WritersBefore
    <2> QED BY <1>1, <1>7, <2>1, <2>4 DEF FileInv, AsIfSequential, Latest, WritersBefore, Uses
<1>8. AsIfSequential'
    BY <1>5, <1>7 DEF AsIfSequential, Latest, WritersBefore, Uses
<1> QED BY <1>4, <1>6, <1>8 DEF FileInv

(* The other steps write nothing and start no call. *)
LEMMA FilesKept ==
    ASSUME TypeOK, FileInv, UNCHANGED <<arguments, files>>,
           \A e \in Call : status'[e] = status[e]
                           \/ (status[e] = "running" /\ status'[e] \in {"done", "aborted"})
    PROVE  FileInv'
<1>1. wrote \subseteq Call /\ wrote' = wrote /\ content' = content /\ found' = found
    BY DEF TypeOK, files
<1>2. WroteIsDone'
    BY <1>1 DEF FileInv, WroteIsDone
<1>3. \A e, p : (Writes(e, p)' <=> Writes(e, p)) /\ (Uses(e, p)' <=> Uses(e, p))
    BY UsesKept
<1>4. ContentIsLatest'
    <2>1. \A p : WrittenBy(p)' = WrittenBy(p)
        BY <1>1, <1>3 DEF WrittenBy
    <2> QED BY <1>1, <2>1 DEF FileInv, ContentIsLatest, Latest
<1>5. AsIfSequential'
    <2>1. \A e, p : WritersBefore(e, p)' = WritersBefore(e, p)
        BY <1>1, <1>3 DEF WritersBefore
    <2>2. ASSUME NEW e \in Call, NEW p \in Path,
                 status'[e] \notin {"waiting", "unknown"}, Uses(e, p)
          PROVE  Latest(found[e][p], WritersBefore(e, p))
        <3>1. status[e] \notin {"waiting", "unknown"}
            BY <2>2
        <3> QED BY <2>2, <3>1 DEF FileInv, AsIfSequential, Latest, WritersBefore, Uses
    <2> QED BY <1>1, <1>3, <2>1, <2>2 DEF AsIfSequential, Latest, WritersBefore, Uses
<1> QED BY <1>2, <1>4, <1>5 DEF FileInv

LEMMA FileStep ==
    TypeOK /\ PlanInv /\ RunInv /\ FileInv /\ [Next]_vars => FileInv'
<1> SUFFICES ASSUME TypeOK, PlanInv, RunInv, FileInv, [Next]_vars PROVE FileInv'
    OBVIOUS
<1>1. ProgramOrder
    BY OrderFromRun
<1>2. CASE StartGroup
    BY <1>1, <1>2, StartKeepsFiles
<1>3. ASSUME NEW c \in Call, ToolReturns(c) \/ ToolFails(c) \/ ToolAborts(c)
      PROVE  FileInv'
    <2>1. /\ status[c] = "running" /\ UNCHANGED arguments
          /\ Written(c) \/ UNCHANGED files
          /\ \E end \in {"done", "aborted"} : status' = [status EXCEPT ![c] = end]
        BY <1>3 DEF ToolReturns, ToolFails, ToolAborts
    <2>2. PICK end \in {"done", "aborted"} : status' = [status EXCEPT ![c] = end]
        BY <2>1
    <2>3. CASE Written(c)
        BY <1>1, <2>1, <2>2, <2>3, WrittenKeepsFiles
    <2>4. CASE UNCHANGED files
        <3>1. \A e \in Call : status'[e] = status[e]
                              \/ (status[e] = "running" /\ status'[e] \in {"done", "aborted"})
            BY <2>1, <2>2 DEF TypeOK
        <3> QED BY <2>1, <2>4, <3>1, FilesKept
    <2> QED BY <2>1, <2>3, <2>4
<1>5. CASE PlanGroup \/ ReturnResults \/ UNCHANGED vars
    <2>1. UNCHANGED <<arguments, files, status>>
        BY <1>5 DEF PlanGroup, ReturnResults, vars, files
    <2> QED BY <2>1, FilesKept
<1> QED BY <1>2, <1>3, <1>5 DEF Next

(* The files look to every call as if the calls had run one by one, for any number  *)
(* of calls, paths and tools.                                                       *)
THEOREM AsIfSequentialCorrect == Spec => []AsIfSequential
<1>1. Init => RunInv /\ FileInv
    BY RunInit, FileInit
<1>2. TypeOK /\ PlanInv /\ RunInv /\ FileInv /\ [Next]_vars => RunInv' /\ FileInv'
    BY RunStep, FileStep
<1>3. FileInv => AsIfSequential
    BY DEF FileInv
<1> QED BY <1>1, <1>2, <1>3, TypeCorrect, PTL DEF Spec
================================================================================
