---------------------------- MODULE LoweringProofs ----------------------------
(***************************************************************************)
(* Lowering, proved for every translation unit that is a tree of C          *)
(* declarations, of any size and nesting, and for every reading of types    *)
(* that keeps their names and their anonymous leaves.                      *)
(***************************************************************************)
EXTENDS Lowering, Extrema, FiniteSetTheorems, SequenceTheorems

-----------------------------------------------------------------------------
(* Units.                                                                  *)

LEMMA UnitFacts ==
    ASSUME NEW u \in Units
    PROVE  Tree(u) /\ Declared(u) /\ Linkages(u) /\ Spelled(u)
  BY UnitsAssumption

\* The positions of a node's children are a finite set of naturals, and the
\* children come later in the document.
LEMMA Positions ==
    ASSUME NEW u \in Units, NEW i \in DOMAIN u
    PROVE  /\ Len(u[i].inner) \in Nat
           /\ DOMAIN u[i].inner = 1 .. Len(u[i].inner)
           /\ IsFiniteSet(DOMAIN u[i].inner)
           /\ i \in Nat /\ i >= 1
           /\ \A p \in DOMAIN u[i].inner : /\ u[i].inner[p] \in DOMAIN u
                                            /\ u[i].inner[p] \in Nat
                                            /\ u[i].inner[p] > i
<1>1. /\ Len(u) \in Nat /\ DOMAIN u = 1 .. Len(u)
      /\ u[i].inner \in Seq(i + 1 .. Len(u))
  BY UnitFacts DEF Tree
<1>2. Len(u[i].inner) \in Nat /\ DOMAIN u[i].inner = 1 .. Len(u[i].inner)
  BY <1>1
<1>3. IsFiniteSet(DOMAIN u[i].inner)
  BY <1>2, FS_Interval
<1>4. \A p \in DOMAIN u[i].inner : u[i].inner[p] \in i + 1 .. Len(u)
  BY <1>1
<1>5. i \in Nat /\ i >= 1
  BY <1>1
<1>6. QED
  BY <1>1, <1>2, <1>3, <1>4, <1>5

\* The walk's order: every node but the first is reached from an earlier one, so
\* a set that holds the first and the children of its nodes holds all.
LEMMA ReachesAll ==
    ASSUME NEW u \in Units, NEW S \in SUBSET DOMAIN u, 1 \in S,
           \A i \in S : children(u, i) \subseteq S
    PROVE  S = DOMAIN u
<1>1. Tree(u) /\ DOMAIN u = 1 .. Len(u) /\ Len(u) \in Nat
  BY UnitFacts DEF Tree
<1>2. SUFFICES ASSUME DOMAIN u \ S # {} PROVE FALSE
  OBVIOUS
<1> DEFINE first == Min(DOMAIN u \ S)
<1>3. first \in DOMAIN u \ S /\ \A j \in DOMAIN u \ S : first <= j
  <2>1. DOMAIN u \ S \in SUBSET Nat
    BY <1>1
  <2>2. QED
    BY <2>1, <1>2, MinOfNaturals
<1> HIDE DEF first
<1>4. PICK i \in DOMAIN u : first \in children(u, i)
  BY <1>1, <1>3 DEF Tree
<1>5. i < first
  BY <1>4, Positions DEF children
<1>6. i \in S
  <2>1. i \in Nat /\ first \in Nat
    BY <1>1, <1>3
  <2>2. QED
    BY <2>1, <1>3, <1>5
<1>7. QED
  BY <1>3, <1>4, <1>6

-----------------------------------------------------------------------------
(* Ranks.                                                                  *)

LEMMA RankType ==
    ASSUME NEW S \in SUBSET Nat, IsFiniteSet(S), NEW p \in Nat
    PROVE  /\ IsFiniteSet({q \in S : q <= p})
           /\ rank(S, p) \in Nat
  <1>1. {q \in S : q <= p} \in SUBSET S
    OBVIOUS
  <1>2. QED
    BY <1>1, FS_Subset, FS_CardinalityType DEF rank

\* Two members of one rank are one member.
LEMMA RankInjective ==
    ASSUME NEW S \in SUBSET Nat, IsFiniteSet(S), NEW p \in S, NEW q \in S,
           rank(S, p) = rank(S, q)
    PROVE  p = q
<1>1. ASSUME NEW a \in S, NEW b \in S, a < b, rank(S, a) = rank(S, b) PROVE FALSE
  <2>1. {x \in S : x <= a} \in SUBSET {x \in S : x <= b}
    <3>1. a \in Nat /\ b \in Nat /\ \A x \in S : x \in Nat
      OBVIOUS
    <3>2. \A x \in S : x <= a => x <= b
      BY <3>1, <1>1
    <3>3. QED
      BY <3>2
  <2>2. {x \in S : x <= a} = {x \in S : x <= b}
    BY <2>1, <1>1, RankType, FS_Subset DEF rank
  <2>3. b \in {x \in S : x <= b} /\ b \notin {x \in S : x <= a}
    BY <1>1
  <2>4. QED
    BY <2>2, <2>3
<1>2. QED
  BY <1>1

\* A member's rank is positive.
LEMMA RankPositive ==
    ASSUME NEW S \in SUBSET Nat, IsFiniteSet(S), NEW p \in S
    PROVE  rank(S, p) >= 1
<1>1. p \in {q \in S : q <= p}
  OBVIOUS
<1>2. /\ rank(S, p) \in Nat /\ IsFiniteSet({q \in S : q <= p})
      /\ rank(S, p) = Cardinality({q \in S : q <= p})
  BY RankType DEF rank
<1>3. rank(S, p) # 0
  BY <1>1, <1>2, FS_EmptySet
<1>4. QED
  BY <1>2, <1>3

-----------------------------------------------------------------------------
(* Anonymous members.                                                      *)

LEMMA AnonPositions ==
    ASSUME NEW u \in Units, NEW i \in DOMAIN u
    PROVE  /\ anon_fields(u, i) \in SUBSET Nat /\ IsFiniteSet(anon_fields(u, i))
           /\ anon_defs(u, i) \in SUBSET Nat /\ IsFiniteSet(anon_defs(u, i))
           /\ anon_fields(u, i) \in SUBSET fields(u, i)
           /\ fields(u, i) \in SUBSET DOMAIN u[i].inner
           /\ anon_defs(u, i) \in SUBSET DOMAIN u[i].inner
<1>1. /\ anon_fields(u, i) \in SUBSET fields(u, i)
      /\ fields(u, i) \in SUBSET DOMAIN u[i].inner
      /\ anon_defs(u, i) \in SUBSET DOMAIN u[i].inner
  BY DEF anon_fields, fields, anon_defs
<1>2. DOMAIN u[i].inner \in SUBSET Nat /\ IsFiniteSet(DOMAIN u[i].inner)
  BY Positions
<1>3. QED
  BY <1>1, <1>2, FS_Subset

\* A field takes the definition of its own rank.
LEMMA TakesOne ==
    ASSUME NEW u \in Units, NEW i \in DOMAIN u, NEW p, NEW q, NEW r, NEW s,
           takes(u, i, p, q), takes(u, i, r, s), anon_idx(u, i, p) = anon_idx(u, i, r)
    PROVE  p = r /\ q = s
<1>1. p \in anon_fields(u, i) /\ r \in anon_fields(u, i)
      /\ q \in anon_defs(u, i) /\ s \in anon_defs(u, i)
      /\ rank(anon_defs(u, i), q) = rank(anon_defs(u, i), s)
      /\ rank(anon_fields(u, i), p) = rank(anon_fields(u, i), r)
  BY DEF takes, anon_idx
<1>2. QED
  BY <1>1, AnonPositions, RankInjective

\* In a record of the headers' form, the definition of a field's rank is the
\* field's own: the definitions up to it and the fields up to the field are in
\* bijection.
LEMMA TakesItsOwn ==
    ASSUME NEW u \in Units, NEW i \in DOMAIN u, one_member_each(u, i),
           NEW q, NEW p, defines_member(u, i, q, p)
    PROVE  takes(u, i, p, q)
<1> DEFINE fs   == {k \in anon_fields(u, i) : k <= p}
           ds   == {k \in anon_defs(u, i) : k <= q}
           own  == [k \in fs |-> CHOOSE d \in anon_defs(u, i) : defines_member(u, i, d, k)]
<1>1. /\ anon_fields(u, i) \in SUBSET Nat /\ IsFiniteSet(anon_fields(u, i))
      /\ anon_defs(u, i) \in SUBSET Nat /\ IsFiniteSet(anon_defs(u, i))
      /\ p \in anon_fields(u, i) /\ q \in anon_defs(u, i) /\ p \in Nat /\ q \in Nat
  BY AnonPositions DEF defines_member
\* What adjacency says of two pairs.
<1>2. ASSUME NEW d, NEW k, defines_member(u, i, d, k),
             NEW e, NEW l, defines_member(u, i, e, l)
      PROVE  /\ d \in Nat /\ k \in Nat /\ e \in Nat /\ l \in Nat
             /\ d \in anon_defs(u, i) /\ k \in anon_fields(u, i)
             /\ d < k /\ ~(e < d /\ d < l) /\ ~(e < k /\ k < l)
  BY <1>1, <1>2 DEF defines_member
<1>3. \A k \in fs : own[k] \in anon_defs(u, i) /\ defines_member(u, i, own[k], k)
  BY DEF one_member_each
<1> HIDE DEF own
<1>4. \A k \in fs : own[k] \in ds
  <2> SUFFICES ASSUME NEW k \in fs PROVE own[k] <= q
    BY <1>3
  <2>1. defines_member(u, i, own[k], k) /\ defines_member(u, i, q, p)
    BY <1>3
  <2>2. own[k] \in Nat /\ k \in Nat /\ own[k] < k /\ ~(q < own[k] /\ own[k] < p)
    BY <2>1, <1>2
  <2>3. QED
    BY <2>2, <1>1
<1>5. \A k, l \in fs : own[k] = own[l] => k = l
  <2> SUFFICES ASSUME NEW k \in fs, NEW l \in fs, own[k] = own[l] PROVE k = l
    OBVIOUS
  <2>1. defines_member(u, i, own[k], k) /\ defines_member(u, i, own[k], l)
    BY <1>3
  <2>2. k \in Nat /\ l \in Nat /\ own[k] \in Nat /\ own[k] < k /\ own[k] < l
        /\ ~(own[k] < k /\ k < l) /\ ~(own[k] < l /\ l < k)
    BY <2>1, <1>2
  <2>3. QED
    BY <2>2
<1>6. \A d \in ds : \E k \in fs : own[k] = d
  <2> SUFFICES ASSUME NEW d \in ds PROVE \E k \in fs : own[k] = d
    OBVIOUS
  <2>1. PICK k \in anon_fields(u, i) : defines_member(u, i, d, k)
    BY DEF one_member_each
  <2>2. /\ d \in Nat /\ k \in Nat /\ d < k /\ q < p /\ d <= q
        /\ ~(q < k /\ k < p) /\ ~(d < q /\ q < k) /\ ~(d < p /\ p < k)
    BY <2>1, <1>2, <1>1
  <2>3. k <= p
    BY <2>2, <1>1
  <2>4. k \in fs
    BY <2>3
  <2>5. defines_member(u, i, own[k], k)
    BY <2>4, <1>3
  <2>6. own[k] \in Nat /\ own[k] < k /\ ~(own[k] < d /\ d < k) /\ ~(d < own[k] /\ own[k] < k)
    BY <2>1, <2>5, <1>2
  <2>7. own[k] = d
    BY <2>6, <2>2
  <2>8. QED
    BY <2>4, <2>7
<1>7. own \in Bijection(fs, ds)
  <2>1. own \in [fs -> ds]
    BY <1>4 DEF own
  <2>2. QED
    BY <2>1, <1>5, <1>6 DEF Bijection, Injection, IsInjective, Surjection
<1>8. IsFiniteSet(fs) /\ ExistsBijection(fs, ds)
  BY <1>1, <1>7, RankType DEF ExistsBijection
<1>9. Cardinality(ds) = Cardinality(fs)
  <2> HIDE DEF fs, ds
  <2>1. QED
    BY <1>8, FS_Bijection
<1>10. QED
  BY <1>1, <1>9 DEF takes, anon_idx, rank

-----------------------------------------------------------------------------
(* Typedefs of anonymous definitions.                                      *)

LEMMA PreviousFacts ==
    ASSUME NEW u \in Units, NEW i \in DOMAIN u, NEW p \in DOMAIN u[i].inner
    PROVE  LET q == previous(u, i, p)
           IN  /\ q \in 0 .. p - 1
               /\ \A k \in 1 .. p - 1 : child(u, i, k).kind # "other" => k <= q
               /\ q # 0 => q \in DOMAIN u[i].inner /\ child(u, i, q).kind # "other"
<1> DEFINE S == {0} \cup {k \in 1 .. p - 1 : child(u, i, k).kind # "other"}
<1>1. Len(u[i].inner) \in Nat /\ p \in 1 .. Len(u[i].inner)
      /\ DOMAIN u[i].inner = 1 .. Len(u[i].inner)
  BY Positions
<1>2. S \in SUBSET Nat /\ S # {} /\ p \in Nat /\ \A k \in S : k <= p
  BY <1>1
<1>3. Max(S) \in S /\ \A k \in S : k <= Max(S)
  <2> HIDE DEF S
  <2>1. QED
    BY <1>1, <1>2, MaxOfNaturals
<1>4. previous(u, i, p) = Max(S)
  BY DEF previous
<1>5. \A k \in 1 .. p - 1 : child(u, i, k).kind # "other" => k <= Max(S)
  BY <1>3
<1>6. Max(S) \in 0 .. p - 1 /\ (Max(S) # 0 => child(u, i, Max(S)).kind # "other")
  <2> DEFINE m == Max(S)
  <2>1. m = 0 \/ (m \in 1 .. p - 1 /\ child(u, i, m).kind # "other")
    BY <1>3
  <2> HIDE DEF m
  <2>2. m \in 0 .. p - 1 /\ (m # 0 => child(u, i, m).kind # "other")
    BY <2>1, <1>1
  <2>3. QED
    BY <2>2 DEF m
<1> HIDE DEF S
<1>7. Max(S) # 0 => Max(S) \in DOMAIN u[i].inner
  BY <1>1, <1>6
<1>8. QED
  BY <1>4, <1>5, <1>6, <1>7

\* An alias is linked to the definition it is paired with.
LEMMA AliasLinked ==
    ASSUME NEW u \in Units, NEW i \in DOMAIN u, NEW kind \in {"record", "enum"},
           NEW p \in aliases(u, i, kind)
    PROVE  LET q == previous(u, i, p)
           IN  /\ p \in DOMAIN u[i].inner /\ q \in DOMAIN u[i].inner
               /\ child(u, i, p).kind = "typedef" /\ self_alias(child(u, i, p))
               /\ anonymous(child(u, i, q), kind)
               /\ Linked(child(u, i, p).type) = {child(u, i, q).loc}
<1> DEFINE q == previous(u, i, p)
<1>1. /\ p \in DOMAIN u[i].inner /\ child(u, i, p).kind = "typedef"
      /\ self_alias(child(u, i, p)) /\ q # 0 /\ anonymous(child(u, i, q), kind)
  BY DEF aliases
<1>2. /\ q \in 0 .. p - 1 /\ q \in DOMAIN u[i].inner
      /\ \A k \in 1 .. p - 1 : child(u, i, k).kind # "other" => k <= q
  BY <1>1, PreviousFacts
<1> HIDE DEF q
<1>3. p \in Nat /\ q \in Nat /\ q < p /\ q >= 1
  BY <1>1, <1>2, Positions
<1>4. \A k \in q + 1 .. p - 1 : k \in 1 .. p - 1 /\ ~(k <= q)
  BY <1>3
<1>5. links(u, i, q, p)
  BY <1>1, <1>2, <1>3, <1>4 DEF links
<1>6. Linked(child(u, i, p).type) = {child(u, i, q).loc}
  BY <1>1, <1>2, <1>5, UnitFacts DEF Linkages
<1>7. QED
  BY <1>1, <1>2, <1>6 DEF q

\* A typedef that names a definition is an alias, of a record or of an enum.
LEMMA LinkedIsAlias ==
    ASSUME NEW u \in Units, NEW i \in DOMAIN u, NEW p \in DOMAIN u[i].inner,
           child(u, i, p).kind = "typedef", Linked(child(u, i, p).type) # {}
    PROVE  p \in aliases(u, i, "record") \cup aliases(u, i, "enum")
<1>1. self_alias(child(u, i, p))
  BY UnitFacts DEF Linkages
<1>2. PICK q \in DOMAIN u[i].inner : links(u, i, q, p)
  BY UnitFacts DEF Linkages
<1>3. anonymous(child(u, i, q), "record") \/ anonymous(child(u, i, q), "enum")
  BY <1>2 DEF links
<1>4. /\ p \in Nat /\ q \in Nat /\ q < p /\ q \in 1 .. p - 1
      /\ \A k \in q + 1 .. p - 1 : child(u, i, k).kind = "other"
  BY <1>2, Positions DEF links
<1>5. child(u, i, q).kind # "other"
  BY <1>3 DEF anonymous, defined
<1>6. previous(u, i, p) \in 0 .. p - 1 /\ q <= previous(u, i, p)
      /\ (previous(u, i, p) # 0 => child(u, i, previous(u, i, p)).kind # "other")
  BY <1>4, <1>5, PreviousFacts
<1>7. previous(u, i, p) = q
  <2> DEFINE r == previous(u, i, p)
  <2>1. r \in 0 .. p - 1 /\ q <= r /\ (r # 0 => child(u, i, r).kind # "other")
    BY <1>6
  <2> HIDE DEF r
  <2>2. r # q => r \in q + 1 .. p - 1 /\ r # 0
    BY <2>1, <1>4
  <2>3. r = q
    BY <2>1, <2>2, <1>4
  <2>4. QED
    BY <2>3 DEF r
<1>8. QED
  BY <1>1, <1>3, <1>4, <1>7 DEF aliases

\* What `pairs` records.
LEMMA PairsFacts ==
    ASSUME NEW u \in Units, NEW i \in DOMAIN u, NEW kind
    PROVE  /\ \A p \in aliases(u, i, kind) : child(u, i, p).name \in DOMAIN pairs(u, i, kind)
           /\ \A n \in DOMAIN pairs(u, i, kind) :
                 \E p \in aliases(u, i, kind) :
                    /\ child(u, i, p).name = n
                    /\ pairs(u, i, kind)[n] = u[i].inner[previous(u, i, p)]
<1>1. DOMAIN pairs(u, i, kind) = {child(u, i, p).name : p \in aliases(u, i, kind)}
  BY DEF pairs
<1>2. ASSUME NEW n \in DOMAIN pairs(u, i, kind)
      PROVE  \E p \in aliases(u, i, kind) :
                 /\ child(u, i, p).name = n
                 /\ pairs(u, i, kind)[n] = u[i].inner[previous(u, i, p)]
  <2> DEFINE S == aliases_of(u, i, kind, n)
             p == Min(S)
  <2>1. S # {} /\ S \in SUBSET aliases(u, i, kind)
    BY <1>1 DEF aliases_of
  <2>2. S \in SUBSET Nat
    BY <2>1, Positions DEF aliases
  <2>3. p \in S
    <3> HIDE DEF S
    <3>1. QED
      BY <2>1, <2>2, MinOfNaturals
  <2>4. pairs(u, i, kind)[n] = u[i].inner[previous(u, i, p)]
    BY <1>1 DEF pairs
  <2>5. p \in aliases(u, i, kind) /\ child(u, i, p).name = n
    BY <2>3 DEF aliases_of
  <2>6. QED
    BY <2>4, <2>5
<1>3. QED
  BY <1>1, <1>2

-----------------------------------------------------------------------------
(* The invariant.                                                          *)

Names     == Seq(STRING \cup Nat)
lowerings == records \cup calls

TypeInv ==
    /\ unit \in Units
    /\ at \in 1 .. Len(top) + 1
    /\ walked \in SUBSET DOMAIN unit
    /\ \A x \in lowerings :
          /\ x.from \in DOMAIN unit /\ defined(unit[x.from], "record")
          /\ x.name \in Names /\ x.name # NoName
          /\ x.anon \in BOOLEAN /\ (x.anon <=> Len(x.name) > 1)
    /\ \A r \in records :
          r.fields = [p \in fields(unit, r.from) |-> lowered_field(unit, r, p)]

\* The module holds what nodes of the unit are lowered to.
ModuleInv ==
    /\ DOMAIN module = {"enums", "typedefs", "functions", "inline_functions"}
    /\ \A e \in module.enums : \E i \in DOMAIN unit : unit[i].kind = "enum" /\ e = lower_enum(unit[i])
    /\ \A t \in module.typedefs :
          \E i \in DOMAIN unit :
              unit[i].kind = "typedef" /\ unit[i].phnt /\ t = lower_typedef(unit[i])
    /\ \A f \in module.functions :
          \E i \in DOMAIN unit : unit[i].kind = "function" /\ f = lower_function(unit[i])

\* An entry of the index is a definition of its name, or one that an alias of
\* its name follows, and what has been walked is in the index.
Defines(u, seen, map, kind) ==
    /\ \A n \in DOMAIN map : map[n] \in DOMAIN u /\ tagged(u[map[n]], kind) /\ u[map[n]].name = n
    /\ \A i \in seen : tagged(u[i], kind) => u[i].name \in DOMAIN map

Aliases(u, seen, map, kind) ==
    /\ \A n \in DOMAIN map :
          \E i \in DOMAIN u : \E p \in aliases(u, i, kind) :
              child(u, i, p).name = n /\ map[n] = u[i].inner[previous(u, i, p)]
    /\ \A i \in seen : \A p \in aliases(u, i, kind) : child(u, i, p).name \in DOMAIN map

IndexInv ==
    /\ Defines(unit, walked, index.rec_by_name, "record")
    /\ Defines(unit, walked, index.enum_by_name, "enum")
    /\ Defines(unit, walked, index.typedef_by_name, "typedef")
    /\ Aliases(unit, walked, index.anon_typedef_rec, "record")
    /\ Aliases(unit, walked, index.anon_typedef_enum, "enum")

\* The outermost record of a batch is what the batch was started for, and no
\* batch is started from the index before it is complete.
Walked == at \notin DOMAIN top /\ to_walk = {}

Started(x) ==
    IF x.batch = NoName
    THEN tagged(unit[x.from], "record") /\ unit[x.from].name = x.name
    ELSE /\ x.name = x.batch
         /\ \/ x.batch \in DOMAIN index.rec_by_name /\ x.from = index.rec_by_name[x.batch]
            \/ /\ x.batch \in DOMAIN index.anon_typedef_rec \ DOMAIN index.rec_by_name
               /\ x.from = index.anon_typedef_rec[x.batch]

BatchInv ==
    \A x \in lowerings :
        /\ x.batch # NoName => Walked
        /\ ~x.anon => Started(x)
        /\ \E y \in lowerings : y.batch = x.batch /\ ~y.anon

\* What is hoisted is a definition that a field of a lowered record took, under
\* the name the field has, and every definition taken is hoisted.
took(r, x, p, q) ==
    /\ takes(unit, r.from, p, q)
    /\ x.anon /\ x.batch = r.batch
    /\ x.name = synth(r.name, anon_idx(unit, r.from, p))
    /\ x.from = unit[r.from].inner[q]

HoistInv ==
    /\ \A x \in lowerings : x.anon => \E r \in records :
          \E p, q \in DOMAIN unit[r.from].inner : took(r, x, p, q)
    /\ \A r \in records : \A p, q \in DOMAIN unit[r.from].inner :
          takes(unit, r.from, p, q) => \E x \in lowerings : took(r, x, p, q)

OneName == \A x, y \in lowerings : x.name = y.name => x.from = y.from

IInv == TypeInv /\ ModuleInv /\ IndexInv /\ BatchInv /\ HoistInv /\ OneName

-----------------------------------------------------------------------------
LEMMA InitInv == Init => IInv
<1> SUFFICES ASSUME Init PROVE IInv
  OBVIOUS
<1> USE DEF Init, EmptyModule, EmptyIndex
<1>1. unit \in Units /\ records = {} /\ calls = {} /\ walked = {}
  OBVIOUS
<1>2. TypeInv
  <2>1. Len(top) \in Nat
    <3>1. 1 \in DOMAIN unit
      BY <1>1, UnitFacts DEF Tree
    <3>2. QED
      BY <1>1, <3>1, Positions DEF top
  <2>2. at \in 1 .. Len(top) + 1
    BY <2>1
  <2>3. QED
    BY <1>1, <2>2 DEF TypeInv, lowerings
<1>3. ModuleInv
  BY DEF ModuleInv
<1>4. IndexInv
  BY <1>1 DEF IndexInv, Defines, Aliases
<1>5. BatchInv /\ HoistInv /\ OneName
  BY <1>1 DEF BatchInv, HoistInv, OneName, lowerings
<1>6. QED
  BY <1>2, <1>3, <1>4, <1>5 DEF IInv

\* Moving on to the next top-level node: no batch of the index is there yet.
LEMMA MovesOn ==
    ASSUME IInv, at \in DOMAIN top
    PROVE  /\ at + 1 \in 1 .. Len(top) + 1
           /\ \A x \in lowerings : x.batch = NoName
           /\ top[at] \in DOMAIN unit
<1>1. 1 \in DOMAIN unit
  BY UnitFacts DEF IInv, TypeInv, Tree
<1>2. Len(top) \in Nat /\ DOMAIN top = 1 .. Len(top) /\ top[at] \in DOMAIN unit
  BY <1>1, Positions DEF IInv, TypeInv, top
<1>3. \A x \in lowerings : x.batch = NoName
  BY DEF IInv, BatchInv, Walked
<1>4. QED
  BY <1>2, <1>3

\* A declared name is a name, of one word.
LEMMA NameFacts ==
    /\ \A n \in Names : Len(n) \in Nat /\ (n # NoName <=> Len(n) >= 1)
    /\ \A n \in Seq(STRING) : n \in Names /\ (n # NoName /\ Len(n) <= 1 => Len(n) = 1)
    /\ \A n \in Names, k \in Nat : /\ synth(n, k) \in Names
                                    /\ Len(synth(n, k)) = Len(n) + 1
<1>1. \A n \in Names : Len(n) \in Nat /\ (n # NoName <=> Len(n) >= 1)
  BY DEF Names, NoName
<1>2. ASSUME NEW n \in Seq(STRING)
      PROVE  n \in Names /\ (n # NoName /\ Len(n) <= 1 => Len(n) = 1)
  <2>1. n \in [1 .. Len(n) -> STRING] /\ Len(n) \in Nat
    OBVIOUS
  <2>2. n \in [1 .. Len(n) -> STRING \cup Nat]
    BY <2>1
  <2>3. n # NoName /\ Len(n) <= 1 => Len(n) = 1
    <3> DEFINE k == Len(n)
    <3>1. k \in Nat /\ (n # NoName => k # 0)
      BY DEF NoName
    <3> HIDE DEF k
    <3>2. n # NoName /\ k <= 1 => k = 1
      BY <3>1
    <3>3. QED
      BY <3>2 DEF k
  <2>4. QED
    BY <2>1, <2>2, <2>3 DEF Names
<1>3. \A n \in Names, k \in Nat : synth(n, k) \in Names /\ Len(synth(n, k)) = Len(n) + 1
  BY DEF Names, synth
<1>4. QED
  BY <1>1, <1>2, <1>3

\* A synthesized name tells the member from every other.
LEMMA SynthInjective ==
    ASSUME NEW m \in Names, NEW n \in Names, NEW k \in Nat, NEW l \in Nat,
           synth(m, k) = synth(n, l)
    PROVE  m = n /\ k = l
<1> DEFINE T == STRING \cup Nat
<1>1. m \in Seq(T) /\ n \in Seq(T) /\ k \in T /\ l \in T
  BY DEF Names
<1> HIDE DEF T
<1>2. QED
  BY <1>1, AppendInjective DEF synth

\* A batch is started: for a record of the module, or an entry of the index.
LEMMA StartBatch ==
    ASSUME IInv, calls = {}, NEW c, calls' = {c}, c.anon = FALSE,
           UNCHANGED <<unit, module, records, walked, index>>,
           at' \in 1 .. Len(top) + 1,
           c.from \in DOMAIN unit, defined(unit[c.from], "record"),
           c.name \in Names, Len(c.name) = 1,
           \A x \in records \cup {c} : x.batch # NoName => at' \notin DOMAIN top /\ to_walk = {},
           Started(c),
           \A x \in records : x.name = c.name => x.from = c.from
    PROVE  IInv'
<1>1. lowerings' = records \cup {c} /\ lowerings = records
  BY DEF lowerings
<1>2. unit' = unit /\ top' = top /\ to_walk' = to_walk
  BY DEF top, to_walk
<1>3. TypeInv'
  <2>1. c.name # NoName /\ ~(Len(c.name) > 1) /\ c.anon \in BOOLEAN
    <3>1. c.name # NoName
      <4>1. Len(c.name) >= 1
        OBVIOUS
      <4>2. QED
        BY <4>1, NameFacts
    <3>2. ~(Len(c.name) > 1)
      OBVIOUS
    <3>3. c.anon \in BOOLEAN
      OBVIOUS
    <3>4. QED
      BY <3>1, <3>2, <3>3
  <2>2. \A x \in lowerings' :
          /\ x.from \in DOMAIN unit /\ defined(unit[x.from], "record")
          /\ x.name \in Names /\ x.name # NoName
          /\ x.anon \in BOOLEAN /\ (x.anon <=> Len(x.name) > 1)
    BY <1>1, <2>1 DEF IInv, TypeInv
  <2>3. \A r \in records' :
          r.fields = [p \in fields(unit, r.from) |-> lowered_field(unit, r, p)]
    BY DEF IInv, TypeInv
  <2>4. unit' \in Units /\ at' \in 1 .. Len(top') + 1 /\ walked' \in SUBSET DOMAIN unit'
    BY <1>2 DEF IInv, TypeInv
  <2>5. QED
    BY <1>2, <2>2, <2>3, <2>4 DEF TypeInv
<1>4. ModuleInv' /\ IndexInv'
  BY <1>2 DEF IInv, ModuleInv, IndexInv, Defines, Aliases
<1>5. BatchInv'
  <2>1. \A x \in lowerings' : x.batch # NoName => Walked'
    BY <1>1, <1>2 DEF Walked
  <2>2. \A x \in lowerings' : ~x.anon => Started(x)'
    BY <1>1, <1>2 DEF IInv, BatchInv, Started
  <2>3. \A x \in lowerings' : \E y \in lowerings' : y.batch = x.batch /\ ~y.anon
    BY <1>1 DEF IInv, BatchInv
  <2>4. QED
    BY <2>1, <2>2, <2>3 DEF BatchInv
<1>6. HoistInv'
  <2>1. \A r, x, p, q : took(r, x, p, q)' <=> took(r, x, p, q)
    BY <1>2 DEF took
  <2>2. \A x \in lowerings' : x.anon => x \in records
    BY <1>1
  <2>3. \A x \in lowerings' : x.anon => \E r \in records' :
            \E p, q \in DOMAIN unit'[r.from].inner : took(r, x, p, q)
    BY <1>1, <1>2, <2>2 DEF IInv, HoistInv
  <2>4. \A r \in records' : \A p, q \in DOMAIN unit'[r.from].inner :
            takes(unit', r.from, p, q) => \E x \in lowerings' : took(r, x, p, q)
    BY <1>1, <1>2 DEF IInv, HoistInv
  <2>5. QED
    BY <2>1, <2>3, <2>4 DEF HoistInv
<1>7. OneName'
  BY <1>1 DEF IInv, OneName
<1>8. QED
  BY <1>3, <1>4, <1>5, <1>6, <1>7 DEF IInv

LEMMA LowerRecordStep == IInv /\ LowerRecord => IInv'
<1> SUFFICES ASSUME IInv, LowerRecord PROVE IInv'
  OBVIOUS
<1> DEFINE node == child(unit, 1, at)
           c    == call(NoName, node.name, top[at], FALSE)
<1>1. /\ calls = {} /\ at \in DOMAIN top /\ at' = at + 1 /\ calls' = {c}
      /\ UNCHANGED <<unit, module, records, walked, index>>
      /\ tagged(node, "record")
  BY DEF LowerRecord, Lower
<1>2. /\ at' \in 1 .. Len(top) + 1 /\ top[at] \in DOMAIN unit
      /\ \A x \in records : x.batch = NoName
  BY <1>1, MovesOn DEF lowerings
<1>3. node = unit[top[at]] /\ unit \in Units
  BY DEF child, top, IInv, TypeInv
<1>5. c.from = top[at] /\ c.name = node.name /\ c.batch = NoName /\ c.anon = FALSE
  BY DEF call
<1> HIDE DEF c, node
<1>4. node.name \in Names /\ Len(node.name) = 1 /\ defined(node, "record")
  <2>1. node.kind = "record" /\ node.name # NoName /\ defined(node, "record")
    BY <1>1 DEF tagged, defined
  <2>2. node.name \in Seq(STRING) /\ Len(node.name) <= 1
    BY <1>2, <1>3, <2>1, UnitFacts DEF Declared
  <2>3. QED
    BY <2>1, <2>2, NameFacts
<1>6. Started(c)
  BY <1>1, <1>3, <1>5 DEF Started
<1>7. \A x \in records : x.name = c.name => x.from = c.from
  <2> SUFFICES ASSUME NEW x \in records, x.name = c.name PROVE x.from = c.from
    OBVIOUS
  <2>1. ~x.anon
    <3>1. x.anon <=> Len(x.name) > 1
      BY DEF IInv, TypeInv, lowerings
    <3>2. Len(x.name) = 1
      BY <1>4, <1>5
    <3>3. QED
      BY <3>1, <3>2
  <2>2. tagged(unit[x.from], "record") /\ unit[x.from].name = x.name /\ x.from \in DOMAIN unit
    BY <1>2, <2>1 DEF IInv, TypeInv, BatchInv, Started, lowerings
  <2>3. QED
    BY <1>1, <1>2, <1>3, <1>5, <2>2, UnitFacts DEF Declared
<1>8. QED
  BY <1>1, <1>2, <1>3, <1>4, <1>5, <1>6, <1>7, StartBatch

\* Any other top-level node adds to the module, or nothing.
LEMMA ModuleStep ==
    ASSUME IInv, at \in DOMAIN top, at' = at + 1,
           UNCHANGED <<unit, records, calls, walked, index>>, ModuleInv'
    PROVE  IInv'
<1>1. /\ at' \in 1 .. Len(top) + 1
      /\ \A x \in lowerings : x.batch = NoName
  BY MovesOn
<1>2. lowerings' = lowerings /\ unit' = unit /\ top' = top /\ to_walk' = to_walk
  BY DEF lowerings, top, to_walk
<1>3. TypeInv'
  <2>1. unit' \in Units /\ at' \in 1 .. Len(top') + 1 /\ walked' \in SUBSET DOMAIN unit'
    BY <1>1, <1>2 DEF IInv, TypeInv
  <2>2. QED
    BY <1>2, <2>1 DEF IInv, TypeInv
<1>4. IndexInv'
  BY <1>2 DEF IInv, IndexInv, Defines, Aliases
<1>5. BatchInv'
  <2>1. \A x \in lowerings' : ~x.anon => Started(x)'
    BY <1>1, <1>2 DEF IInv, BatchInv, Started
  <2>2. QED
    BY <1>1, <1>2, <2>1 DEF IInv, BatchInv
<1>6. HoistInv'
  <2>1. \A r, x, p, q : took(r, x, p, q)' <=> took(r, x, p, q)
    BY <1>2 DEF took
  <2>2. QED
    BY <1>2, <2>1 DEF IInv, HoistInv
<1>7. OneName'
  BY <1>2 DEF IInv, OneName
<1>8. QED
  BY <1>3, <1>4, <1>5, <1>6, <1>7 DEF IInv

LEMMA LowerOthersStep ==
    IInv /\ (LowerEnum \/ LowerTypedef \/ LowerFunction \/ SkipNode) => IInv'
<1> SUFFICES ASSUME IInv, LowerEnum \/ LowerTypedef \/ LowerFunction \/ SkipNode
             PROVE  IInv'
  OBVIOUS
<1> DEFINE node == child(unit, 1, at)
<1>1. /\ at \in DOMAIN top /\ at' = at + 1
      /\ UNCHANGED <<unit, records, calls, walked, index>>
  BY DEF LowerEnum, LowerTypedef, LowerFunction, SkipNode, Lower
<1>2. node = unit[top[at]] /\ top[at] \in DOMAIN unit /\ unit' = unit
  BY <1>1, MovesOn DEF child, top
<1> HIDE DEF node
<1>3. CASE LowerEnum
  <2>1. node.kind = "enum"
        /\ module' = [module EXCEPT !.enums = @ \cup {lower_enum(node)}]
    BY <1>3 DEF LowerEnum, Lower, node
  <2>2. ModuleInv'
    BY <1>2, <2>1 DEF IInv, ModuleInv
  <2>3. QED
    BY <1>1, <2>2, ModuleStep
<1>4. CASE LowerTypedef
  <2>1. node.kind = "typedef" /\ node.phnt
        /\ module' = [module EXCEPT !.typedefs = @ \cup {lower_typedef(node)}]
    BY <1>4 DEF LowerTypedef, Lower, node
  <2>2. ModuleInv'
    BY <1>2, <2>1 DEF IInv, ModuleInv
  <2>3. QED
    BY <1>1, <2>2, ModuleStep
<1>5. CASE LowerFunction
  <2>1. /\ node.kind = "function"
        /\ module' = IF node.body
                     THEN [module EXCEPT !.inline_functions = @ \cup {lower_function(node)}]
                     ELSE [module EXCEPT !.functions = @ \cup {lower_function(node)}]
    BY <1>5 DEF LowerFunction, Lower, node
  <2>2. ModuleInv'
    BY <1>2, <2>1 DEF IInv, ModuleInv
  <2>3. QED
    BY <1>1, <2>2, ModuleStep
<1>6. CASE SkipNode
  <2>1. ModuleInv'
    BY <1>2, <1>6 DEF SkipNode, IInv, ModuleInv
  <2>2. QED
    BY <1>1, <2>1, ModuleStep
<1>7. QED
  BY <1>3, <1>4, <1>5, <1>6

\* When nothing is left to walk, the whole unit was walked.
LEMMA AllWalked ==
    ASSUME IInv, to_walk = {}
    PROVE  walked = DOMAIN unit
<1>1. 1 \in walked /\ \A i \in walked : children(unit, i) \subseteq walked
  BY DEF to_walk, visits
<1>2. unit \in Units /\ walked \in SUBSET DOMAIN unit
  BY DEF IInv, TypeInv
<1>3. QED
  BY <1>1, <1>2, ReachesAll

\* A name that the closure asks for: no record of another declaration has it.
LEMMA AskedFor ==
    ASSUME IInv, NEW n \in Names, Len(n) = 1, Batch(n) = {}, calls = {}, NEW x \in records,
           x.name = n
    PROVE  tagged(unit[x.from], "record") /\ unit[x.from].name = n /\ x.from \in DOMAIN unit
<1>1. x \in lowerings
  BY DEF lowerings
<1>2. ~x.anon
  <2>1. x.anon <=> Len(n) > 1
    BY <1>1 DEF IInv, TypeInv
  <2>2. ~(Len(n) > 1)
    OBVIOUS
  <2>3. QED
    BY <2>1, <2>2, Zenon
<1>3. x.batch = NoName
  BY <1>1, <1>2 DEF IInv, BatchInv, Started, Batch
<1>4. QED
  BY <1>1, <1>2, <1>3 DEF IInv, TypeInv, BatchInv, Started

LEMMA PullRecordStep ==
    ASSUME IInv, NEW n \in DOMAIN index.rec_by_name, PullRecord(n)
    PROVE  IInv'
<1> DEFINE i == index.rec_by_name[n]
           c == call(n, unit[i].name, i, FALSE)
<1>1. /\ calls = {} /\ at \notin DOMAIN top /\ to_walk = {} /\ Batch(n) = {}
      /\ calls' = {c} /\ at' = at
      /\ UNCHANGED <<unit, module, records, walked, index>>
  BY DEF PullRecord, Indexed, Lowered
<1>2. i \in DOMAIN unit /\ tagged(unit[i], "record") /\ unit[i].name = n
  BY DEF IInv, IndexInv, Defines
<1>3. unit \in Units /\ at' \in 1 .. Len(top) + 1
  BY <1>1 DEF IInv, TypeInv
<1>4. c.from = i /\ c.name = n /\ c.batch = n /\ c.anon = FALSE
  BY <1>2 DEF call
<1>5. i = index.rec_by_name[n]
  OBVIOUS
<1> HIDE DEF i, c
<1>6. n \in Names /\ Len(n) = 1 /\ n # NoName /\ defined(unit[i], "record")
  <2>1. unit[i].kind = "record" /\ n # NoName /\ defined(unit[i], "record")
    BY <1>2 DEF tagged, defined
  <2>2. n \in Seq(STRING) /\ Len(n) <= 1
    BY <1>2, <1>3, <2>1, UnitFacts DEF Declared
  <2>3. QED
    BY <2>1, <2>2, NameFacts
<1>7. Started(c)
  BY <1>4, <1>5, <1>6 DEF Started
<1>8. \A x \in records : x.name = c.name => x.from = c.from
  <2> SUFFICES ASSUME NEW x \in records, x.name = n PROVE x.from = i
    BY <1>4
  <2>1. tagged(unit[x.from], "record") /\ unit[x.from].name = n /\ x.from \in DOMAIN unit
    BY <1>1, <1>6, AskedFor
  <2>2. QED
    BY <1>2, <1>3, <2>1, UnitFacts DEF Declared
<1>9. \A x \in records \cup {c} : x.batch # NoName => at' \notin DOMAIN top /\ to_walk = {}
  BY <1>1
<1>10. c.from \in DOMAIN unit /\ defined(unit[c.from], "record")
       /\ c.name \in Names /\ Len(c.name) = 1
  BY <1>2, <1>4, <1>6
<1>11. QED
  BY <1>1, <1>3, <1>4, <1>7, <1>8, <1>9, <1>10, StartBatch

LEMMA PullAnonRecordStep ==
    ASSUME IInv, NEW n \in DOMAIN index.anon_typedef_rec, PullAnonRecord(n)
    PROVE  IInv'
<1> DEFINE i == index.anon_typedef_rec[n]
           c == call(n, n, i, FALSE)
<1>1. /\ calls = {} /\ at \notin DOMAIN top /\ to_walk = {} /\ Batch(n) = {}
      /\ calls' = {c} /\ at' = at /\ n \notin DOMAIN index.rec_by_name
      /\ UNCHANGED <<unit, module, records, walked, index>>
  BY DEF PullAnonRecord, Indexed, Lowered
<1>2. PICK j \in DOMAIN unit : \E p \in aliases(unit, j, "record") :
        child(unit, j, p).name = n /\ i = unit[j].inner[previous(unit, j, p)]
  BY DEF IInv, IndexInv, Aliases
<1>3. PICK p \in aliases(unit, j, "record") :
        child(unit, j, p).name = n /\ i = unit[j].inner[previous(unit, j, p)]
  BY <1>2
<1>4. unit \in Units /\ at' \in 1 .. Len(top) + 1
  BY <1>1 DEF IInv, TypeInv
<1>5. c.from = i /\ c.name = n /\ c.batch = n /\ c.anon = FALSE
  BY DEF call
<1>6. i = index.anon_typedef_rec[n]
  OBVIOUS
<1> HIDE DEF i, c
<1>7. /\ p \in DOMAIN unit[j].inner /\ previous(unit, j, p) \in DOMAIN unit[j].inner
      /\ child(unit, j, p).kind = "typedef"
      /\ anonymous(child(unit, j, previous(unit, j, p)), "record")
  BY <1>3, <1>4, AliasLinked
<1>8. i \in DOMAIN unit /\ defined(unit[i], "record")
  BY <1>3, <1>4, <1>7, Positions DEF child, anonymous
<1>9. n \in Names /\ Len(n) = 1 /\ n # NoName
  <2> DEFINE k == unit[j].inner[p]
  <2>1. k \in DOMAIN unit /\ unit[k].kind = "typedef" /\ unit[k].name = n
    BY <1>3, <1>4, <1>7, Positions DEF child
  <2> HIDE DEF k
  <2>2. n \in Seq(STRING) /\ Len(n) = 1
    BY <1>4, <2>1, UnitFacts DEF Declared
  <2>3. n \in Names
    BY <2>2, NameFacts
  <2>4. Len(n) >= 1
    BY <2>2
  <2>5. QED
    BY <2>2, <2>3, <2>4, NameFacts
<1>10. Started(c)
  BY <1>1, <1>5, <1>6, <1>9 DEF Started
<1>11. \A x \in records : x.name = c.name => x.from = c.from
  <2> SUFFICES ASSUME NEW x \in records, x.name = n PROVE FALSE
    BY <1>5
  <2>1. tagged(unit[x.from], "record") /\ unit[x.from].name = n /\ x.from \in DOMAIN unit
    BY <1>1, <1>9, AskedFor
  <2>2. x.from \in walked
    BY <1>1, <2>1, AllWalked
  <2>3. QED
    BY <1>1, <2>1, <2>2 DEF IInv, IndexInv, Defines
<1>12. \A x \in records \cup {c} : x.batch # NoName => at' \notin DOMAIN top /\ to_walk = {}
  BY <1>1
<1>13. c.from \in DOMAIN unit /\ defined(unit[c.from], "record")
       /\ c.name \in Names /\ Len(c.name) = 1
  BY <1>5, <1>8, <1>9
<1>14. QED
  BY <1>1, <1>4, <1>5, <1>10, <1>11, <1>12, <1>13, StartBatch

\* A definition taken is one of the unit, and a call for it is made.
LEMMA TakesFacts ==
    ASSUME NEW u \in Units, NEW i \in DOMAIN u, NEW p, NEW q, takes(u, i, p, q)
    PROVE  /\ p \in DOMAIN u[i].inner /\ q \in DOMAIN u[i].inner
           /\ u[i].inner[q] \in DOMAIN u /\ defined(u[u[i].inner[q]], "record")
           /\ anon_idx(u, i, p) \in Nat
<1>1. p \in anon_fields(u, i) /\ q \in anon_defs(u, i)
  BY DEF takes
<1>2. p \in DOMAIN u[i].inner /\ q \in DOMAIN u[i].inner /\ p \in Nat
  BY <1>1, AnonPositions, Positions
<1>3. defined(u[u[i].inner[q]], "record")
  BY <1>1 DEF anon_defs, anonymous, child
<1>4. anon_idx(u, i, p) \in Nat
  BY <1>1, <1>2, AnonPositions, RankType DEF anon_idx
<1>5. QED
  BY <1>2, <1>3, <1>4, Positions

LEMMA HoistedFacts ==
    ASSUME NEW u \in Units, NEW c, c.from \in DOMAIN u
    PROVE  /\ \A x \in hoisted(u, c) : \E p, q \in DOMAIN u[c.from].inner :
                 /\ takes(u, c.from, p, q)
                 /\ x = call(c.batch, synth(c.name, anon_idx(u, c.from, p)), u[c.from].inner[q], TRUE)
           /\ \A p, q : takes(u, c.from, p, q) =>
                 call(c.batch, synth(c.name, anon_idx(u, c.from, p)), u[c.from].inner[q], TRUE)
                    \in hoisted(u, c)
<1>1. ASSUME NEW x \in hoisted(u, c)
      PROVE  \E p, q \in DOMAIN u[c.from].inner :
                 /\ takes(u, c.from, p, q)
                 /\ x = call(c.batch, synth(c.name, anon_idx(u, c.from, p)), u[c.from].inner[q], TRUE)
  <2>1. PICK pq \in anon_fields(u, c.from) \X anon_defs(u, c.from) :
            /\ takes(u, c.from, pq[1], pq[2])
            /\ x = call(c.batch, synth(c.name, anon_idx(u, c.from, pq[1])),
                        u[c.from].inner[pq[2]], TRUE)
    BY DEF hoisted
  <2>2. pq[1] \in DOMAIN u[c.from].inner /\ pq[2] \in DOMAIN u[c.from].inner
    BY <2>1, TakesFacts
  <2>3. QED
    BY <2>1, <2>2
<1>2. ASSUME NEW p, NEW q, takes(u, c.from, p, q)
      PROVE  call(c.batch, synth(c.name, anon_idx(u, c.from, p)), u[c.from].inner[q], TRUE)
                \in hoisted(u, c)
  <2>1. p \in anon_fields(u, c.from) /\ q \in anon_defs(u, c.from)
    BY <1>2 DEF takes
  <2>2. <<p, q>> \in {pq \in anon_fields(u, c.from) \X anon_defs(u, c.from) :
                         takes(u, c.from, pq[1], pq[2])}
    BY <1>2, <2>1
  <2>3. <<p, q>>[1] = p /\ <<p, q>>[2] = q
    OBVIOUS
  <2>4. QED
    BY <2>2, <2>3 DEF hoisted
<1>3. QED
  BY <1>1, <1>2

\* What one step of lower_record does to the lowerings: c becomes a record, and
\* what it hoists is called for.
LEMMA OneLowered ==
    ASSUME IInv, NEW c \in calls, lower_record(c)
    PROVE  LET r == lowered_record(unit, c)
           IN  /\ unit' = unit /\ top' = top /\ to_walk' = to_walk
               /\ at' = at /\ module' = module /\ walked' = walked /\ index' = index
               /\ records' = records \cup {r}
               /\ \A x \in lowerings' : x \in lowerings \/ x = r \/ x \in hoisted(unit, c)
               /\ \A x \in lowerings : x = c \/ x \in lowerings'
               /\ r \in lowerings' /\ hoisted(unit, c) \subseteq lowerings'
               /\ r.batch = c.batch /\ r.name = c.name /\ r.from = c.from /\ r.anon = c.anon
               /\ r.fields = [p \in fields(unit, r.from) |-> lowered_field(unit, r, p)]
               /\ c \in lowerings /\ c.from \in DOMAIN unit /\ unit \in Units
<1> DEFINE r == lowered_record(unit, c)
<1>1. /\ records' = records \cup {r} /\ calls' = (calls \ {c}) \cup hoisted(unit, c)
      /\ UNCHANGED <<unit, at, module, walked, index>>
  BY DEF lower_record
<1>2. r.batch = c.batch /\ r.name = c.name /\ r.from = c.from /\ r.anon = c.anon
      /\ r.fields = [p \in fields(unit, c.from) |-> lowered_field(unit, c, p)]
  BY DEF lowered_record
<1> HIDE DEF r
<1>3. r.fields = [p \in fields(unit, r.from) |-> lowered_field(unit, r, p)]
  BY <1>2 DEF lowered_field
<1>4. /\ \A x \in lowerings' : x \in lowerings \/ x = r \/ x \in hoisted(unit, c)
      /\ \A x \in lowerings : x = c \/ x \in lowerings'
      /\ r \in lowerings' /\ hoisted(unit, c) \subseteq lowerings'
  BY <1>1 DEF lowerings
<1>5. unit' = unit /\ top' = top /\ to_walk' = to_walk
  BY <1>1 DEF top, to_walk
<1>6. c \in lowerings /\ c.from \in DOMAIN unit /\ unit \in Units
  BY DEF IInv, TypeInv, lowerings
<1>7. QED
  BY <1>1, <1>2, <1>3, <1>4, <1>5, <1>6 DEF r

LEMMA LowerOneStep ==
    ASSUME IInv, NEW c \in calls, lower_record(c)
    PROVE  IInv'
<1> DEFINE r == lowered_record(unit, c)
           H == hoisted(unit, c)
<1>1. /\ unit' = unit /\ top' = top /\ to_walk' = to_walk
      /\ at' = at /\ module' = module /\ walked' = walked /\ index' = index
      /\ records' = records \cup {r}
      /\ \A x \in lowerings' : x \in lowerings \/ x = r \/ x \in H
      /\ \A x \in lowerings : x = c \/ x \in lowerings'
      /\ r \in lowerings' /\ H \subseteq lowerings'
      /\ c \in lowerings /\ c.from \in DOMAIN unit /\ unit \in Units
  BY OneLowered
<1>2. /\ r.batch = c.batch /\ r.name = c.name /\ r.from = c.from /\ r.anon = c.anon
      /\ r.fields = [p \in fields(unit, r.from) |-> lowered_field(unit, r, p)]
  BY OneLowered
<1>3. \A x \in H : \E p, q \in DOMAIN unit[c.from].inner :
        /\ takes(unit, c.from, p, q) /\ x.anon = TRUE /\ x.batch = c.batch
        /\ x.name = synth(c.name, anon_idx(unit, c.from, p))
        /\ x.from = unit[c.from].inner[q]
  BY <1>1, HoistedFacts DEF call
<1>4. \A p, q : takes(unit, c.from, p, q) => \E x \in H :
        /\ x.anon = TRUE /\ x.batch = c.batch
        /\ x.name = synth(c.name, anon_idx(unit, c.from, p))
        /\ x.from = unit[c.from].inner[q]
  <2> SUFFICES ASSUME NEW p, NEW q, takes(unit, c.from, p, q)
               PROVE  \E x \in H :
                          /\ x.anon = TRUE /\ x.batch = c.batch
                          /\ x.name = synth(c.name, anon_idx(unit, c.from, p))
                          /\ x.from = unit[c.from].inner[q]
    OBVIOUS
  <2> DEFINE x == call(c.batch, synth(c.name, anon_idx(unit, c.from, p)),
                       unit[c.from].inner[q], TRUE)
  <2>1. x \in H
    BY <1>1, HoistedFacts
  <2>2. /\ x.anon = TRUE /\ x.batch = c.batch
        /\ x.name = synth(c.name, anon_idx(unit, c.from, p))
        /\ x.from = unit[c.from].inner[q]
    BY DEF call
  <2>3. QED
    BY <2>1, <2>2
<1>5. c.name \in Names /\ Len(c.name) \in Nat /\ Len(c.name) >= 1
  BY <1>1, NameFacts DEF IInv, TypeInv
<1> HIDE DEF r, H
<1>6. TypeInv'
  <2>1. ASSUME NEW x \in H
        PROVE  /\ x.from \in DOMAIN unit /\ defined(unit[x.from], "record")
               /\ x.name \in Names /\ x.name # NoName
               /\ x.anon \in BOOLEAN /\ (x.anon <=> Len(x.name) > 1)
    <3>1. PICK p, q \in DOMAIN unit[c.from].inner :
            /\ takes(unit, c.from, p, q) /\ x.anon = TRUE
            /\ x.name = synth(c.name, anon_idx(unit, c.from, p))
            /\ x.from = unit[c.from].inner[q]
      BY <1>3, <2>1
    <3>2. /\ x.from \in DOMAIN unit /\ defined(unit[x.from], "record")
          /\ anon_idx(unit, c.from, p) \in Nat
      BY <1>1, <3>1, TakesFacts
    <3>3. x.name \in Names /\ Len(x.name) = Len(c.name) + 1
      BY <1>5, <3>1, <3>2, NameFacts
    <3>4. Len(x.name) > 1 /\ Len(x.name) >= 1
      BY <1>5, <3>3
    <3>5. x.name # NoName
      BY <3>3, <3>4, NameFacts
    <3>6. x.anon \in BOOLEAN /\ x.anon
      BY <3>1
    <3>7. QED
      BY <3>2, <3>3, <3>4, <3>5, <3>6
  <2>2. \A x \in lowerings' :
          /\ x.from \in DOMAIN unit /\ defined(unit[x.from], "record")
          /\ x.name \in Names /\ x.name # NoName
          /\ x.anon \in BOOLEAN /\ (x.anon <=> Len(x.name) > 1)
    <3> SUFFICES ASSUME NEW x \in lowerings'
                 PROVE  /\ x.from \in DOMAIN unit /\ defined(unit[x.from], "record")
                        /\ x.name \in Names /\ x.name # NoName
                        /\ x.anon \in BOOLEAN /\ (x.anon <=> Len(x.name) > 1)
      OBVIOUS
    <3>1. CASE x \in lowerings
      BY <3>1 DEF IInv, TypeInv
    <3>2. CASE x = r
      BY <1>1, <1>2, <3>2 DEF IInv, TypeInv
    <3>3. QED
      BY <1>1, <2>1, <3>1, <3>2
  <2>3. \A s \in records' :
          s.fields = [p \in fields(unit, s.from) |-> lowered_field(unit, s, p)]
    BY <1>1, <1>2 DEF IInv, TypeInv
  <2>4. unit' \in Units /\ at' \in 1 .. Len(top') + 1 /\ walked' \in SUBSET DOMAIN unit'
    BY <1>1 DEF IInv, TypeInv
  <2>5. QED
    BY <1>1, <2>2, <2>3, <2>4 DEF TypeInv
<1>7. ModuleInv' /\ IndexInv'
  BY <1>1 DEF IInv, ModuleInv, IndexInv, Defines, Aliases
<1>8. BatchInv'
  <2>1. \A x \in lowerings' : \E z \in lowerings : x.batch = z.batch
    BY <1>1, <1>2, <1>3
  <2>2. \A x \in lowerings' : x.batch # NoName => Walked'
    BY <1>1, <2>1 DEF IInv, BatchInv, Walked
  <2>3. \A x \in lowerings' : ~x.anon => Started(x)'
    <3> SUFFICES ASSUME NEW x \in lowerings', ~x.anon PROVE Started(x)'
      OBVIOUS
    <3>1. \A z : Started(z)' <=> Started(z)
      BY <1>1 DEF Started
    <3>2. x \notin H
      BY <1>3
    <3>3. CASE x \in lowerings
      BY <3>1, <3>3 DEF IInv, BatchInv
    <3>4. CASE x = r
      <4>1. Started(c)
        BY <1>1, <1>2, <3>4 DEF IInv, BatchInv
      <4>2. QED
        BY <1>2, <3>1, <3>4, <4>1 DEF Started
    <3>5. QED
      BY <1>1, <3>2, <3>3, <3>4
  <2>4. \A x \in lowerings' : \E y \in lowerings' : y.batch = x.batch /\ ~y.anon
    <3> SUFFICES ASSUME NEW x \in lowerings'
                 PROVE  \E y \in lowerings' : y.batch = x.batch /\ ~y.anon
      OBVIOUS
    <3>1. PICK y \in lowerings : y.batch = x.batch /\ ~y.anon
      BY <2>1 DEF IInv, BatchInv
    <3>2. QED
      BY <1>1, <1>2, <3>1
  <2>5. QED
    BY <2>2, <2>3, <2>4 DEF BatchInv
<1>9. HoistInv'
  <2>1. \A s, x, p, q : took(s, x, p, q)' <=> took(s, x, p, q)
    BY <1>1 DEF took
  <2>2. ASSUME NEW x \in lowerings', x.anon
        PROVE  \E s \in records' : \E p, q \in DOMAIN unit[s.from].inner : took(s, x, p, q)
    <3>1. CASE x \in lowerings
      BY <1>1, <2>2, <3>1 DEF IInv, HoistInv
    <3>2. CASE x = r
      <4>1. PICK s \in records : \E p, q \in DOMAIN unit[s.from].inner : took(s, c, p, q)
        BY <1>1, <1>2, <2>2, <3>2 DEF IInv, HoistInv
      <4>2. \A p, q : took(s, c, p, q) => took(s, x, p, q)
        BY <1>2, <3>2 DEF took
      <4>3. QED
        BY <1>1, <4>1, <4>2
    <3>3. CASE x \in H
      <4>1. PICK p, q \in DOMAIN unit[c.from].inner :
              /\ takes(unit, c.from, p, q) /\ x.anon = TRUE /\ x.batch = c.batch
              /\ x.name = synth(c.name, anon_idx(unit, c.from, p))
              /\ x.from = unit[c.from].inner[q]
        BY <1>3, <3>3
      <4>2. took(r, x, p, q)
        BY <1>2, <4>1 DEF took
      <4>3. QED
        BY <1>1, <1>2, <4>2
    <3>4. QED
      BY <1>1, <3>1, <3>2, <3>3
  <2>3. ASSUME NEW s \in records', NEW p \in DOMAIN unit[s.from].inner,
               NEW q \in DOMAIN unit[s.from].inner, takes(unit, s.from, p, q)
        PROVE  \E x \in lowerings' : took(s, x, p, q)
    <3>1. CASE s \in records
      <4>1. PICK x \in lowerings : took(s, x, p, q)
        BY <2>3, <3>1 DEF IInv, HoistInv
      <4>2. x = c => took(s, r, p, q)
        BY <1>2, <4>1 DEF took
      <4>3. QED
        BY <1>1, <4>1, <4>2
    <3>2. CASE s = r
      <4>1. takes(unit, c.from, p, q)
        BY <1>2, <2>3, <3>2
      <4>2. PICK x \in H :
              /\ x.anon = TRUE /\ x.batch = c.batch
              /\ x.name = synth(c.name, anon_idx(unit, c.from, p))
              /\ x.from = unit[c.from].inner[q]
        BY <1>4, <4>1
      <4>3. took(s, x, p, q)
        BY <1>2, <3>2, <4>1, <4>2 DEF took
      <4>4. QED
        BY <1>1, <4>3
    <3>3. QED
      BY <1>1, <3>1, <3>2
  <2>4. QED
    BY <1>1, <2>1, <2>2, <2>3 DEF HoistInv
<1>10. OneName'
  <2> SUFFICES ASSUME NEW x \in lowerings', NEW y \in lowerings', x.name = y.name
               PROVE  x.from = y.from
    BY DEF OneName
  <2>1. \A z \in lowerings' : z \in H \/ \E w \in lowerings : w.name = z.name /\ w.from = z.from
    BY <1>1, <1>2
  <2>2. /\ x.anon <=> Len(x.name) > 1
        /\ y.anon <=> Len(x.name) > 1
    BY <1>6 DEF TypeInv
  <2>3. CASE ~x.anon
    <3>1. x \notin H /\ y \notin H
      BY <1>3, <2>2, <2>3
    <3>2. QED
      BY <2>1, <3>1 DEF IInv, OneName
  <2>4. CASE x.anon
    <3>1. y.anon
      BY <2>2, <2>4
    <3>2. \A s, z, p, q : took(s, z, p, q)' <=> took(s, z, p, q)
      BY <1>1 DEF took
    <3>3. PICK s \in records' : \E p, q \in DOMAIN unit[s.from].inner : took(s, x, p, q)
      BY <1>1, <1>9, <2>4, <3>2 DEF HoistInv
    <3>4. PICK p, q \in DOMAIN unit[s.from].inner : took(s, x, p, q)
      BY <3>3
    <3>5. PICK t \in records' : \E k, l \in DOMAIN unit[t.from].inner : took(t, y, k, l)
      BY <1>1, <1>9, <3>1, <3>2 DEF HoistInv
    <3>6. PICK k, l \in DOMAIN unit[t.from].inner : took(t, y, k, l)
      BY <3>5
    <3>7. /\ s.name \in Names /\ t.name \in Names
          /\ s.from \in DOMAIN unit /\ t.from \in DOMAIN unit
          /\ \E w \in lowerings : w.name = s.name /\ w.from = s.from
          /\ \E w \in lowerings : w.name = t.name /\ w.from = t.from
      BY <1>1, <1>2 DEF lowerings, IInv, TypeInv
    <3>8. /\ takes(unit, s.from, p, q) /\ takes(unit, t.from, k, l)
          /\ synth(s.name, anon_idx(unit, s.from, p)) = synth(t.name, anon_idx(unit, t.from, k))
          /\ x.from = unit[s.from].inner[q] /\ y.from = unit[t.from].inner[l]
      BY <3>4, <3>6 DEF took
    <3>9. anon_idx(unit, s.from, p) \in Nat /\ anon_idx(unit, t.from, k) \in Nat
      BY <1>1, <3>7, <3>8, TakesFacts
    <3>10. s.name = t.name /\ anon_idx(unit, s.from, p) = anon_idx(unit, t.from, k)
      BY <3>7, <3>8, <3>9, SynthInjective
    <3>11. s.from = t.from
      BY <3>7, <3>10 DEF IInv, OneName
    <3>12. q = l
      BY <1>1, <3>7, <3>8, <3>10, <3>11, TakesOne
    <3>13. QED
      BY <3>8, <3>11, <3>12
  <2>5. QED
    BY <2>3, <2>4
<1>11. QED
  BY <1>6, <1>7, <1>8, <1>9, <1>10 DEF IInv

LEMMA OrInsertFacts ==
    ASSUME NEW f, NEW g
    PROVE  /\ DOMAIN or_insert(f, g) = DOMAIN f \cup DOMAIN g
           /\ \A n \in DOMAIN or_insert(f, g) :
                 \/ n \in DOMAIN f /\ or_insert(f, g)[n] = f[n]
                 \/ n \in DOMAIN g /\ or_insert(f, g)[n] = g[n]
  BY DEF or_insert

LEMMA DefinesStep ==
    ASSUME NEW u \in Units, NEW i \in DOMAIN u, NEW kind, NEW seen, NEW map,
           Defines(u, seen, map, kind)
    PROVE  Defines(u, seen \cup {i}, or_insert(map, defines(u, i, kind)), kind)
<1> DEFINE g == defines(u, i, kind)
           h == or_insert(map, g)
<1>1. /\ \A n \in DOMAIN g : g[n] = i /\ tagged(u[i], kind) /\ u[i].name = n
      /\ tagged(u[i], kind) => u[i].name \in DOMAIN g
  BY DEF defines
<1> HIDE DEF g
<1>2. /\ DOMAIN h = DOMAIN map \cup DOMAIN g
      /\ \A n \in DOMAIN h : (n \in DOMAIN map /\ h[n] = map[n]) \/ (n \in DOMAIN g /\ h[n] = g[n])
  BY OrInsertFacts
<1> HIDE DEF h
<1>3. Defines(u, seen \cup {i}, h, kind)
  BY <1>1, <1>2 DEF Defines
<1>4. QED
  BY <1>3 DEF g, h

LEMMA AliasesStep ==
    ASSUME NEW u \in Units, NEW i \in DOMAIN u, NEW kind, NEW seen, NEW map,
           Aliases(u, seen, map, kind)
    PROVE  Aliases(u, seen \cup {i}, or_insert(map, pairs(u, i, kind)), kind)
<1> DEFINE g == pairs(u, i, kind)
           h == or_insert(map, g)
<1>1. /\ \A p \in aliases(u, i, kind) : child(u, i, p).name \in DOMAIN g
      /\ \A n \in DOMAIN g : \E p \in aliases(u, i, kind) :
            child(u, i, p).name = n /\ g[n] = u[i].inner[previous(u, i, p)]
  <2>1. \A p \in aliases(u, i, kind) : child(u, i, p).name \in DOMAIN pairs(u, i, kind)
    BY PairsFacts
  <2>2. \A n \in DOMAIN pairs(u, i, kind) :
            \E p \in aliases(u, i, kind) :
                child(u, i, p).name = n /\ pairs(u, i, kind)[n] = u[i].inner[previous(u, i, p)]
    BY PairsFacts
  <2>3. QED
    BY <2>1, <2>2
<1> HIDE DEF g
<1>2. /\ DOMAIN h = DOMAIN map \cup DOMAIN g
      /\ \A n \in DOMAIN h : (n \in DOMAIN map /\ h[n] = map[n]) \/ (n \in DOMAIN g /\ h[n] = g[n])
  BY OrInsertFacts
<1> HIDE DEF h
<1>3. \A n \in DOMAIN h : \E k \in DOMAIN u : \E p \in aliases(u, k, kind) :
        child(u, k, p).name = n /\ h[n] = u[k].inner[previous(u, k, p)]
  <2> SUFFICES ASSUME NEW n \in DOMAIN h
               PROVE  \E k \in DOMAIN u : \E p \in aliases(u, k, kind) :
                          child(u, k, p).name = n /\ h[n] = u[k].inner[previous(u, k, p)]
    OBVIOUS
  <2>1. CASE n \in DOMAIN map /\ h[n] = map[n]
    BY <2>1 DEF Aliases
  <2>2. CASE n \in DOMAIN g /\ h[n] = g[n]
    BY <1>1, <2>2
  <2>3. QED
    BY <1>2, <2>1, <2>2
<1>4. \A k \in seen \cup {i} : \A p \in aliases(u, k, kind) : child(u, k, p).name \in DOMAIN h
  BY <1>1, <1>2 DEF Aliases
<1>5. Aliases(u, seen \cup {i}, h, kind)
  BY <1>3, <1>4 DEF Aliases
<1>6. QED
  BY <1>5 DEF g, h

LEMMA WalkStep == IInv /\ Walk => IInv'
<1> SUFFICES ASSUME IInv, Walk PROVE IInv'
  OBVIOUS
<1> DEFINE i == Min(to_walk)
<1>1. /\ to_walk # {} /\ walked' = walked \cup {i}
      /\ index' =
            [rec_by_name       |-> or_insert(index.rec_by_name, defines(unit, i, "record")),
             enum_by_name      |-> or_insert(index.enum_by_name, defines(unit, i, "enum")),
             typedef_by_name   |-> or_insert(index.typedef_by_name, defines(unit, i, "typedef")),
             anon_typedef_rec  |-> or_insert(index.anon_typedef_rec, pairs(unit, i, "record")),
             anon_typedef_enum |-> or_insert(index.anon_typedef_enum, pairs(unit, i, "enum"))]
      /\ UNCHANGED <<unit, at, module, records, calls>>
  BY DEF Walk
<1>2. lowerings' = lowerings /\ unit' = unit /\ top' = top /\ unit \in Units
  BY <1>1 DEF lowerings, top, IInv, TypeInv
<1>3. i \in DOMAIN unit
  <2>1. to_walk \in SUBSET DOMAIN unit
    <3>1. 1 \in DOMAIN unit
      BY <1>2, UnitFacts DEF Tree
    <3>2. \A k \in walked : visits(unit, k) \subseteq DOMAIN unit
      BY <1>2, Positions DEF visits, children, IInv, TypeInv
    <3>3. QED
      BY <3>1, <3>2 DEF to_walk
  <2>2. DOMAIN unit \in SUBSET Nat
    BY <1>2, UnitFacts DEF Tree
  <2>3. QED
    BY <1>1, <2>1, <2>2, MinOfNaturals
<1> HIDE DEF i
<1>4. TypeInv'
  BY <1>1, <1>2, <1>3 DEF IInv, TypeInv
<1>5. ModuleInv'
  BY <1>1 DEF IInv, ModuleInv
<1>6. IndexInv'
  <2>1. Defines(unit, walked', index'.rec_by_name, "record")
    BY <1>1, <1>2, <1>3, DefinesStep DEF IInv, IndexInv
  <2>2. Defines(unit, walked', index'.enum_by_name, "enum")
    BY <1>1, <1>2, <1>3, DefinesStep DEF IInv, IndexInv
  <2>3. Defines(unit, walked', index'.typedef_by_name, "typedef")
    BY <1>1, <1>2, <1>3, DefinesStep DEF IInv, IndexInv
  <2>4. Aliases(unit, walked', index'.anon_typedef_rec, "record")
    BY <1>1, <1>2, <1>3, AliasesStep DEF IInv, IndexInv
  <2>5. Aliases(unit, walked', index'.anon_typedef_enum, "enum")
    BY <1>1, <1>2, <1>3, AliasesStep DEF IInv, IndexInv
  <2>6. QED
    BY <1>2, <2>1, <2>2, <2>3, <2>4, <2>5 DEF IndexInv
\* No batch of the index is there before the walk has ended.
<1>7. BatchInv'
  <2>1. \A x \in lowerings : x.batch = NoName
    BY <1>1 DEF IInv, BatchInv, Walked
  <2>2. \A x \in lowerings' : ~x.anon => Started(x)'
    BY <1>2, <2>1 DEF IInv, BatchInv, Started
  <2>3. QED
    BY <1>2, <2>1, <2>2 DEF IInv, BatchInv
<1>8. HoistInv'
  <2>1. \A r, x, p, q : took(r, x, p, q)' <=> took(r, x, p, q)
    BY <1>2 DEF took
  <2>2. QED
    BY <1>1, <1>2, <2>1 DEF IInv, HoistInv
<1>9. OneName'
  BY <1>2 DEF IInv, OneName
<1>10. QED
  BY <1>4, <1>5, <1>6, <1>7, <1>8, <1>9 DEF IInv

LEMMA NextInv == IInv /\ [Next]_vars => IInv'
<1> SUFFICES ASSUME IInv, [Next]_vars PROVE IInv'
  OBVIOUS
<1>1. CASE LowerRecord
  BY <1>1, LowerRecordStep
<1>2. CASE LowerEnum \/ LowerTypedef \/ LowerFunction \/ SkipNode
  BY <1>2, LowerOthersStep
<1>3. CASE \E c \in calls : lower_record(c)
  BY <1>3, LowerOneStep
<1>4. CASE Walk
  BY <1>4, WalkStep
<1>5. CASE \E n \in DOMAIN index.rec_by_name : PullRecord(n)
  BY <1>5, PullRecordStep
<1>6. CASE \E n \in DOMAIN index.anon_typedef_rec : PullAnonRecord(n)
  BY <1>6, PullAnonRecordStep
<1>7. CASE UNCHANGED vars
  <2>1. /\ unit' = unit /\ at' = at /\ module' = module /\ records' = records
        /\ calls' = calls /\ walked' = walked /\ index' = index
    BY <1>7 DEF vars
  <2>2. lowerings' = lowerings /\ top' = top /\ to_walk' = to_walk
    BY <2>1 DEF lowerings, top, to_walk
  <2>3. TypeInv' /\ ModuleInv' /\ IndexInv' /\ OneName'
    BY <2>1, <2>2 DEF IInv, TypeInv, ModuleInv, IndexInv, OneName
  <2>4. BatchInv'
    BY <2>1, <2>2 DEF IInv, BatchInv, Walked, Started
  <2>5. HoistInv'
    <3>1. \A r, x, p, q : took(r, x, p, q)' <=> took(r, x, p, q)
      BY <2>1 DEF took
    <3>2. QED
      BY <2>1, <2>2, <3>1 DEF IInv, HoistInv
  <2>6. QED
    BY <2>3, <2>4, <2>5 DEF IInv
<1>8. QED
  BY <1>1, <1>2, <1>3, <1>4, <1>5, <1>6, <1>7 DEF Next

THEOREM Invariance == Spec => []IInv
<1>1. QED
  BY InitInv, NextInv, PTL DEF Spec

-----------------------------------------------------------------------------
(* What follows from the invariant.                                        *)

\* Whatever the dump declares, every record lowered is a complete one under a
\* name, a longer one if it was hoisted, and the index maps names to definitions
\* of those names.
THEOREM TypeCorrect == Spec => []TypeOK
<1>1. IInv => TypeOK
  <2> SUFFICES ASSUME IInv PROVE TypeOK
    OBVIOUS
  <2>1. unit \in Units /\ at \in 1 .. Len(top) + 1 /\ walked \subseteq DOMAIN unit
    BY DEF IInv, TypeInv
  <2>2. \A r \in records \cup calls :
          /\ r.name # NoName /\ (r.anon <=> Len(r.name) > 1)
          /\ r.from \in DOMAIN unit /\ unit[r.from].kind = "record" /\ unit[r.from].complete
    BY DEF IInv, TypeInv, lowerings, defined
  <2>3. /\ \A n \in DOMAIN index.rec_by_name :
              index.rec_by_name[n] \in DOMAIN unit /\ tagged(unit[index.rec_by_name[n]], "record")
              /\ unit[index.rec_by_name[n]].name = n
        /\ \A n \in DOMAIN index.enum_by_name :
              index.enum_by_name[n] \in DOMAIN unit /\ unit[index.enum_by_name[n]].kind = "enum"
              /\ unit[index.enum_by_name[n]].name = n
    BY DEF IInv, IndexInv, Defines, tagged, defined
  <2>4. ASSUME NEW n \in DOMAIN index.anon_typedef_rec
        PROVE  index.anon_typedef_rec[n] \in DOMAIN unit
               /\ anonymous(unit[index.anon_typedef_rec[n]], "record")
    <3>1. PICK j \in DOMAIN unit : \E p \in aliases(unit, j, "record") :
            index.anon_typedef_rec[n] = unit[j].inner[previous(unit, j, p)]
      BY DEF IInv, IndexInv, Aliases
    <3>2. PICK p \in aliases(unit, j, "record") :
            index.anon_typedef_rec[n] = unit[j].inner[previous(unit, j, p)]
      BY <3>1
    <3>3. QED
      BY <2>1, <3>2, AliasLinked, Positions DEF child
  <2>5. QED
    BY <2>1, <2>2, <2>3, <2>4 DEF TypeOK
<1>2. QED
  BY <1>1, Invariance, PTL

\* Two records of one name come from one declaration, in the module and in all
\* that the closure asked for together.
THEOREM NamesAreUnique == Spec => []OneRecordPerName
<1>1. IInv => OneRecordPerName
  BY DEF IInv, OneName, OneRecordPerName, lowerings
<1>2. QED
  BY <1>1, Invariance, PTL

\* Once the walk has ended, every complete struct is indexed under its tag.
THEOREM StructsAreIndexed == Spec => []IndexFindsRecords
<1>1. IInv => IndexFindsRecords
  <2> SUFFICES ASSUME IInv, Indexed, NEW i \in DOMAIN unit, tagged(unit[i], "record")
               PROVE  /\ unit[i].name \in DOMAIN index.rec_by_name
                      /\ index.rec_by_name[unit[i].name] = i
    BY DEF IndexFindsRecords
  <2>1. walked = DOMAIN unit /\ unit \in Units
    BY AllWalked DEF Indexed, IInv, TypeInv
  <2>2. unit[i].name \in DOMAIN index.rec_by_name
    BY <2>1 DEF IInv, IndexInv, Defines
  <2> DEFINE j == index.rec_by_name[unit[i].name]
  <2>3. j \in DOMAIN unit /\ tagged(unit[j], "record") /\ unit[j].name = unit[i].name
    BY <2>2 DEF IInv, IndexInv, Defines
  <2> HIDE DEF j
  <2>4. j = i
    BY <2>1, <2>3, UnitFacts DEF Declared
  <2>5. QED
    BY <2>2, <2>4 DEF j
<1>2. QED
  BY <1>1, Invariance, PTL

\* An entry for an alias of a name is the definition that clang names after it.
LEMMA LinkageFound ==
    ASSUME NEW u \in Units, NEW kind \in {"record", "enum"}, NEW map,
           Aliases(u, DOMAIN u, map, kind),
           NEW k \in DOMAIN u, NEW p \in aliases(u, k, kind)
    PROVE  LET t == child(u, k, p)
           IN  t.name \in DOMAIN map /\ Linked(t.type) = {u[map[t.name]].loc}
<1> DEFINE t == child(u, k, p)
<1>1. t.name \in DOMAIN map
  BY DEF Aliases
<1>2. PICK j \in DOMAIN u : \E r \in aliases(u, j, kind) :
        child(u, j, r).name = t.name /\ map[t.name] = u[j].inner[previous(u, j, r)]
  BY <1>1 DEF Aliases
<1>3. PICK r \in aliases(u, j, kind) :
        child(u, j, r).name = t.name /\ map[t.name] = u[j].inner[previous(u, j, r)]
  BY <1>2
<1>4. /\ r \in DOMAIN u[j].inner /\ child(u, j, r).kind = "typedef"
      /\ Linked(child(u, j, r).type) = {child(u, j, previous(u, j, r)).loc}
  BY AliasLinked
<1>5. p \in DOMAIN u[k].inner /\ t.kind = "typedef"
  BY AliasLinked
<1>6. Linked(t.type) = Linked(child(u, j, r).type)
  <2>1. u[j].inner[r] \in DOMAIN u /\ u[k].inner[p] \in DOMAIN u
    BY <1>4, <1>5, Positions
  <2>2. QED
    BY <1>3, <1>4, <1>5, <2>1, UnitFacts DEF Declared, child
<1>7. QED
  BY <1>1, <1>3, <1>4, <1>6 DEF child

\* Once the walk has ended, a definition that clang names after a typedef is
\* found under the typedef's name.
THEOREM LinkagesAreFound == Spec => []LinkageNamesFound
<1>1. IInv => LinkageNamesFound
  <2> SUFFICES ASSUME IInv, Indexed, NEW i \in DOMAIN unit, unit[i].kind = "typedef",
                      Linked(unit[i].type) # {}
               PROVE  LET n == unit[i].name
                      IN  \/ /\ n \in DOMAIN index.anon_typedef_rec
                             /\ Linked(unit[i].type) = {unit[index.anon_typedef_rec[n]].loc}
                          \/ /\ n \in DOMAIN index.anon_typedef_enum
                             /\ Linked(unit[i].type) = {unit[index.anon_typedef_enum[n]].loc}
    BY DEF LinkageNamesFound
  <2>1. walked = DOMAIN unit /\ unit \in Units
    BY AllWalked DEF Indexed, IInv, TypeInv
  <2>2. PICK k \in DOMAIN unit : i \in children(unit, k)
    BY <2>1, UnitFacts DEF Tree
  <2>3. PICK p \in DOMAIN unit[k].inner : child(unit, k, p) = unit[i]
    BY <2>2 DEF children, child
  <2>4. p \in aliases(unit, k, "record") \cup aliases(unit, k, "enum")
    BY <2>1, <2>3, LinkedIsAlias
  <2>5. CASE p \in aliases(unit, k, "record")
    <3>1. Aliases(unit, DOMAIN unit, index.anon_typedef_rec, "record")
      BY <2>1 DEF IInv, IndexInv
    <3>2. QED
      BY <2>1, <2>3, <2>5, <3>1, LinkageFound
  <2>6. CASE p \in aliases(unit, k, "enum")
    <3>1. Aliases(unit, DOMAIN unit, index.anon_typedef_enum, "enum")
      BY <2>1 DEF IInv, IndexInv
    <3>2. QED
      BY <2>1, <2>3, <2>6, <3>1, LinkageFound
  <2>7. QED
    BY <2>4, <2>5, <2>6
<1>2. QED
  BY <1>1, Invariance, PTL

\* In a record whose anonymous members are each declared right after their own
\* definition, however many there are, every anonymous field refers to the record
\* hoisted from that definition.
THEOREM MembersAreOwn == Spec => []AnonymousFieldsAreOwn
<1>1. IInv => AnonymousFieldsAreOwn
  <2> SUFFICES ASSUME IInv, calls = {}, NEW r \in records, one_member_each(unit, r.from),
                      NEW p \in DOMAIN r.fields,
                      NEW l \in AnonLocs(child(unit, r.from, p).type)
               PROVE  \E x \in Batch(r.batch) :
                          unit[x.from].loc = l /\ x.anon /\ x.name = r.fields[p].anon
    BY DEF AnonymousFieldsAreOwn
  <2>1. /\ unit \in Units /\ r.from \in DOMAIN unit /\ lowerings = records
        /\ r.fields = [k \in fields(unit, r.from) |-> lowered_field(unit, r, k)]
    BY DEF IInv, TypeInv, lowerings
  <2>2. p \in fields(unit, r.from) /\ r.fields[p].anon = lowered_field(unit, r, p).anon
    BY <2>1
  <2>3. p \in DOMAIN unit[r.from].inner /\ child(unit, r.from, p).kind = "field"
    BY <2>2 DEF fields
  <2>4. p \in anon_fields(unit, r.from)
    <3>1. unit[r.from].inner[p] \in DOMAIN unit
      BY <2>1, <2>3, Positions
    <3>2. HasAnon(Parsed(child(unit, r.from, p).type))
      BY <2>1, <2>3, <3>1, UnitFacts DEF Spelled, child
    <3>3. QED
      BY <2>2, <3>2 DEF anon_fields
  <2>5. PICK q \in anon_defs(unit, r.from) : defines_member(unit, r.from, q, p)
    BY <2>4 DEF one_member_each
  <2>6. l = unit[unit[r.from].inner[q]].loc
    BY <2>5 DEF defines_member, child
  <2>7. takes(unit, r.from, p, q)
    BY <2>1, <2>5, TakesItsOwn
  <2>8. p \in DOMAIN unit[r.from].inner /\ q \in DOMAIN unit[r.from].inner
    BY <2>1, <2>7, TakesFacts
  <2>9. PICK x \in records : took(r, x, p, q)
    BY <2>1, <2>7, <2>8 DEF IInv, HoistInv
  <2>10. r.fields[p].anon = synth(r.name, anon_idx(unit, r.from, p))
    BY <2>2, <2>5, <2>7 DEF lowered_field
  <2>11. QED
    BY <2>6, <2>9, <2>10 DEF took, Batch
<1>2. QED
  BY <1>1, Invariance, PTL

-----------------------------------------------------------------------------
(* The closure's assumptions.                                              *)

\* The name of a definition, or of the typedef that names it.
DeclaredTag(u, m, kind) ==
    \/ \E i \in DOMAIN u : tagged(u[i], kind) /\ u[i].name = m
    \/ \E i \in DOMAIN u : \E p \in aliases(u, i, kind) : child(u, i, p).name = m

\* An alias is a typedef of the unit, of the location of its definition.
LEMMA AliasNode ==
    ASSUME NEW u \in Units, NEW i \in DOMAIN u, NEW kind \in {"record", "enum"},
           NEW p \in aliases(u, i, kind)
    PROVE  \E j, d \in DOMAIN u :
              /\ u[j] = child(u, i, p) /\ u[j].kind = "typedef" /\ self_alias(u[j])
              /\ anonymous(u[d], kind) /\ Linked(u[j].type) = {u[d].loc}
<1> DEFINE j == u[i].inner[p]
           d == u[i].inner[previous(u, i, p)]
<1>1. /\ p \in DOMAIN u[i].inner /\ previous(u, i, p) \in DOMAIN u[i].inner
      /\ u[j].kind = "typedef" /\ self_alias(u[j])
      /\ anonymous(u[d], kind) /\ Linked(u[j].type) = {u[d].loc}
  BY AliasLinked DEF child
<1>2. j \in DOMAIN u /\ d \in DOMAIN u
  BY <1>1, Positions
<1>3. u[j] = child(u, i, p)
  BY DEF child
<1> HIDE DEF j, d
<1>4. QED
  BY <1>1, <1>2, <1>3

LEMMA TagName ==
    ASSUME NEW u \in Units, NEW m, NEW kind \in {"record", "enum"}, DeclaredTag(u, m, kind)
    PROVE  m \in Names /\ Len(m) = 1 /\ m # NoName
<1>1. m \in Seq(STRING) /\ m # NoName /\ Len(m) <= 1
  <2>1. ASSUME NEW i \in DOMAIN u, tagged(u[i], kind), u[i].name = m
        PROVE  m \in Seq(STRING) /\ m # NoName /\ Len(m) <= 1
    <3>1. u[i].kind \in {"record", "enum"} /\ m # NoName
      BY <2>1 DEF tagged, defined
    <3>2. QED
      BY <2>1, <3>1, UnitFacts DEF Declared
  <2>2. ASSUME NEW i \in DOMAIN u, NEW p \in aliases(u, i, kind), child(u, i, p).name = m
        PROVE  m \in Seq(STRING) /\ m # NoName /\ Len(m) <= 1
    <3>1. PICK j \in DOMAIN u : u[j] = child(u, i, p) /\ u[j].kind = "typedef"
      BY AliasNode
    <3>2. m \in Seq(STRING) /\ Len(m) = 1
      BY <2>2, <3>1, UnitFacts DEF Declared
    <3>3. m \in Names /\ Len(m) >= 1 /\ Len(m) <= 1
      BY <3>2, NameFacts
    <3>4. QED
      BY <3>2, <3>3, NameFacts
  <2>3. QED
    BY <2>1, <2>2 DEF DeclaredTag
<1>2. QED
  BY <1>1, NameFacts

\* A typedef named after a definition with a tag is linked to none.
LEMMA AliasUntagged ==
    ASSUME NEW u \in Units, NEW kind \in {"record", "enum"}, NEW tag \in {"record", "enum"},
           NEW i \in DOMAIN u, tagged(u[i], tag),
           NEW j \in DOMAIN u, NEW p \in aliases(u, j, kind)
    PROVE  child(u, j, p).name # u[i].name
<1>1. PICK k, d \in DOMAIN u :
        /\ u[k] = child(u, j, p) /\ u[k].kind = "typedef" /\ self_alias(u[k])
        /\ anonymous(u[d], kind) /\ Linked(u[k].type) = {u[d].loc}
  BY AliasNode
<1>2. u[k].name = u[i].name => Linked(u[k].type) = {}
  BY <1>1, UnitFacts DEF Declared
<1>3. QED
  BY <1>1, <1>2

\* No name is one of a record and one of an enum.
LEMMA TagKindsApart ==
    ASSUME NEW u \in Units, NEW m, DeclaredTag(u, m, "record"), DeclaredTag(u, m, "enum")
    PROVE  FALSE
<1>1. ASSUME NEW i \in DOMAIN u, tagged(u[i], "record"), u[i].name = m,
             NEW j \in DOMAIN u, tagged(u[j], "enum"), u[j].name = m
      PROVE  FALSE
  BY <1>1, UnitFacts DEF Declared
<1>2. ASSUME NEW i \in DOMAIN u, tagged(u[i], "record"), u[i].name = m,
             NEW j \in DOMAIN u, NEW p \in aliases(u, j, "enum"), child(u, j, p).name = m
      PROVE  FALSE
  BY <1>2, AliasUntagged
<1>3. ASSUME NEW i \in DOMAIN u, NEW p \in aliases(u, i, "record"), child(u, i, p).name = m,
             NEW j \in DOMAIN u, NEW q \in aliases(u, j, "enum"), child(u, j, q).name = m
      PROVE  FALSE
  <2>1. PICK k, d \in DOMAIN u :
          /\ u[k] = child(u, i, p) /\ u[k].kind = "typedef" /\ self_alias(u[k])
          /\ anonymous(u[d], "record") /\ Linked(u[k].type) = {u[d].loc}
    BY AliasNode
  <2>2. PICK l, e \in DOMAIN u :
          /\ u[l] = child(u, j, q) /\ u[l].kind = "typedef" /\ self_alias(u[l])
          /\ anonymous(u[e], "enum") /\ Linked(u[l].type) = {u[e].loc}
    BY AliasNode
  <2>3. Linked(u[k].type) = Linked(u[l].type)
    BY <1>3, <2>1, <2>2, UnitFacts DEF Declared
  <2>4. u[d].loc = u[e].loc
    BY <2>1, <2>2, <2>3
  <2>5. QED
    BY <2>1, <2>2, <2>4, UnitFacts DEF Linkages
<1>4. ASSUME NEW i \in DOMAIN u, tagged(u[i], "enum"), u[i].name = m,
             NEW j \in DOMAIN u, NEW p \in aliases(u, j, "record"), child(u, j, p).name = m
      PROVE  FALSE
  BY <1>4, AliasUntagged
<1>5. QED
  BY <1>1, <1>2, <1>3, <1>4 DEF DeclaredTag

\* A typedef that has a tag's name is a self-alias.
LEMMA TagTypedef ==
    ASSUME NEW u \in Units, NEW i \in DOMAIN u, u[i].kind = "typedef",
           NEW kind \in {"record", "enum"}, DeclaredTag(u, u[i].name, kind)
    PROVE  self_alias(u[i])
<1>1. ASSUME NEW j \in DOMAIN u, tagged(u[j], kind), u[j].name = u[i].name
      PROVE  self_alias(u[i])
  BY <1>1, UnitFacts DEF Declared
<1>2. ASSUME NEW j \in DOMAIN u, NEW p \in aliases(u, j, kind), child(u, j, p).name = u[i].name
      PROVE  self_alias(u[i])
  <2>1. PICK k \in DOMAIN u : u[k] = child(u, j, p) /\ u[k].kind = "typedef" /\ self_alias(u[k])
    BY AliasNode
  <2>2. QED
    BY <1>2, <2>1, UnitFacts DEF Declared
<1>3. QED
  BY <1>1, <1>2 DEF DeclaredTag

\* The types a node is lowered with mention no hoisted name.
LEMMA MentionsDeclared ==
    ASSUME NEW u \in Units, NEW i \in DOMAIN u, NEW t \in lowered_types(u[i]), NEW m \in Refs(t)
    PROVE  ~(Len(m) > 1)
<1>1. m \in Seq(STRING) /\ Len(m) <= 1
  BY UnitFacts DEF Spelled
<1>2. m \in Names
  BY <1>1, NameFacts
<1>3. Len(m) \in Nat
  BY <1>2, NameFacts
<1>4. QED
  BY <1>1, <1>3

LEMMA UnitFields ==
    /\ DOMAIN closure_unit.rec_by_name = DOMAIN index.rec_by_name
    /\ \A n \in DOMAIN index.rec_by_name : closure_unit.rec_by_name[n] = parts(n)
    /\ DOMAIN closure_unit.anon_typedef_rec = DOMAIN index.anon_typedef_rec
    /\ \A n \in DOMAIN index.anon_typedef_rec : closure_unit.anon_typedef_rec[n] = parts(n)
    /\ closure_unit.enum_by_name = DOMAIN index.enum_by_name
    /\ closure_unit.anon_typedef_enum = DOMAIN index.anon_typedef_enum
    /\ closure_unit.typedef_by_name =
          {typedef(lower_typedef(unit[index.typedef_by_name[n]])) : n \in DOMAIN index.typedef_by_name}
    /\ closure_unit.records = parts(NoName)
    /\ closure_unit.enums = {e.name : e \in module.enums} \ {NoName}
    /\ closure_unit.typedefs = {typedef(t) : t \in module.typedefs}
    /\ closure_unit.enum_refs = refs_of(module.enums)
    /\ closure_unit.signature_refs = refs_of(module.functions)
  BY DEF closure_unit

\* A record is hoisted, or has the name of a declaration, and of its batch if
\* the closure asked for it.
LEMMA RecordName ==
    ASSUME IInv, NEW x \in records
    PROVE  /\ x.anon => Len(x.name) > 1
           /\ ~x.anon => /\ DeclaredTag(unit, x.name, "record")
                         /\ x.batch # NoName => x.name = x.batch
<1>1. x \in lowerings /\ x.from \in DOMAIN unit
  BY DEF lowerings, IInv, TypeInv
<1>2. x.anon => Len(x.name) > 1
  BY <1>1 DEF IInv, TypeInv
<1>3. ASSUME ~x.anon, x.batch = NoName PROVE DeclaredTag(unit, x.name, "record")
  BY <1>1, <1>3 DEF IInv, BatchInv, Started, DeclaredTag
<1>4. ASSUME ~x.anon, x.batch # NoName
      PROVE  DeclaredTag(unit, x.name, "record") /\ x.name = x.batch
  <2>1. x.name = x.batch
        /\ (x.name \in DOMAIN index.rec_by_name \/ x.name \in DOMAIN index.anon_typedef_rec)
    BY <1>1, <1>4 DEF IInv, BatchInv, Started
  <2>2. DeclaredTag(unit, x.name, "record")
    BY <2>1 DEF IInv, IndexInv, Defines, Aliases, DeclaredTag
  <2>3. QED
    BY <2>1, <2>2
<1>5. QED
  BY <1>2, <1>3, <1>4

LEMMA AskedName ==
    ASSUME IInv, NEW n \in record_names
    PROVE  DeclaredTag(unit, n, "record")
  BY DEF record_names, IInv, IndexInv, Defines, Aliases, DeclaredTag

LEMMA PartsFacts ==
    ASSUME NEW n
    PROVE  /\ \A p \in parts(n) : \E x \in Batch(n) :
                 /\ p.name = x.name
                 /\ p.refs = UNION {field_refs(x.fields[k]) : k \in DOMAIN x.fields}
           /\ \A x \in Batch(n) : x.name \in C!names(parts(n))
<1>1. \A p \in parts(n) : \E x \in Batch(n) :
        /\ p.name = x.name
        /\ p.refs = UNION {field_refs(x.fields[k]) : k \in DOMAIN x.fields}
  BY DEF parts
<1>2. ASSUME NEW x \in Batch(n) PROVE x.name \in C!names(parts(n))
  <2> DEFINE p == [name |-> x.name,
                   refs |-> UNION {field_refs(x.fields[k]) : k \in DOMAIN x.fields}]
  <2>1. p \in parts(n) /\ p.name = x.name
    BY DEF parts
  <2> HIDE DEF p
  <2>2. QED
    BY <2>1 DEF C!names
<1>3. QED
  BY <1>1, <1>2

\* A hoisted record that is mentioned is in the batch.
LEMMA MembersPresent ==
    ASSUME IInv, calls = {}, NEW n, NEW p \in parts(n), NEW m \in p.refs, Len(m) > 1
    PROVE  m \in C!names(parts(n))
<1>1. PICK x \in Batch(n) : p.refs = UNION {field_refs(x.fields[k]) : k \in DOMAIN x.fields}
  BY PartsFacts
<1>2. PICK k \in DOMAIN x.fields : m \in field_refs(x.fields[k])
  BY <1>1
<1>3. /\ x \in records /\ x.batch = n /\ lowerings = records
      /\ unit \in Units /\ x.from \in DOMAIN unit
      /\ x.fields = [j \in fields(unit, x.from) |-> lowered_field(unit, x, j)]
  BY DEF Batch, lowerings, IInv, TypeInv
<1>4. k \in fields(unit, x.from) /\ x.fields[k] = lowered_field(unit, x, k)
  BY <1>2, <1>3
<1>5. m \notin Refs(x.fields[k].type)
  <2> DEFINE i == unit[x.from].inner[k]
  <2>1. k \in DOMAIN unit[x.from].inner /\ unit[i].kind = "field"
    BY <1>4 DEF fields, child
  <2>2. i \in DOMAIN unit
    BY <1>3, <2>1, Positions
  <2>3. x.fields[k].type = Parsed(unit[i].type)
    BY <1>4 DEF lowered_field, child
  <2> HIDE DEF i
  <2>4. x.fields[k].type \in lowered_types(unit[i])
    BY <2>1, <2>3 DEF lowered_types
  <2>5. QED
    BY <1>3, <2>2, <2>4, MentionsDeclared
<1>6. m = x.fields[k].anon /\ m # NoName
  BY <1>2, <1>5 DEF field_refs
<1>7. PICK q \in anon_defs(unit, x.from) :
        takes(unit, x.from, k, q) /\ m = synth(x.name, anon_idx(unit, x.from, k))
  BY <1>4, <1>6 DEF lowered_field
<1>8. k \in DOMAIN unit[x.from].inner /\ q \in DOMAIN unit[x.from].inner
  BY <1>3, <1>7, TakesFacts
<1>9. PICK y \in records : took(x, y, k, q)
  BY <1>3, <1>7, <1>8 DEF IInv, HoistInv
<1>10. y \in Batch(n) /\ y.name = m
  BY <1>3, <1>7, <1>9 DEF took, Batch
<1>11. QED
  BY <1>10, PartsFacts

\* The closure gets what it asked for.
LEMMA OwnName ==
    ASSUME IInv, calls = {}, NEW n \in record_names, Batch(n) # {}
    PROVE  n \in C!names(parts(n))
<1>1. PICK x \in records : x.batch = n
  BY DEF Batch
<1>2. PICK y \in records : y.batch = n /\ ~y.anon
  BY <1>1 DEF IInv, BatchInv, lowerings
<1>3. n # NoName
  BY AskedName, TagName DEF IInv, TypeInv
<1>4. y \in Batch(n) /\ y.name = n
  BY <1>2, <1>3, RecordName DEF Batch
<1>5. QED
  BY <1>4, PartsFacts

\* What the closure takes for hoisted has a synthetic name.
LEMMA HoistedName ==
    ASSUME IInv, NEW m \in C!hoisted(closure_unit)
    PROVE  Len(m) > 1
<1>1. PICK n \in record_names : m \in C!names(parts(n)) /\ m # n
  <2>1. PICK n : \/ n \in DOMAIN closure_unit.rec_by_name
                    /\ m \in C!names(closure_unit.rec_by_name[n]) \ {n}
                 \/ n \in DOMAIN closure_unit.anon_typedef_rec
                    /\ m \in C!names(closure_unit.anon_typedef_rec[n]) \ {n}
    BY DEF C!hoisted
  <2>2. QED
    BY <2>1, UnitFields DEF record_names
<1>2. PICK p \in parts(n) : m = p.name
  BY <1>1 DEF C!names
<1>3. PICK x \in Batch(n) : m = x.name
  BY <1>2, PartsFacts
<1>4. n # NoName
  BY AskedName, TagName DEF IInv, TypeInv
<1>5. x.anon
  BY <1>1, <1>3, <1>4, RecordName DEF Batch
<1>6. QED
  BY <1>3, <1>5, RecordName DEF Batch

\* Nothing else mentions a synthetic name.
LEMMA OthersMention ==
    ASSUME IInv,
           NEW m \in C!refs_of(closure_unit.typedefs) \cup C!refs_of(closure_unit.typedef_by_name)
                     \cup closure_unit.enum_refs \cup closure_unit.signature_refs
    PROVE  ~(Len(m) > 1)
<1>1. unit \in Units
  BY DEF IInv, TypeInv
<1>2. ASSUME NEW i \in DOMAIN unit, unit[i].kind = "typedef",
             m \in typedef(lower_typedef(unit[i])).refs
      PROVE  ~(Len(m) > 1)
  <2>1. Parsed(unit[i].type) \in lowered_types(unit[i]) /\ m \in Refs(Parsed(unit[i].type))
    BY <1>2 DEF typedef, lower_typedef, lowered_types
  <2>2. QED
    BY <1>1, <2>1, MentionsDeclared
<1>3. CASE m \in C!refs_of(closure_unit.typedefs)
  <2>1. PICK t \in module.typedefs : m \in typedef(t).refs
    BY <1>3, UnitFields DEF C!refs_of
  <2>2. QED
    BY <1>2, <2>1 DEF IInv, ModuleInv
<1>4. CASE m \in C!refs_of(closure_unit.typedef_by_name)
  <2>1. PICK n \in DOMAIN index.typedef_by_name :
          m \in typedef(lower_typedef(unit[index.typedef_by_name[n]])).refs
    BY <1>4, UnitFields DEF C!refs_of
  <2> DEFINE i == index.typedef_by_name[n]
  <2>2. i \in DOMAIN unit /\ unit[i].kind = "typedef"
    BY DEF IInv, IndexInv, Defines, tagged, defined
  <2>3. QED
    BY <1>2, <2>1, <2>2
<1>5. CASE m \in closure_unit.enum_refs
  <2>1. PICK e \in module.enums : \E t \in e.types : m \in Refs(t)
    BY <1>5, UnitFields DEF refs_of
  <2>2. PICK i \in DOMAIN unit : e.types = lowered_types(unit[i])
    BY DEF IInv, ModuleInv, lower_enum
  <2>3. QED
    BY <1>1, <2>1, <2>2, MentionsDeclared
<1>6. CASE m \in closure_unit.signature_refs
  <2>1. PICK f \in module.functions : \E t \in f.types : m \in Refs(t)
    BY <1>6, UnitFields DEF refs_of
  <2>2. PICK i \in DOMAIN unit : f.types = lowered_types(unit[i])
    BY DEF IInv, ModuleInv, lower_function
  <2>3. QED
    BY <1>1, <2>1, <2>2, MentionsDeclared
<1>7. QED
  BY <1>3, <1>4, <1>5, <1>6

LEMMA EnumTags ==
    ASSUME IInv, NEW m \in C!tags(closure_unit).enum
    PROVE  DeclaredTag(unit, m, "enum")
<1>1. m \in closure_unit.enum_by_name \cup closure_unit.anon_typedef_enum \cup closure_unit.enums
  BY DEF C!tags
<1>2. CASE m \in closure_unit.enum_by_name \cup closure_unit.anon_typedef_enum
  <2>1. m \in DOMAIN index.enum_by_name \/ m \in DOMAIN index.anon_typedef_enum
    BY <1>2, UnitFields
  <2>2. QED
    BY <2>1 DEF IInv, IndexInv, Defines, Aliases, DeclaredTag
<1>3. CASE m \in closure_unit.enums
  <2>1. PICK e \in module.enums : m = e.name /\ m # NoName
    BY <1>3, UnitFields
  <2>2. PICK i \in DOMAIN unit : unit[i].kind = "enum" /\ e.name = unit[i].name
    BY DEF IInv, ModuleInv, lower_enum
  <2>3. QED
    BY <2>1, <2>2 DEF DeclaredTag, tagged, defined
<1>4. QED
  BY <1>1, <1>2, <1>3

\* A synthetic name is none that a declaration has.
LEMMA HoistedUndeclared ==
    ASSUME IInv, NEW m \in C!hoisted(closure_unit)
    PROVE  m \notin DOMAIN closure_unit.rec_by_name \cup DOMAIN closure_unit.anon_typedef_rec
                   \cup closure_unit.enum_by_name \cup closure_unit.anon_typedef_enum
                   \cup C!names(closure_unit.typedef_by_name) \cup C!names(closure_unit.typedefs)
<1>1. unit \in Units /\ Len(m) > 1
  BY HoistedName DEF IInv, TypeInv
<1>2. \A kind \in {"record", "enum"} : ~DeclaredTag(unit, m, kind)
  <2>1. SUFFICES ASSUME NEW kind \in {"record", "enum"}, DeclaredTag(unit, m, kind) PROVE FALSE
    OBVIOUS
  <2>2. Len(m) = 1
    BY <1>1, <2>1, TagName
  <2>3. QED
    BY <1>1, <2>2
<1>3. m \notin DOMAIN closure_unit.rec_by_name \cup DOMAIN closure_unit.anon_typedef_rec
  BY <1>2, UnitFields, AskedName DEF record_names
<1>4. m \notin closure_unit.enum_by_name \cup closure_unit.anon_typedef_enum
  BY <1>2, EnumTags DEF C!tags
<1>5. m \notin C!names(closure_unit.typedef_by_name)
  <2>1. SUFFICES ASSUME m \in C!names(closure_unit.typedef_by_name) PROVE FALSE
    OBVIOUS
  <2>2. PICK n \in DOMAIN index.typedef_by_name :
          m = typedef(lower_typedef(unit[index.typedef_by_name[n]])).name
    BY <2>1, UnitFields DEF C!names
  <2> DEFINE i == index.typedef_by_name[n]
  <2>3. i \in DOMAIN unit /\ unit[i].kind = "typedef"
    BY DEF IInv, IndexInv, Defines, tagged, defined
  <2>4. m = unit[i].name
    BY <2>2 DEF typedef, lower_typedef
  <2>5. Len(m) = 1
    BY <1>1, <2>3, <2>4, UnitFacts DEF Declared
  <2>6. QED
    BY <1>1, <2>5
<1>6. m \notin C!names(closure_unit.typedefs)
  <2>1. SUFFICES ASSUME m \in C!names(closure_unit.typedefs) PROVE FALSE
    OBVIOUS
  <2>2. PICK t \in module.typedefs : m = typedef(t).name
    BY <2>1, UnitFields DEF C!names
  <2>3. PICK i \in DOMAIN unit : unit[i].kind = "typedef" /\ t = lower_typedef(unit[i])
    BY DEF IInv, ModuleInv
  <2>4. m = unit[i].name
    BY <2>2, <2>3 DEF typedef, lower_typedef
  <2>5. Len(m) = 1
    BY <1>1, <2>3, <2>4, UnitFacts DEF Declared
  <2>6. QED
    BY <1>1, <2>5
<1>7. QED
  BY <1>3, <1>4, <1>5, <1>6

\* Two records lowered under one name mention the same names.
LEMMA SameName ==
    ASSUME IInv, NEW n, NEW m, NEW p \in parts(n), NEW q \in parts(m), p.name = q.name
    PROVE  p = q
<1>1. PICK x \in Batch(n) :
        p = [name |-> x.name, refs |-> UNION {field_refs(x.fields[k]) : k \in DOMAIN x.fields}]
  BY DEF parts
<1>2. PICK y \in Batch(m) :
        q = [name |-> y.name, refs |-> UNION {field_refs(y.fields[k]) : k \in DOMAIN y.fields}]
  BY DEF parts
<1>3. x \in records /\ y \in records /\ x \in lowerings /\ y \in lowerings
  BY DEF Batch, lowerings
<1>4. x.name = y.name
  BY <1>1, <1>2
<1>5. x.from = y.from
  BY <1>3, <1>4 DEF IInv, OneName
<1>6. /\ x.fields = [k \in fields(unit, x.from) |-> lowered_field(unit, x, k)]
      /\ y.fields = [k \in fields(unit, y.from) |-> lowered_field(unit, y, k)]
  BY <1>3 DEF IInv, TypeInv
<1>7. \A k : lowered_field(unit, x, k) = lowered_field(unit, y, k)
  BY <1>4, <1>5 DEF lowered_field
<1>8. x.fields = y.fields
  BY <1>5, <1>6, <1>7
<1>9. QED
  BY <1>1, <1>2, <1>4, <1>8

LEMMA LowersUnit ==
    ASSUME IInv, Pulled
    PROVE  /\ C!Lowers(closure_unit)
           /\ \A n \in record_names \cup {NoName} : \A p \in parts(n) : \A m \in p.refs :
                 Len(m) > 1 => m \in C!names(parts(n))
<1>1. calls = {} /\ \A n \in record_names : Batch(n) # {}
  BY DEF Pulled, Indexed, Lowered
<1>2. \A n : \A p \in parts(n) : \A m \in p.refs : Len(m) > 1 => m \in C!names(parts(n))
  BY <1>1, MembersPresent
<1>3. \A n \in record_names : n \in C!names(parts(n))
  BY <1>1, OwnName
<1>4. \A n \in DOMAIN closure_unit.rec_by_name : n \in C!names(closure_unit.rec_by_name[n])
  BY <1>3, UnitFields DEF record_names
<1>5. \A n \in DOMAIN closure_unit.anon_typedef_rec :
        n \in C!names(closure_unit.anon_typedef_rec[n])
  BY <1>3, UnitFields DEF record_names
<1>6. ASSUME NEW ps \in C!lowered_parts(closure_unit) \cup {closure_unit.records}
      PROVE  C!refs_of(ps) \cap C!hoisted(closure_unit) \subseteq C!names(ps)
  <2>1. PICK n : ps = parts(n)
    BY <1>6, UnitFields DEF C!lowered_parts
  <2>2. SUFFICES ASSUME NEW m \in C!refs_of(ps), m \in C!hoisted(closure_unit)
                 PROVE  m \in C!names(ps)
    OBVIOUS
  <2>3. PICK p \in parts(n) : m \in p.refs
    BY <2>1, <2>2 DEF C!refs_of
  <2>4. QED
    BY <1>2, <2>1, <2>2, <2>3, HoistedName
<1>7. C!hoisted(closure_unit)
        \cap (C!refs_of(closure_unit.typedefs) \cup C!refs_of(closure_unit.typedef_by_name)
              \cup closure_unit.enum_refs \cup closure_unit.signature_refs) = {}
  BY HoistedName, OthersMention
<1>8. C!hoisted(closure_unit)
        \cap (DOMAIN closure_unit.rec_by_name \cup DOMAIN closure_unit.anon_typedef_rec
              \cup closure_unit.enum_by_name \cup closure_unit.anon_typedef_enum
              \cup C!names(closure_unit.typedef_by_name)
              \cup C!names(closure_unit.typedefs)) = {}
  BY HoistedUndeclared
<1>9. \A p, q \in closure_unit.records \cup UNION C!lowered_parts(closure_unit) :
        p.name = q.name => p = q
  <2>1. \A p \in closure_unit.records \cup UNION C!lowered_parts(closure_unit) :
          \E n : p \in parts(n)
    BY UnitFields DEF C!lowered_parts
  <2>2. QED
    BY <2>1, SameName
<1>10. QED
  BY <1>2, <1>4, <1>5, <1>6, <1>7, <1>8, <1>9 DEF C!Lowers

LEMMA RecordTags ==
    ASSUME IInv, NEW m \in C!tags(closure_unit).record
    PROVE  Len(m) > 1 \/ DeclaredTag(unit, m, "record")
<1>1. \/ m \in C!names(closure_unit.records)
      \/ \E ps \in C!lowered_parts(closure_unit) : m \in C!names(ps)
  BY DEF C!tags
<1>2. PICK n : m \in C!names(parts(n))
  BY <1>1, UnitFields DEF C!lowered_parts
<1>3. PICK p \in parts(n) : m = p.name
  BY <1>2 DEF C!names
<1>4. PICK x \in Batch(n) : m = x.name
  BY <1>3, PartsFacts
<1>5. x \in records
  BY DEF Batch
<1>6. QED
  BY <1>4, <1>5, RecordName

LEMMA TagsOfUnit == ASSUME IInv PROVE C!TagsApart(closure_unit)
<1>1. unit \in Units
  BY DEF IInv, TypeInv
<1>2. ASSUME NEW m \in C!tags(closure_unit).record, m \in C!tags(closure_unit).enum
      PROVE  FALSE
  <2>1. DeclaredTag(unit, m, "enum")
    BY <1>2, EnumTags
  <2>2. Len(m) = 1
    BY <1>1, <2>1, TagName
  <2>3. ~(Len(m) > 1)
    BY <2>2
  <2>4. DeclaredTag(unit, m, "record")
    BY <2>3, RecordTags
  <2>5. QED
    BY <1>1, <2>1, <2>4, TagKindsApart
<1>3. ASSUME NEW i \in DOMAIN unit, unit[i].kind = "typedef"
      PROVE  LET t == typedef(lower_typedef(unit[i]))
             IN  C!self_alias(t)
                 \/ t.name \notin C!tags(closure_unit).record \cup C!tags(closure_unit).enum
  <2> DEFINE t == typedef(lower_typedef(unit[i]))
             p == Parsed(unit[i].type)
  <2>1. t.name = unit[i].name /\ t.refs = Refs(p) /\ (t.direct <=> Bare(p) # {})
    BY DEF typedef, lower_typedef
  <2>2. p \in lowered_types(unit[i])
    BY <1>3 DEF lowered_types
  <2>3. Bare(p) \in {{}, Refs(p)} /\ unit[i].name \in Seq(STRING) /\ Len(unit[i].name) = 1
    BY <1>1, <1>3, <2>2, UnitFacts DEF Spelled, Declared
  <2>4. ~(Len(unit[i].name) > 1)
    BY <2>3
  <2>5. self_alias(unit[i]) <=> Bare(p) = {unit[i].name}
    BY DEF self_alias
  <2> HIDE DEF t, p
  <2>6. self_alias(unit[i]) => C!self_alias(t)
    BY <2>1, <2>3, <2>5 DEF C!self_alias
  <2>7. unit[i].name \in C!tags(closure_unit).record => self_alias(unit[i])
    BY <1>1, <1>3, <2>4, RecordTags, TagTypedef
  <2>8. unit[i].name \in C!tags(closure_unit).enum => self_alias(unit[i])
    BY <1>1, <1>3, EnumTags, TagTypedef
  <2>9. C!self_alias(t)
        \/ t.name \notin C!tags(closure_unit).record \cup C!tags(closure_unit).enum
    BY <2>1, <2>6, <2>7, <2>8
  <2>10. QED
    BY <2>9 DEF t
<1>4. ASSUME NEW t \in closure_unit.typedefs \cup closure_unit.typedef_by_name
      PROVE  \E i \in DOMAIN unit : unit[i].kind = "typedef" /\ t = typedef(lower_typedef(unit[i]))
  <2>1. CASE t \in closure_unit.typedefs
    BY <2>1, UnitFields DEF IInv, ModuleInv
  <2>2. CASE t \in closure_unit.typedef_by_name
    <3>1. PICK n \in DOMAIN index.typedef_by_name :
            t = typedef(lower_typedef(unit[index.typedef_by_name[n]]))
      BY <2>2, UnitFields
    <3>2. QED
      BY <3>1 DEF IInv, IndexInv, Defines, tagged, defined
  <2>3. QED
    BY <2>1, <2>2
<1>5. QED
  BY <1>2, <1>3, <1>4 DEF C!TagsApart

\* What the closure's own theorems assume of a translation unit is what lowering
\* and the index make of any dump: hoisted members beside those that mention
\* them, tags of records, enums and typedefs apart, and one typedef per name.
THEOREM LoweredUnitServes == Spec => []ServesClosure
<1>1. IInv => ServesClosure
  <2> SUFFICES ASSUME IInv, Pulled
               PROVE  /\ C!Lowers(closure_unit) /\ C!TagsApart(closure_unit)
                      /\ \A s, t \in closure_unit.typedef_by_name : s.name = t.name => s = t
                      /\ \A s, t \in closure_unit.typedefs : s.name = t.name => s = t
                      /\ \A n \in record_names \cup {NoName} : \A p \in parts(n) : \A m \in p.refs :
                            Len(m) > 1 => m \in C!names(parts(n))
    BY DEF ServesClosure
  <2>1. ASSUME NEW s \in closure_unit.typedef_by_name, NEW t \in closure_unit.typedef_by_name,
               s.name = t.name
        PROVE  s = t
    <3>1. PICK n \in DOMAIN index.typedef_by_name :
            s = typedef(lower_typedef(unit[index.typedef_by_name[n]]))
      BY UnitFields
    <3>2. PICK m \in DOMAIN index.typedef_by_name :
            t = typedef(lower_typedef(unit[index.typedef_by_name[m]]))
      BY UnitFields
    <3>3. s.name = n /\ t.name = m
      BY <3>1, <3>2 DEF typedef, lower_typedef, IInv, IndexInv, Defines
    <3>4. QED
      BY <2>1, <3>1, <3>2, <3>3
  <2>2. ASSUME NEW s \in closure_unit.typedefs, NEW t \in closure_unit.typedefs, s.name = t.name
        PROVE  s = t
    <3>1. \A x \in closure_unit.typedefs : \E i \in DOMAIN unit :
            unit[i].kind = "typedef" /\ unit[i].phnt /\ x = typedef(lower_typedef(unit[i]))
      BY UnitFields DEF IInv, ModuleInv
    <3>2. PICK i \in DOMAIN unit :
            unit[i].kind = "typedef" /\ unit[i].phnt /\ s = typedef(lower_typedef(unit[i]))
      BY <3>1
    <3>3. PICK j \in DOMAIN unit :
            unit[j].kind = "typedef" /\ unit[j].phnt /\ t = typedef(lower_typedef(unit[j]))
      BY <3>1
    <3>4. unit[i].name = unit[j].name
      BY <2>2, <3>2, <3>3 DEF typedef, lower_typedef
    <3>5. Parsed(unit[i].type) = Parsed(unit[j].type)
      BY <3>2, <3>3, <3>4, UnitFacts DEF IInv, TypeInv, Declared
    <3>6. QED
      BY <3>2, <3>3, <3>4, <3>5 DEF typedef, lower_typedef
  <2>3. QED
    BY <2>1, <2>2, LowersUnit, TagsOfUnit
<1>2. QED
  BY <1>1, Invariance, PTL
=============================================================================
