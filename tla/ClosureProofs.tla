---------------------------- MODULE ClosureProofs ----------------------------
(***************************************************************************)
(* The self-containment closure, proved for every set of names and every   *)
(* set of translation units.                                               *)
(***************************************************************************)
EXTENDS Closure, TLAPS

\* Everything referenced so far has been resolved or is still queued.
Pending ==
    refs_of(records) \cup refs_of(typedefs) \cup unit.signature_refs \subseteq known \cup queue

\* The name of a hoisted member enters the queue only with the member.
HoistedKnown == hoisted(unit) \cap (queue \cup opaque) \subseteq names(records)

\* The tables hold only what the unit declares.
Declared ==
    /\ names(records) \subseteq tags(unit).record
    /\ enums \subseteq tags(unit).enum
    /\ typedefs \subseteq unit.typedefs \cup unit.typedef_by_name
    /\ {t \in typedefs : self_alias(t)} \subseteq unit.typedefs

IInv ==
    /\ unit \in Units
    /\ TypeOK
    /\ Pending
    /\ HoistedKnown
    /\ Declared
    /\ OpaqueOnlyUndefined

-----------------------------------------------------------------------------
LEMMA UnitFacts ==
    ASSUME unit \in Units
    PROVE  Unit(unit) /\ Lowers(unit) /\ TagsApart(unit)
  BY UnitAssumption

LEMMA LoweredParts ==
    ASSUME unit \in Units
    PROVE  /\ \A n \in DOMAIN unit.rec_by_name :
                 /\ unit.rec_by_name[n] \in lowered_parts(unit) /\ n \in names(unit.rec_by_name[n])
                 /\ names(unit.rec_by_name[n]) \ {n} \subseteq hoisted(unit)
           /\ \A n \in DOMAIN unit.anon_typedef_rec :
                 /\ unit.anon_typedef_rec[n] \in lowered_parts(unit)
                 /\ n \in names(unit.anon_typedef_rec[n])
                 /\ names(unit.anon_typedef_rec[n]) \ {n} \subseteq hoisted(unit)
<1>1. /\ \A n \in DOMAIN unit.rec_by_name : n \in names(unit.rec_by_name[n])
      /\ \A n \in DOMAIN unit.anon_typedef_rec : n \in names(unit.anon_typedef_rec[n])
  BY UnitFacts DEF Lowers
<1>2. QED
  BY <1>1 DEF lowered_parts, hoisted

LEMMA InitInv == Init => IInv
<1> SUFFICES ASSUME Init PROVE IInv
  OBVIOUS
<1>1. Unit(unit) /\ Lowers(unit) /\ TagsApart(unit) /\ unit \in Units
  BY UnitFacts DEF Init
<1>2. names(records) \subseteq tags(unit).record /\ enums \subseteq tags(unit).enum
  <2>1. records = unit.records /\ enums = unit.enums
    BY DEF Init
  <2>2. names(unit.records) \subseteq tags(unit).record
    BY DEF tags
  <2>3. unit.enums \subseteq tags(unit).enum
    BY DEF tags
  <2>4. QED
    BY <2>1, <2>2, <2>3
<1>3. Declared
  <2>1. typedefs = unit.typedefs
    BY DEF Init
  <2>2. QED
    BY <1>2, <2>1 DEF Declared
<1>4. TypeOK
  <2>1. names(records) \cap enums = {}
    BY <1>1, <1>2 DEF TagsApart
  <2>2. names({t \in typedefs : ~self_alias(t)}) \cap (names(records) \cup enums) = {}
    BY <1>1, <1>2 DEF TagsApart, Init, names
  <2>3. records \subseteq Part /\ typedefs \subseteq Typedef
        /\ enums \cup opaque \cup queue \subseteq Names
    BY <1>1 DEF Unit, Init, refs_of, Part, Typedef
  <2>4. opaque = {}
    BY DEF Init
  <2>5. QED
    BY <2>1, <2>2, <2>3, <2>4 DEF TypeOK
<1>5. Pending
  BY DEF Pending, Init
<1>6. HoistedKnown
  BY <1>1 DEF HoistedKnown, Init, Lowers
<1>7. OpaqueOnlyUndefined
  BY DEF OpaqueOnlyUndefined, Init
<1>8. QED
  BY <1>1, <1>3, <1>4, <1>5, <1>6, <1>7 DEF IInv

\* The two branches that lower a record.
LEMMA LowerStep ==
    ASSUME IInv, NEW n \in queue, n \notin known,
           NEW parts \in lowered_parts(unit), n \in names(parts),
           names(parts) \ {n} \subseteq hoisted(unit),
           Lower(n, parts)
    PROVE  IInv'
<1>1. /\ unit' = unit /\ unit \in Units /\ enums' = enums /\ typedefs' = typedefs
      /\ opaque' = opaque
      /\ records' = records \cup {p \in parts : p.name \notin names(records)}
      /\ queue' = (queue \ {n}) \cup refs_of(parts)
  BY DEF Lower, IInv
<1>2. Unit(unit) /\ Lowers(unit) /\ TagsApart(unit)
  BY <1>1, UnitFacts
<1>3. parts \subseteq Part /\ names(parts) \subseteq tags(unit).record
  BY <1>2 DEF Unit, lowered_parts, tags
<1>4. names(records') = names(records) \cup names(parts)
  BY <1>1 DEF names
<1>5. refs_of(records') \subseteq refs_of(records) \cup refs_of(parts)
  BY <1>1 DEF refs_of
<1>6. refs_of(parts) \subseteq Names
  BY <1>3 DEF refs_of, Part
<1>7. opaque \cap names(parts) = {}
  <2> SUFFICES ASSUME NEW m \in opaque, m \in names(parts) PROVE FALSE
    OBVIOUS
  <2>1. m # n
    BY DEF known
  <2>2. m \in names(records)
    BY <2>1 DEF IInv, HoistedKnown
  <2>3. QED
    BY <2>2 DEF IInv, TypeOK
<1>8. Declared'
  BY <1>1, <1>3, <1>4 DEF IInv, Declared
<1>9. TypeOK'
  <2>1. names(records') \cap enums' = {}
    BY <1>1, <1>2, <1>8 DEF Declared, TagsApart
  <2>2. names({t \in typedefs : ~self_alias(t)})' \cap (names(records') \cup enums') = {}
    BY <1>1, <1>2, <1>8 DEF Declared, TagsApart, names
  <2>3. records' \subseteq Part /\ typedefs' \subseteq Typedef
        /\ enums' \cup opaque' \cup queue' \subseteq Names
    BY <1>1, <1>3, <1>6 DEF IInv, TypeOK
  <2>4. opaque' \cap (names(records') \cup enums' \cup names(typedefs')) = {}
    BY <1>1, <1>4, <1>7 DEF IInv, TypeOK
  <2>5. QED
    BY <2>1, <2>2, <2>3, <2>4 DEF TypeOK
<1>10. Pending'
  <2>1. known' = known \cup names(parts)
    BY <1>1, <1>4 DEF known
  <2>2. QED
    BY <1>1, <1>5, <2>1 DEF IInv, Pending
<1>11. HoistedKnown'
  <2>1. refs_of(parts) \cap hoisted(unit) \subseteq names(parts)
    BY <1>2 DEF Lowers
  <2>2. QED
    BY <1>1, <1>4, <2>1 DEF IInv, HoistedKnown
<1>12. OpaqueOnlyUndefined'
  BY <1>1 DEF IInv, OpaqueOnlyUndefined, defined, record_names, enum_names,
         typedefs_of
<1>13. QED
  BY <1>1, <1>8, <1>9, <1>10, <1>11, <1>12 DEF IInv

LEMMA RecordSteps ==
    ASSUME IInv, NEW n \in queue, PullRecord(n) \/ PullAnonRecord(n)
    PROVE  IInv'
<1>1. unit \in Units /\ n \notin known
  BY DEF IInv, PullRecord, PullAnonRecord
<1>2. CASE PullRecord(n)
  <2> DEFINE parts == unit.rec_by_name[n]
  <2>1. n \in DOMAIN unit.rec_by_name /\ Lower(n, parts)
    BY <1>2 DEF PullRecord
  <2>2. /\ parts \in lowered_parts(unit) /\ n \in names(parts)
        /\ names(parts) \ {n} \subseteq hoisted(unit)
    BY <1>1, <2>1, LoweredParts
  <2> HIDE DEF parts
  <2>3. QED
    BY <1>1, <2>1, <2>2, LowerStep
<1>3. CASE PullAnonRecord(n)
  <2> DEFINE parts == unit.anon_typedef_rec[n]
  <2>1. n \in DOMAIN unit.anon_typedef_rec /\ Lower(n, parts)
    BY <1>3 DEF PullAnonRecord
  <2>2. /\ parts \in lowered_parts(unit) /\ n \in names(parts)
        /\ names(parts) \ {n} \subseteq hoisted(unit)
    BY <1>1, <2>1, LoweredParts
  <2> HIDE DEF parts
  <2>3. QED
    BY <1>1, <2>1, <2>2, LowerStep
<1>4. QED
  BY <1>2, <1>3

LEMMA SkipStep ==
    ASSUME IInv, NEW n \in queue, Skip(n)
    PROVE  IInv'
<1>1. UNCHANGED <<unit, records, enums, typedefs, opaque>> /\ queue' = queue \ {n} /\ n \in known
  BY DEF Skip
<1>2. known' = known
  BY <1>1 DEF known
<1>3. TypeOK' /\ HoistedKnown' /\ Declared' /\ OpaqueOnlyUndefined'
  BY <1>1 DEF IInv, TypeOK, HoistedKnown, Declared, OpaqueOnlyUndefined,
              defined, record_names, enum_names, typedefs_of
<1>4. Pending'
  BY <1>1, <1>2 DEF IInv, Pending
<1>5. QED
  BY <1>1, <1>3, <1>4 DEF IInv

LEMMA EnumStep ==
    ASSUME IInv, NEW n \in queue, PullEnum(n)
    PROVE  IInv'
<1>1. /\ UNCHANGED <<unit, records, typedefs, opaque>> /\ queue' = queue \ {n}
      /\ enums' = enums \cup {n} /\ n \notin known /\ n \in enum_names
  BY DEF PullEnum
<1>2. TagsApart(unit) /\ n \in tags(unit).enum /\ n \in Names
  BY <1>1, UnitFacts DEF IInv, TypeOK, tags, enum_names
<1>3. known' = known \cup {n}
  BY <1>1 DEF known
<1>4. Declared'
  BY <1>1, <1>2 DEF IInv, Declared
<1>5. TypeOK'
  <2>1. names(records') \cap enums' = {}
    BY <1>1, <1>2, <1>4 DEF Declared, TagsApart
  <2>2. names({t \in typedefs : ~self_alias(t)})' \cap (names(records') \cup enums') = {}
    BY <1>1, <1>2, <1>4 DEF Declared, TagsApart, names
  <2>3. opaque' \cap (names(records') \cup enums' \cup names(typedefs')) = {}
    BY <1>1 DEF IInv, TypeOK, known
  <2>4. QED
    BY <1>1, <2>1, <2>2, <2>3 DEF IInv, TypeOK
<1>6. Pending' /\ HoistedKnown'
  BY <1>1, <1>3 DEF IInv, Pending, HoistedKnown
<1>7. OpaqueOnlyUndefined'
  BY <1>1 DEF IInv, OpaqueOnlyUndefined, defined, record_names, enum_names,
         typedefs_of
<1>8. QED
  BY <1>1, <1>4, <1>5, <1>6, <1>7 DEF IInv

LEMMA TypedefStep ==
    ASSUME IInv, NEW n \in queue, PullTypedef(n)
    PROVE  IInv'
<1>1. /\ UNCHANGED <<unit, records, enums, opaque>>
      /\ n \notin known
  BY DEF PullTypedef
<1>2. PICK t \in typedefs_of(n) : /\ ~self_alias(t)
                                  /\ typedefs' = typedefs \cup {t}
                                  /\ queue' = (queue \ {n}) \cup t.refs
  BY DEF PullTypedef
<1>3. t \in unit.typedef_by_name /\ t.name = n
  BY <1>2 DEF typedefs_of
<1>4. Unit(unit) /\ Lowers(unit) /\ TagsApart(unit)
  BY UnitFacts DEF IInv
<1>5. t \in Typedef /\ t.refs \subseteq Names
  BY <1>3, <1>4 DEF Unit, Typedef
<1>6. /\ names(typedefs') = names(typedefs) \cup {n}
      /\ refs_of(typedefs') = refs_of(typedefs) \cup t.refs
  BY <1>2, <1>3 DEF names, refs_of
<1>7. Declared'
  BY <1>1, <1>2, <1>3 DEF IInv, Declared
<1>8. TypeOK'
  <2>1. names({u \in typedefs : ~self_alias(u)})' \cap (names(records') \cup enums') = {}
    BY <1>1, <1>4, <1>7 DEF Declared, TagsApart, names
  <2>2. opaque' \cap (names(records') \cup enums' \cup names(typedefs')) = {}
    BY <1>1, <1>6 DEF IInv, TypeOK, known
  <2>3. typedefs' \subseteq Typedef /\ queue' \subseteq Names
    BY <1>2, <1>5 DEF IInv, TypeOK
  <2>4. QED
    BY <1>1, <2>1, <2>2, <2>3 DEF IInv, TypeOK
<1>9. Pending'
  <2>1. known' = known \cup {n}
    BY <1>1, <1>6 DEF known
  <2>2. QED
    BY <1>1, <1>2, <1>6, <2>1 DEF IInv, Pending
<1>10. HoistedKnown'
  <2>1. hoisted(unit) \cap t.refs = {}
    BY <1>3, <1>4 DEF Lowers, refs_of
  <2>2. QED
    BY <1>1, <1>2, <2>1 DEF IInv, HoistedKnown
<1>11. OpaqueOnlyUndefined'
  BY <1>1 DEF IInv, OpaqueOnlyUndefined, defined, record_names, enum_names,
         typedefs_of
<1>12. QED
  BY <1>1, <1>7, <1>8, <1>9, <1>10, <1>11 DEF IInv

LEMMA StubSteps ==
    ASSUME IInv, NEW n \in queue, StubSelfAlias(n) \/ StubUndefined(n)
    PROVE  IInv'
<1>1. /\ UNCHANGED <<unit, records, enums, typedefs>>
      /\ opaque' = opaque \cup {n} /\ queue' = queue \ {n}
      /\ n \notin known \cup record_names \cup enum_names
  BY DEF StubSelfAlias, StubUndefined, Stub
<1>2. \A t \in typedefs_of(n) : self_alias(t)
  <2>1. \A s, t \in typedefs_of(n) : s = t
    BY UnitFacts DEF IInv, Unit, typedefs_of
  <2>2. QED
    BY <2>1 DEF StubSelfAlias, StubUndefined
<1>3. n \in Names
  BY DEF IInv, TypeOK
<1>4. TypeOK'
  BY <1>1, <1>3 DEF IInv, TypeOK, known
<1>5. known' = known \cup {n}
  BY <1>1 DEF known
<1>6. Pending' /\ HoistedKnown' /\ Declared'
  BY <1>1, <1>5 DEF IInv, Pending, HoistedKnown, Declared
<1>7. OpaqueOnlyUndefined'
  BY <1>1, <1>2 DEF IInv, OpaqueOnlyUndefined, defined, record_names, enum_names,
         typedefs_of
<1>8. QED
  BY <1>1, <1>4, <1>6, <1>7 DEF IInv

LEMMA NextInv == IInv /\ [Next]_vars => IInv'
<1> SUFFICES ASSUME IInv, [Next]_vars PROVE IInv'
  OBVIOUS
<1>1. CASE UNCHANGED vars
  BY <1>1 DEF vars, IInv, TypeOK, Pending, HoistedKnown, Declared, OpaqueOnlyUndefined,
              defined, known, record_names, enum_names, typedefs_of
<1>2. CASE Next
  BY <1>2, SkipStep, RecordSteps, EnumStep, TypedefStep, StubSteps DEF Next
<1>3. QED
  BY <1>1, <1>2

\* In every translation unit: each reference is resolved or queued, and the
\* tables agree with the index.
THEOREM Inductive == Spec => []IInv
  BY InitInv, NextInv, PTL DEF Spec

\* No name is written out from two tables of the closure, and the tables stay
\* well typed, in every translation unit.
THEOREM TypeCorrect == Spec => []TypeOK
<1>1. IInv => TypeOK
  BY DEF IInv
<1>2. QED
  BY Inductive, <1>1, PTL

\* A name that has a definition anywhere in the unit is never stubbed,
\* whatever the order of the worklist.
THEOREM StubsAreUndefined == Spec => []OpaqueOnlyUndefined
<1>1. IInv => OpaqueOnlyUndefined
  BY DEF IInv
<1>2. QED
  BY Inductive, <1>1, PTL

LEMMA ClosedInv == IInv => ClosedWhenDone
<1> SUFFICES ASSUME IInv, Done PROVE ClosedWhenDone
  BY DEF ClosedWhenDone
<1>1. mentioned \subseteq refs_of(records) \cup refs_of(typedefs) \cup unit.signature_refs
  BY DEF mentioned, refs_of
<1>2. mentioned \subseteq known
  BY <1>1 DEF IInv, Pending, Done
<1>3. known \ emitted \subseteq names({t \in typedefs : self_alias(t)})
  BY DEF known, emitted, names
<1>4. names({t \in typedefs : self_alias(t)})
         \subseteq names({t \in unit.typedefs : self_alias(t)})
  BY DEF IInv, Declared, names
<1>5. QED
  BY <1>2, <1>3, <1>4 DEF ClosedWhenDone

\* When the worklist is empty, every mentioned name is written out, but for
\* the self-alias typedefs of the seed, in every translation unit.
THEOREM ClosureIsClosed == Spec => []ClosedWhenDone
  BY Inductive, ClosedInv, PTL

-----------------------------------------------------------------------------
(* A turn of the loop, whatever its branch: the name popped is skipped, or   *)
(* settled with all it leads to.                                            *)

Settles(n) ==
    /\ n \notin known
    /\ records' = records \cup {p \in parts_of(unit, n) : p.name \notin names(records)}
    /\ enums' = enums \cup ({n} \cap indexed_enums(unit))
    /\ typedefs' = typedefs \cup aliases_of(unit, n)
    /\ opaque' = opaque \cup {m \in {n} : m \notin names(parts_of(unit, m)) \cup indexed_enums(unit)
                                           /\ aliases_of(unit, m) = {}}
    /\ queue' = (queue \ {n}) \cup refs_of(parts_of(unit, n)) \cup refs_of(aliases_of(unit, n))
    /\ unit' = unit

\* Of the three things a name may be, C lets it be one.
LEMMA OneKind ==
    ASSUME unit \in Units, NEW n
    PROVE  /\ n \in DOMAIN unit.rec_by_name \cup DOMAIN unit.anon_typedef_rec
                => n \notin indexed_enums(unit) /\ aliases_of(unit, n) = {}
                   /\ n \in names(parts_of(unit, n)) /\ parts_of(unit, n) \in lowered_parts(unit)
                   /\ names(parts_of(unit, n)) \subseteq {n} \cup hoisted(unit)
           /\ n \notin DOMAIN unit.rec_by_name \cup DOMAIN unit.anon_typedef_rec
                => parts_of(unit, n) = {}
           /\ n \in indexed_enums(unit) => aliases_of(unit, n) = {}
<1>1. Lowers(unit) /\ TagsApart(unit)
  BY UnitFacts
<1>2. \A t \in aliases_of(unit, n) : n \notin tags(unit).record \cup tags(unit).enum
  BY <1>1 DEF TagsApart, aliases_of
<1>3. n \in indexed_enums(unit) => n \in tags(unit).enum
  BY DEF indexed_enums, tags
<1>4. ASSUME n \in DOMAIN unit.rec_by_name \cup DOMAIN unit.anon_typedef_rec
      PROVE  /\ parts_of(unit, n) \in lowered_parts(unit) /\ n \in names(parts_of(unit, n))
             /\ names(parts_of(unit, n)) \subseteq {n} \cup hoisted(unit)
  <2>1. CASE n \in DOMAIN unit.rec_by_name
    BY <2>1, LoweredParts DEF parts_of
  <2>2. CASE n \notin DOMAIN unit.rec_by_name
    BY <1>4, <2>2, LoweredParts DEF parts_of
  <2>3. QED
    BY <2>1, <2>2
<1>5. n \in DOMAIN unit.rec_by_name \cup DOMAIN unit.anon_typedef_rec => n \in tags(unit).record
  BY <1>4 DEF tags
<1>6. tags(unit).record \cap tags(unit).enum = {}
  BY <1>1 DEF TagsApart
<1>7. QED
  BY <1>2, <1>3, <1>4, <1>5, <1>6 DEF parts_of

LEMMA TurnSettles ==
    ASSUME IInv, NEW n \in queue,
           \/ PullRecord(n) \/ PullAnonRecord(n) \/ PullEnum(n)
           \/ PullTypedef(n) \/ StubSelfAlias(n) \/ StubUndefined(n)
    PROVE  Settles(n)
<1>1. unit \in Units
  BY DEF IInv
<1>2. refs_of({}) = {} /\ names({}) = {}
  BY DEF refs_of, names
<1>3. CASE PullRecord(n) \/ PullAnonRecord(n)
  <2>1. n \in DOMAIN unit.rec_by_name \cup DOMAIN unit.anon_typedef_rec
        /\ n \notin known /\ Lower(n, parts_of(unit, n))
    BY <1>3 DEF PullRecord, PullAnonRecord, parts_of
  <2>2. n \notin indexed_enums(unit) /\ aliases_of(unit, n) = {} /\ n \in names(parts_of(unit, n))
    BY <1>1, <2>1, OneKind
  <2>3. QED
    BY <1>2, <2>1, <2>2 DEF Lower, Settles
<1>4. ASSUME n \notin known \cup record_names
      PROVE  parts_of(unit, n) = {}
  BY <1>1, <1>4, OneKind DEF record_names
<1>5. CASE PullEnum(n)
  <2>1. n \in indexed_enums(unit) /\ parts_of(unit, n) = {} /\ aliases_of(unit, n) = {}
    BY <1>1, <1>4, <1>5, OneKind DEF PullEnum, enum_names, indexed_enums
  <2>2. QED
    BY <1>2, <1>5, <2>1 DEF PullEnum, Settles
<1>6. n \notin known \cup record_names \cup enum_names
      => n \notin indexed_enums(unit) /\ parts_of(unit, n) = {}
  BY <1>4 DEF enum_names, indexed_enums
<1>7. \A s, t \in unit.typedef_by_name : s.name = t.name => s = t
  BY <1>1, UnitFacts DEF Unit
<1>8. CASE PullTypedef(n)
  <2>1. PICK t \in typedefs_of(n) : /\ ~self_alias(t)
                                    /\ typedefs' = typedefs \cup {t}
                                    /\ queue' = (queue \ {n}) \cup t.refs
    BY <1>8 DEF PullTypedef
  <2>2. aliases_of(unit, n) = {t}
    BY <1>7, <2>1 DEF aliases_of, typedefs_of
  <2>3. refs_of({t}) = t.refs
    BY DEF refs_of
  <2>4. UNCHANGED <<unit, records, enums, opaque>> /\ n \notin known
        /\ n \notin indexed_enums(unit) /\ parts_of(unit, n) = {}
    BY <1>6, <1>8 DEF PullTypedef
  <2>5. QED
    BY <1>2, <2>1, <2>2, <2>3, <2>4 DEF Settles
<1>9. CASE StubSelfAlias(n) \/ StubUndefined(n)
  <2>1. aliases_of(unit, n) = {}
    BY <1>7, <1>9 DEF StubSelfAlias, StubUndefined, aliases_of, typedefs_of
  <2>2. n \notin known /\ n \notin indexed_enums(unit) /\ parts_of(unit, n) = {}
    BY <1>6, <1>9 DEF StubSelfAlias, StubUndefined
  <2>3. Stub(n)
    BY <1>9 DEF StubSelfAlias, StubUndefined
  <2>4. QED
    BY <1>2, <2>1, <2>2, <2>3 DEF Stub, Settles
<1>10. QED
  BY <1>3, <1>5, <1>8, <1>9

LEMMA SettledIsKnown ==
    ASSUME IInv, NEW n \in queue, Settles(n)
    PROVE  known' = known \cup {n} \cup names(parts_of(unit, n))
<1>1. names(records') = names(records) \cup names(parts_of(unit, n))
  BY DEF Settles, names
<1>2. names(typedefs') = names(typedefs) \cup {m \in {n} : aliases_of(unit, m) # {}}
  BY DEF Settles, names, aliases_of
<1>3. n \in enums' \cup opaque' \cup names(parts_of(unit, n)) \cup names(typedefs')
  BY <1>2 DEF Settles
<1>4. /\ enums \subseteq enums' /\ enums' \subseteq enums \cup {n}
      /\ opaque \subseteq opaque' /\ opaque' \subseteq opaque \cup {n}
      /\ names(typedefs) \subseteq names(typedefs') /\ names(typedefs') \subseteq names(typedefs) \cup {n}
  BY <1>2 DEF Settles
<1>5. QED
  BY <1>1, <1>3, <1>4 DEF known

-----------------------------------------------------------------------------
(* Progress.                                                               *)

\* No turn of the loop is idle, in any unit and any order: a name popped again
\* is only dropped. With finitely many names the loop must end.
THEOREM EveryTurnCounts == Spec => Progresses
<1>1. ASSUME IInv, Next
      PROVE  \/ known \subseteq known' /\ known' # known
             \/ known' = known /\ queue' \subseteq queue /\ queue' # queue
  <2>1. PICK n \in queue : \/ Skip(n) \/ PullRecord(n) \/ PullAnonRecord(n) \/ PullEnum(n)
                           \/ PullTypedef(n) \/ StubSelfAlias(n) \/ StubUndefined(n)
    BY <1>1 DEF Next
  <2>2. CASE Skip(n)
    BY <2>2 DEF Skip, known
  <2>3. CASE ~Skip(n)
    <3>1. Settles(n)
      BY <1>1, <2>1, <2>3, TurnSettles
    <3>2. QED
      BY <1>1, <3>1, SettledIsKnown DEF Settles
  <2>4. QED
    BY <2>2, <2>3
<1>2. QED
  BY Inductive, <1>1, PTL DEF Spec, Progresses

-----------------------------------------------------------------------------
(* What the walk makes of a unit.                                          *)

\* The tables, as a function of the names settled so far.
Tables ==
    LET pulled == known \ seeds(unit)
    IN  /\ seeds(unit) \subseteq known
        /\ records = unit.records \cup UNION {parts_of(unit, n) : n \in pulled}
        /\ enums = unit.enums \cup (pulled \cap indexed_enums(unit))
        /\ typedefs = unit.typedefs \cup UNION {aliases_of(unit, n) : n \in pulled}
        /\ opaque = {n \in pulled \ (names(records) \cup indexed_enums(unit)) :
                        aliases_of(unit, n) = {}}

\* What a settled name leads to is settled or queued.
Followed ==
    /\ roots(unit) \subseteq known \cup queue
    /\ \A n \in known \ seeds(unit) : references(unit, n) \subseteq known \cup queue

\* Nothing else is.
Needed == known \cup queue \subseteq reached(unit)

WalkInv == IInv /\ Tables /\ Followed /\ Needed

\* A hoisted name leads nowhere: it is settled beside the member.
LEMMA HoistedLeadsNowhere ==
    ASSUME unit \in Units, NEW n \in hoisted(unit)
    PROVE  /\ parts_of(unit, n) = {} /\ aliases_of(unit, n) = {} /\ n \notin indexed_enums(unit)
           /\ references(unit, n) = {}
<1>1. hoisted(unit) \cap (DOMAIN unit.rec_by_name \cup DOMAIN unit.anon_typedef_rec
                          \cup unit.enum_by_name \cup unit.anon_typedef_enum
                          \cup names(unit.typedef_by_name) \cup names(unit.typedefs)) = {}
  BY UnitFacts DEF Lowers
<1>2. parts_of(unit, n) = {} /\ n \notin indexed_enums(unit)
  BY <1>1 DEF parts_of, indexed_enums
<1>3. aliases_of(unit, n) = {}
  BY <1>1 DEF aliases_of, names
<1>4. QED
  BY <1>2, <1>3 DEF references, names, refs_of

LEMMA PartsBesideName ==
    ASSUME unit \in Units, NEW n, NEW m \in names(parts_of(unit, n))
    PROVE  m = n \/ m \in hoisted(unit)
<1>1. names({}) = {}
  BY DEF names
<1>2. QED
  BY <1>1, OneKind

LEMMA OnePart ==
    ASSUME unit \in Units, Tables, NEW n,
           NEW p \in parts_of(unit, n), p.name \in names(records)
    PROVE  p \in records
<1> DEFINE pool == unit.records \cup UNION lowered_parts(unit)
<1>1. \A m : parts_of(unit, m) \subseteq pool
  BY OneKind
<1>2. records \subseteq pool
  BY <1>1 DEF Tables
<1>3. PICK q \in records : q.name = p.name
  BY DEF names
<1>4. \A r, q2 \in pool : r.name = q2.name => r = q2
  BY UnitFacts DEF Lowers
<1>5. QED
  BY <1>1, <1>2, <1>3, <1>4

LEMMA TablesStep ==
    ASSUME WalkInv, NEW n \in queue, Settles(n)
    PROVE  Tables'
<1> DEFINE pulled == known \ seeds(unit)
           parts == parts_of(unit, n)
<1>1. /\ unit \in Units /\ IInv /\ Tables /\ unit' = unit
      /\ n \notin known /\ seeds(unit) \subseteq known
  BY DEF WalkInv, IInv, Tables, Settles
<1>2. known' = known \cup {n} \cup names(parts)
  BY <1>1, SettledIsKnown
<1>3. pulled' = pulled \cup {n} \cup (names(parts) \ seeds(unit))
  BY <1>1, <1>2
<1>4. \A m \in names(parts) : m = n \/ (/\ parts_of(unit, m) = {} /\ aliases_of(unit, m) = {}
                                       /\ m \notin indexed_enums(unit) /\ m \in hoisted(unit))
  BY <1>1, PartsBesideName, HoistedLeadsNowhere
<1>5. records' = unit.records \cup UNION {parts_of(unit, m) : m \in pulled'}
  <2>1. records' = records \cup parts
    BY <1>1, OnePart DEF Settles
  <2>2. UNION {parts_of(unit, m) : m \in pulled'} = (UNION {parts_of(unit, m) : m \in pulled}) \cup parts
    <3> HIDE DEF pulled, parts
    <3>1. \A m \in pulled' : m \in pulled \/ m = n \/ parts_of(unit, m) = {}
      BY <1>3, <1>4
    <3>2. pulled \subseteq pulled' /\ n \in pulled'
      BY <1>3
    <3>3. QED
      BY <3>1, <3>2 DEF parts
  <2>3. records = unit.records \cup UNION {parts_of(unit, m) : m \in pulled}
    BY <1>1 DEF Tables
  <2>4. QED
    BY <2>1, <2>2, <2>3
<1>6. enums' = unit.enums \cup (pulled' \cap indexed_enums(unit))
  <2>1. pulled' \cap indexed_enums(unit) = (pulled \cap indexed_enums(unit)) \cup ({n} \cap indexed_enums(unit))
    <3> HIDE DEF pulled, parts
    <3>1. QED
      BY <1>3, <1>4
  <2>2. enums = unit.enums \cup (pulled \cap indexed_enums(unit))
    BY <1>1 DEF Tables
  <2>3. QED
    BY <2>1, <2>2 DEF Settles
<1>7. typedefs' = unit.typedefs \cup UNION {aliases_of(unit, m) : m \in pulled'}
  <2>1. UNION {aliases_of(unit, m) : m \in pulled'}
        = (UNION {aliases_of(unit, m) : m \in pulled}) \cup aliases_of(unit, n)
    <3> HIDE DEF pulled, parts
    <3>1. \A m \in pulled' : m \in pulled \/ m = n \/ aliases_of(unit, m) = {}
      BY <1>3, <1>4
    <3>2. pulled \subseteq pulled' /\ n \in pulled'
      BY <1>3
    <3>3. QED
      BY <3>1, <3>2
  <2>2. typedefs = unit.typedefs \cup UNION {aliases_of(unit, m) : m \in pulled}
    BY <1>1 DEF Tables
  <2>3. QED
    BY <2>1, <2>2 DEF Settles
<1>8. names(records') = names(records) \cup names(parts)
  <2>1. records' = records \cup parts
    BY <1>1, OnePart DEF Settles
  <2>2. QED
    BY <2>1 DEF names
<1>9. opaque' = {m \in pulled' \ (names(records') \cup indexed_enums(unit)) : aliases_of(unit, m) = {}}
  <2>1. opaque = {m \in pulled \ (names(records) \cup indexed_enums(unit)) : aliases_of(unit, m) = {}}
    BY <1>1 DEF Tables
  <2>2. opaque' = opaque \cup {m \in {n} : m \notin names(parts) \cup indexed_enums(unit)
                                         /\ aliases_of(unit, m) = {}}
    BY DEF Settles
  <2>3. \A m \in opaque : m \notin names(parts)
    <3>1. SUFFICES ASSUME NEW m \in opaque, m \in names(parts) PROVE FALSE
      OBVIOUS
    <3>2. m \in known
      BY DEF known
    <3>3. m \in hoisted(unit)
      BY <1>1, <1>4, <3>1, <3>2
    <3>4. m \in names(records) /\ opaque \cap names(records) = {}
      BY <1>1, <3>3 DEF IInv, HoistedKnown, TypeOK
    <3>5. QED
      BY <3>4
  <2>4. n \notin names(records)
    BY <1>1 DEF known
  <2> HIDE DEF pulled, parts
  <2>5. QED
    BY <1>3, <1>8, <2>1, <2>2, <2>3, <2>4
<1>10. seeds(unit) \subseteq known'
  BY <1>1, <1>2
<1>11. QED
  BY <1>1, <1>5, <1>6, <1>7, <1>9, <1>10 DEF Tables

LEMMA FollowedStep ==
    ASSUME WalkInv, NEW n \in queue, Settles(n)
    PROVE  Followed'
<1>1. /\ unit \in Units /\ IInv /\ Followed /\ unit' = unit
  BY DEF WalkInv, IInv, Settles
<1>2. known' = known \cup {n} \cup names(parts_of(unit, n))
  BY <1>1, SettledIsKnown
<1>3. queue' = (queue \ {n}) \cup refs_of(parts_of(unit, n)) \cup refs_of(aliases_of(unit, n))
  BY DEF Settles
<1>4. known \cup queue \subseteq known' \cup queue' /\ references(unit, n) \subseteq known' \cup queue'
  BY <1>2, <1>3 DEF references
<1>5. \A m \in known' : m \in known \/ m = n \/ references(unit, m) = {}
  BY <1>1, <1>2, PartsBesideName, HoistedLeadsNowhere
<1>6. \A m \in known \ seeds(unit) : references(unit, m) \subseteq known \cup queue
  BY <1>1 DEF Followed
<1>7. \A m \in known' \ seeds(unit) : references(unit, m) \subseteq known' \cup queue'
  BY <1>4, <1>5, <1>6
<1>8. roots(unit) \subseteq known' \cup queue'
  BY <1>1, <1>4 DEF Followed
<1>9. QED
  BY <1>1, <1>7, <1>8 DEF Followed

LEMMA NeededStep ==
    ASSUME WalkInv, NEW n \in queue, Settles(n)
    PROVE  Needed'
<1>1. /\ unit \in Units /\ IInv /\ Needed /\ unit' = unit /\ n \notin known /\ seeds(unit) \subseteq known
  BY DEF WalkInv, IInv, Settles, Tables
<1>2. known' \cup queue' \subseteq known \cup queue \cup references(unit, n)
  BY <1>1, SettledIsKnown DEF Settles, references
<1>3. Unit(unit)
  BY <1>1, UnitFacts
<1>4. references(unit, n) \subseteq Names
  <2>1. parts_of(unit, n) \subseteq Part
    BY <1>3 DEF Unit, parts_of
  <2>2. aliases_of(unit, n) \subseteq Typedef
    BY <1>3 DEF Unit, aliases_of
  <2>3. QED
    BY <2>1, <2>2 DEF references, names, refs_of, Part, Typedef
<1>5. n \in reached(unit)
  BY <1>1 DEF Needed
<1>6. references(unit, n) \subseteq reached(unit)
  <2>1. SUFFICES ASSUME NEW S \in SUBSET Names, closed(unit, S) PROVE references(unit, n) \subseteq S
    BY <1>4 DEF reached
  <2>2. n \in S /\ n \notin seeds(unit)
    BY <1>1, <1>5, <2>1 DEF reached
  <2>3. QED
    BY <2>1, <2>2 DEF closed
<1>7. QED
  BY <1>1, <1>2, <1>6 DEF Needed

LEMMA WalkInit == Init => WalkInv
<1> SUFFICES ASSUME Init PROVE WalkInv
  OBVIOUS
<1>1. IInv /\ Unit(unit)
  BY InitInv, UnitFacts DEF Init
<1>2. known = seeds(unit) /\ known \cup queue = roots(unit)
  BY DEF Init, known, seeds, roots
<1>3. Tables
  BY <1>2 DEF Init, Tables
<1>4. Followed
  BY <1>2 DEF Followed
<1>5. Needed
  <2>1. known \cup queue \subseteq Names
    BY <1>1 DEF IInv, TypeOK, known, names, Part, Typedef
  <2>2. QED
    BY <1>2, <2>1 DEF Needed, reached, closed
<1>6. QED
  BY <1>1, <1>3, <1>4, <1>5 DEF WalkInv

LEMMA WalkStep == WalkInv /\ [Next]_vars => WalkInv'
<1> SUFFICES ASSUME WalkInv, [Next]_vars PROVE WalkInv'
  OBVIOUS
<1>1. IInv'
  BY NextInv DEF WalkInv
<1>2. CASE UNCHANGED vars
  BY <1>1, <1>2 DEF vars, WalkInv, Tables, Followed, Needed, known
<1>3. ASSUME NEW n \in queue, Skip(n) PROVE WalkInv'
  <2>1. UNCHANGED <<unit, records, enums, typedefs, opaque>> /\ queue' = queue \ {n} /\ n \in known
    BY <1>3 DEF Skip
  <2>2. known' = known
    BY <2>1 DEF known
  <2>3. Tables'
    BY <2>1, <2>2 DEF WalkInv, Tables
  <2>4. known' \cup queue' = known \cup queue
    BY <2>1, <2>2
  <2>5. Followed' /\ Needed'
    BY <2>1, <2>2, <2>4 DEF WalkInv, Followed, Needed
  <2>6. QED
    BY <1>1, <2>3, <2>5 DEF WalkInv
<1>4. ASSUME NEW n \in queue, Settles(n) PROVE WalkInv'
  BY <1>1, <1>4, TablesStep, FollowedStep, NeededStep DEF WalkInv
<1>5. CASE Next
  BY <1>3, <1>4, <1>5, TurnSettles DEF WalkInv, Next
<1>6. QED
  BY <1>2, <1>5

\* At every step, in every unit and every order: the tables hold what the names
\* settled so far stand for, and those names are needed.
THEOREM Walk == Spec => []WalkInv
  BY WalkInit, WalkStep, PTL DEF Spec

\* The closure pulls in only what the phnt definitions lead to, in every unit.
THEOREM ClosureIsMinimal == Spec => []Minimal
<1>1. WalkInv => Minimal
  BY DEF WalkInv, Needed, Minimal
<1>2. QED
  BY <1>1, Walk, PTL

\* The closure of a unit does not depend on the order in which names are popped,
\* whatever the unit: it is closure_of(unit).
THEOREM ClosureIsAFunction == Spec => []OrderDecidesNothing
<1>1. WalkInv => OrderDecidesNothing
  <2> SUFFICES ASSUME WalkInv, Done
               PROVE  [records |-> records, enums |-> enums, typedefs |-> typedefs,
                       opaque |-> opaque] = closure_of(unit)
    BY DEF OrderDecidesNothing
  <2>1. known \subseteq reached(unit)
    BY DEF WalkInv, Needed
  <2>2. closed(unit, known)
    BY DEF WalkInv, Followed, Done, closed
  <2>3. known \in SUBSET Names
    BY <2>1 DEF reached
  <2>4. known = reached(unit)
    BY <2>1, <2>2, <2>3 DEF reached
  <2>5. QED
    BY <2>4 DEF WalkInv, Tables, closure_of
<1>2. QED
  BY <1>1, Walk, PTL

\* An unresolved name is written out of no table.
LEMMA UnresolvedIsNotEmitted ==
    ASSUME WalkInv, NEW n \in unresolved(unit)
    PROVE  n \notin emitted
<1>1. PICK t \in unit.typedefs : t.name = n /\ self_alias(t)
  BY DEF unresolved, names
<1>2. /\ n \notin names(unit.records) /\ n \notin unit.enums
      /\ unit \in Units /\ TypeOK /\ Tables
  BY DEF unresolved, WalkInv, IInv
<1>3. n \in seeds(unit) /\ n \notin hoisted(unit)
  BY <1>1, <1>2, UnitFacts DEF seeds, names, Lowers
<1>4. n \notin names(records)
  <2>1. SUFFICES ASSUME NEW p \in records, p.name = n PROVE FALSE
    BY DEF names
  <2>2. PICK m \in known \ seeds(unit) : p \in parts_of(unit, m)
    BY <1>2, <2>1 DEF Tables, names
  <2>3. n \in names(parts_of(unit, m))
    BY <2>1, <2>2 DEF names
  <2>4. QED
    BY <1>2, <1>3, <2>2, <2>3, PartsBesideName
<1>5. n \notin enums
  BY <1>2, <1>3 DEF Tables
<1>6. n \notin opaque
  <2>1. n \in names(typedefs)
    BY <1>1, <1>2 DEF Tables, names
  <2>2. QED
    BY <1>2, <2>1 DEF TypeOK
<1>7. n \notin names({s \in typedefs : ~self_alias(s)})
  <2>1. SUFFICES ASSUME NEW s \in typedefs, ~self_alias(s), s.name = n PROVE FALSE
    BY DEF names
  <2>2. s \notin unit.typedefs
    BY <1>1, <1>2, <2>1, UnitFacts DEF Unit
  <2>3. PICK m \in known \ seeds(unit) : s \in aliases_of(unit, m)
    BY <1>2, <2>1, <2>2 DEF Tables
  <2>4. QED
    BY <1>3, <2>1, <2>3 DEF aliases_of
<1>8. QED
  BY <1>4, <1>5, <1>6, <1>7 DEF emitted

\* What dangles is exactly what is mentioned of the names that phnt aliases to
\* themselves without a named definition of its own.
THEOREM WhatDangles == Spec => []UnresolvedSeedsDangle
<1>1. IInv /\ WalkInv => UnresolvedSeedsDangle
  <2> SUFFICES ASSUME IInv, WalkInv, Done
               PROVE  mentioned \ emitted = mentioned \cap unresolved(unit)
    BY DEF UnresolvedSeedsDangle
  <2>1. ClosedWhenDone
    BY ClosedInv
  <2>2. mentioned \ emitted \subseteq names({t \in unit.typedefs : self_alias(t)})
    BY <2>1 DEF ClosedWhenDone
  <2>3. names(unit.records) \subseteq names(records) /\ unit.enums \subseteq enums
    BY DEF WalkInv, Tables, names
  <2>4. mentioned \ emitted \subseteq unresolved(unit)
    BY <2>2, <2>3 DEF emitted, unresolved
  <2>5. unresolved(unit) \cap emitted = {}
    BY UnresolvedIsNotEmitted
  <2>6. QED
    BY <2>4, <2>5
<1>2. QED
  BY <1>1, Inductive, Walk, PTL
=============================================================================
