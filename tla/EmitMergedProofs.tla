--------------------------- MODULE EmitMergedProofs ---------------------------
(***************************************************************************)
(* Merged emission, proved for every set of cells, every table of versions *)
(* and every closure a cell may have.                                      *)
(***************************************************************************)
EXTENDS FoldedCell, MergeProofs

\* A cell's closure holds one rendering of a name in each name space: its
\* tables are keyed by name.
OneRenderingPerName ==
    \A cl \in Closures : \A r, s \in cell_renderings(cl) :
        r.space = s.space /\ r.name = s.name => r = s

\* A cell's closure is closed: what a rendering mentions is rendered in the
\* cell, or opaque there and no record, enum or typedef of any shape.
ClosedClosures ==
    \A cl \in Closures : \A r \in cell_renderings(cl) : \A n \in r.mentions :
        \/ \E d \in cell_renderings(cl) : d.space = "type" /\ d.name = n
        \/ /\ n \in cl.opaque
           /\ \A k \in cell_keys(cl) : k.kind # "Function" => k.name # n

-----------------------------------------------------------------------------
(* The inductive invariant: the fold holds exactly what the folded cells    *)
(* contain, each later phase is reached by the checks before it, and a      *)
(* crate exists only as their result.                                       *)

Folded == Captured \ todo

InputInv ==
    /\ Captured \in SUBSET Capturable
    /\ input \in [Captured -> Closures \cup {Unparsable}]
    /\ todo \subseteq Captured

FoldInv ==
    /\ \A c \in Folded : input[c] \in Closures
    /\ occs = [k \in Keys |-> {c \in Folded : k \in cell_keys(input[c])}]
    /\ rendered = [r \in Renderings |-> {c \in Folded : r \in cell_renderings(input[c])}]
    /\ opaque_occs = [n \in Names |-> {c \in Folded : n \in input[c].opaque}]
    /\ abi \in [Renderings -> SUBSET Abi]

PhaseInv ==
    /\ phase \in Phase
    /\ phase \in {"fold", "unreadable"} => axis = {}
    /\ phase \notin {"fold", "unreadable"} => todo = {} /\ axis = Captured
    /\ phase \in {"gate_closure", "assemble", "done"} => check_round_trip
    /\ phase = "phantom" => ~check_round_trip
    /\ phase = "dangling" => ~check_gate_closure
    /\ phase # "done" => crate = {}
    /\ phase = "done" => crate = assemble_opaque \cup assemble_renderings

IInv == InputInv /\ FoldInv /\ PhaseInv

LEMMA ClosureTypes ==
    ASSUME NEW cl \in Closures
    PROVE  /\ cell_keys(cl) \subseteq Keys /\ cell_keys(cl) # {}
           /\ cell_renderings(cl) \subseteq Renderings
           /\ cl.opaque \subseteq Names
<1>1. /\ cl.keys \in SUBSET Keys /\ cl.keys # {} /\ cl.renderings \in SUBSET Renderings
      /\ cl.fns \in Seq([key : Keys, rendering : Renderings, conv : CallingConv]) /\ cl.opaque \in SUBSET Names
  BY EmitAssumption
<1>2. first_decls(cl.fns) \subseteq [key : Keys, rendering : Renderings, conv : CallingConv]
  <2> DEFINE fns == cl.fns
             Decls == [key : Keys, rendering : Renderings, conv : CallingConv]
  <2> HIDE DEF fns, Decls
  <2>1. fns \in Seq(Decls)
    BY <1>1 DEF fns, Decls
  <2>2. \A i \in DOMAIN fns : fns[i] \in Decls
    BY <2>1
  <2>3. first_decls(fns) \subseteq Decls
    BY <2>2 DEF first_decls
  <2>4. QED
    BY <2>3 DEF fns, Decls
<1>3. QED
  BY <1>1, <1>2 DEF cell_keys, cell_renderings

LEMMA InitInv == Init => IInv
<1> SUFFICES ASSUME Init PROVE IInv
  OBVIOUS
<1>1. PICK cells \in (SUBSET Capturable) \ {{}} :
          input \in [cells -> Closures \cup {Unparsable}]
  BY DEF Init
<1>2. Captured = cells
  BY <1>1 DEF Captured
<1>3. InputInv
  BY <1>1, <1>2 DEF InputInv, Init, Captured
<1>4. Folded = {}
  BY DEF Folded, Captured, Init
<1>5. FoldInv
  BY <1>4 DEF FoldInv, Init
<1>6. PhaseInv
  BY DEF PhaseInv, Init, Phase
<1>7. QED
  BY <1>3, <1>5, <1>6 DEF IInv

LEMMA FoldStep ==
    ASSUME IInv, NEW c \in todo, FoldCell(c)
    PROVE  IInv'
<1>1. Captured' = Captured /\ c \in Captured /\ input[c] \in Closures
  BY DEF FoldCell, Captured, IInv, InputInv
<1>2. Folded' = Folded \cup {c}
  BY <1>1 DEF Folded, FoldCell, IInv, InputInv
<1>3. InputInv'
  BY <1>1 DEF IInv, InputInv, FoldCell
<1>4. FoldInv'
  <2>1. \A d \in Folded' : input'[d] \in Closures
    BY <1>1, <1>2 DEF FoldCell, IInv, FoldInv
  <2>2. occs' = [k \in Keys |-> {d \in Folded' : k \in cell_keys(input'[d])}]
    BY <1>1, <1>2 DEF FoldCell, IInv, FoldInv
  <2>3. rendered' = [r \in Renderings |-> {d \in Folded' : r \in cell_renderings(input'[d])}]
    BY <1>1, <1>2 DEF FoldCell, IInv, FoldInv
  <2>4. opaque_occs' = [n \in Names |-> {d \in Folded' : n \in input'[d].opaque}]
    BY <1>1, <1>2 DEF FoldCell, IInv, FoldInv
  <2>5. abi' \in [Renderings -> SUBSET Abi]
    BY DEF FoldCell, IInv, FoldInv, reported_abi, Abi
  <2>6. QED
    BY <2>1, <2>2, <2>3, <2>4, <2>5 DEF FoldInv
<1>5. PhaseInv'
  BY DEF FoldCell, IInv, PhaseInv
<1>6. QED
  BY <1>3, <1>4, <1>5 DEF IInv

LEMMA ExtentStep ==
    ASSUME IInv, CaptureExtent
    PROVE  IInv'
<1>1. Captured' = Captured /\ Folded' = Folded /\ Folded = Captured
  BY DEF CaptureExtent, Captured, Folded
<1>2. InputInv' /\ FoldInv'
  BY <1>1 DEF CaptureExtent, IInv, InputInv, FoldInv
<1>3. axis' = Captured
  <2>1. axis' \subseteq Captured
    BY <1>1 DEF CaptureExtent, IInv, FoldInv
  <2>2. ASSUME NEW c \in Captured PROVE c \in axis'
    <3>1. input[c] \in Closures
      BY <1>1 DEF IInv, FoldInv
    <3>2. PICK k \in Keys : k \in cell_keys(input[c])
      BY <3>1, ClosureTypes
    <3>3. c \in occs[k]
      BY <1>1, <3>2 DEF IInv, FoldInv
    <3>4. QED
      BY <3>3 DEF CaptureExtent
  <2>3. QED
    BY <2>1, <2>2
<1>4. PhaseInv'
  BY <1>1, <1>3 DEF CaptureExtent, IInv, PhaseInv, Phase
<1>5. QED
  BY <1>2, <1>4 DEF IInv

LEMMA LaterSteps ==
    ASSUME IInv,
           \/ \E c \in todo : FoldFails(c)
           \/ CheckRoundTrip \/ CheckGateClosure \/ Assemble
           \/ UNCHANGED vars
    PROVE  IInv'
<1>1. UNCHANGED <<input, todo, occs, rendered, opaque_occs, abi, axis>>
  BY DEF FoldFails, CheckRoundTrip, CheckGateClosure, Assemble, vars
<1>2. Captured' = Captured /\ Folded' = Folded
  BY <1>1 DEF Captured, Folded
<1>3. InputInv' /\ FoldInv'
  BY <1>1, <1>2 DEF IInv, InputInv, FoldInv
<1>4. check_round_trip' = check_round_trip
  BY <1>1 DEF check_round_trip
<1>5. check_gate_closure' = check_gate_closure
  BY <1>1 DEF check_gate_closure, defined_occs
<1>6. (assemble_opaque \cup assemble_renderings)' = assemble_opaque \cup assemble_renderings
  BY <1>1 DEF assemble_opaque, assemble_renderings, stamped, undefined_occs, defined_occs
<1>7. PhaseInv'
  <2>1. CASE \E c \in todo : FoldFails(c)
    BY <1>2, <2>1 DEF FoldFails, IInv, PhaseInv, Phase
  <2>2. CASE CheckRoundTrip
    BY <1>2, <1>4, <1>5, <2>2 DEF CheckRoundTrip, IInv, PhaseInv, Phase
  <2>3. CASE CheckGateClosure
    BY <1>2, <1>4, <1>5, <2>3 DEF CheckGateClosure, IInv, PhaseInv, Phase
  <2>4. CASE Assemble
    BY <1>2, <1>4, <1>5, <1>6, <2>4 DEF Assemble, IInv, PhaseInv, Phase
  <2>5. CASE UNCHANGED vars
    <3>1. phase' = phase /\ crate' = crate
      BY <2>5 DEF vars
    <3>2. QED
      BY <1>1, <1>2, <1>4, <1>5, <1>6, <3>1 DEF IInv, PhaseInv
  <2>6. QED
    BY <2>1, <2>2, <2>3, <2>4, <2>5
<1>8. QED
  BY <1>3, <1>7 DEF IInv

LEMMA NextInv == IInv /\ [Next]_vars => IInv'
  BY FoldStep, ExtentStep, LaterSteps DEF Next

\* The fold state is exactly what the folded cells contain, and a crate is
\* only ever the assembly of a fold that passed the checks.
THEOREM Inductive == Spec => []IInv
  BY InitInv, NextInv, PTL DEF Spec

-----------------------------------------------------------------------------
(* Type correctness.                                                       *)

LEMMA OccsTypes ==
    ASSUME IInv
    PROVE  /\ occs \in [Keys -> SUBSET Captured]
           /\ rendered \in [Renderings -> SUBSET Captured]
           /\ opaque_occs \in [Names -> SUBSET Captured]
           /\ abi \in [Renderings -> SUBSET Abi]
           /\ Captured \in SUBSET Cell
  BY EmitAssumption DEF IInv, InputInv, FoldInv, Folded

LEMMA CrateTypes ==
    ASSUME IInv, phase = "done", NEW e \in crate
    PROVE  /\ e.item \in Renderings \cup {Stub(n) : n \in Names}
           /\ e.pred.on \subseteq Modern
           /\ e.pred.off \subseteq Modern
           /\ e.pred.target_arch \subseteq arches(Captured)
<1>1. axis = Captured /\ axis \in SUBSET Cell /\ e \in assemble_opaque \cup assemble_renderings
  BY OccsTypes DEF IInv, PhaseInv
<1>2. ASSUME NEW item, NEW cells \in SUBSET axis, e \in stamped(item, cells)
      PROVE  /\ e.item = item
             /\ e.pred.on \subseteq Modern
             /\ e.pred.off \subseteq Modern
             /\ e.pred.target_arch \subseteq arches(Captured)
  <2>1. PICK p \in arch_grouped_predicates(cells, axis) : e = [item |-> item, pred |-> p]
    BY <1>2 DEF stamped
  <2>2. p.on \subseteq Modern /\ p.off \subseteq Modern /\ p.target_arch \subseteq arches(cells)
    BY <1>1, StampedType
  <2>3. QED
    BY <1>1, <2>1, <2>2 DEF arches
<1>3. CASE e \in assemble_renderings
  <2>1. PICK r \in Renderings : e \in stamped(r, rendered[r])
    BY <1>3 DEF assemble_renderings
  <2>2. rendered[r] \in SUBSET axis
    BY <1>1, OccsTypes
  <2>3. QED
    BY <1>2, <2>1, <2>2
<1>4. CASE e \in assemble_opaque
  <2>1. PICK n \in Names : e \in stamped(Stub(n), undefined_occs(n))
    BY <1>4 DEF assemble_opaque
  <2>2. undefined_occs(n) \in SUBSET axis
    BY <1>1, OccsTypes DEF undefined_occs
  <2>3. QED
    BY <1>2, <2>1, <2>2
<1>5. QED
  BY <1>1, <1>3, <1>4

\* The fold state and the emitted predicates stay well typed: no predicate
\* names a feature outside the floor's chain or an arch nothing was captured for.
THEOREM TypeCorrect == Spec => []TypeOK
<1>1. IInv => TypeOK
  <2> SUFFICES ASSUME IInv PROVE TypeOK
    OBVIOUS
  <2>1. \A c \in Captured : input[c] \in Closures \cup {Unparsable}
    BY DEF IInv, InputInv
  <2>2. axis \subseteq Captured /\ phase \in Phase
    BY DEF IInv, PhaseInv
  <2>3. \A e \in crate :
          /\ e.item \in Renderings \cup {Stub(n) : n \in Names}
          /\ e.pred.on \subseteq Modern
          /\ e.pred.off \subseteq Modern
          /\ e.pred.target_arch \subseteq arches(Captured)
    <3>1. CASE phase = "done"
      BY <3>1, CrateTypes
    <3>2. CASE phase # "done"
      BY <3>2 DEF IInv, PhaseInv
    <3>3. QED
      BY <3>1, <3>2
  <2>4. Captured \subseteq Capturable /\ todo \subseteq Captured
    BY DEF IInv, InputInv
  <2>5. QED
    BY <2>1, <2>2, <2>3, <2>4, OccsTypes DEF TypeOK
<1>2. QED
  BY Inductive, <1>1, PTL

-----------------------------------------------------------------------------
(* What a build sees.                                                      *)

\* A rendering that a build compiles is in the newest captured cell.
LEMMA CompiledIsCaptured ==
    ASSUME SingleSurface, IInv, phase \in {"assemble", "done"},
           NEW v \in Modern, NEW a \in arches(Captured),
           NEW e \in assemble_opaque \cup assemble_renderings,
           holds(e.pred, level(v), a), e.item.space \in Space
    PROVE  /\ e.item \in Renderings
           /\ e \in stamped(e.item, rendered[e.item])
           /\ \E c \in newest(Captured, v, a) : e.item \in cell_renderings(input[c])
<1>1. axis = Captured /\ axis \in SUBSET Cell /\ check_round_trip /\ Folded = Captured
  BY OccsTypes DEF IInv, PhaseInv, Folded
<1>2. e \notin assemble_opaque
  <2> SUFFICES ASSUME e \in assemble_opaque PROVE FALSE
    OBVIOUS
  <2>1. PICK n \in Names : e.item = Stub(n)
    BY DEF assemble_opaque, stamped
  <2>2. e.item.space = "opaque"
    BY <2>1 DEF Stub
  <2>3. QED
    BY <2>2 DEF Space
<1>3. PICK r \in Renderings : rendered[r] # {} /\ e \in stamped(r, rendered[r])
  BY <1>2 DEF assemble_renderings
<1>4. PICK p \in arch_grouped_predicates(rendered[r], axis) : e = [item |-> r, pred |-> p]
  BY <1>3 DEF stamped
<1>5. rendered[r] \in SUBSET axis /\ exact(rendered[r], axis)
  BY <1>1, <1>3, OccsTypes DEF check_round_trip
<1>6. holds(p, level(v), a) /\ a \in arches(axis)
  BY <1>1, <1>4
<1>7. PICK c \in newest(axis, v, a) : c \in rendered[r]
  BY <1>1, <1>4, <1>5, <1>6, GateFaithful
<1>8. r \in cell_renderings(input[c])
  BY <1>7 DEF IInv, FoldInv
<1>9. e.item = r
  BY <1>4
<1>10. QED
  BY <1>1, <1>3, <1>7, <1>8, <1>9

\* A rendering of the newest captured cell is compiled.
LEMMA CapturedIsCompiled ==
    ASSUME SingleSurface, IInv, phase \in {"assemble", "done"},
           NEW v \in Modern, NEW a \in arches(Captured),
           NEW c \in newest(Captured, v, a),
           NEW r \in cell_renderings(input[c])
    PROVE  \E e \in assemble_renderings : e.item = r /\ holds(e.pred, level(v), a)
<1>1. axis = Captured /\ axis \in SUBSET Cell /\ Folded = Captured
  BY OccsTypes DEF IInv, PhaseInv, Folded
<1>2. c \in Captured /\ input[c] \in Closures
  BY <1>1 DEF newest, IInv, FoldInv
<1>3. r \in Renderings /\ c \in rendered[r]
  BY <1>1, <1>2, ClosureTypes DEF IInv, FoldInv
<1>4. rendered[r] \in SUBSET axis
  BY <1>1, <1>3, OccsTypes
<1>5. PICK p \in arch_grouped_predicates(rendered[r], axis) : holds(p, level(v), a)
  BY <1>1, <1>3, <1>4, StampedCoversNewest
<1>6. [item |-> r, pred |-> p] \in assemble_renderings
  BY <1>3, <1>5 DEF assemble_renderings, stamped
<1>7. QED
  BY <1>5, <1>6

\* With one surface, the newest captured cell of an arch is unique.
LEMMA NewestIsUnique ==
    ASSUME SingleSurface, IInv, NEW v, NEW a,
           NEW c \in newest(Captured, v, a), NEW d \in newest(Captured, v, a)
    PROVE  c = d
<1>1. c \in Cell /\ d \in Cell
  BY OccsTypes DEF newest
<1>2. c.ordinal \in Nat /\ d.ordinal \in Nat
  BY <1>1, MatrixAssumption DEF Cell
<1>3. c.ordinal = d.ordinal /\ c.arch = d.arch
  BY <1>2 DEF newest
<1>4. c.surface = d.surface
  BY <1>1 DEF SingleSurface, Cell
<1>5. QED
  BY <1>1, <1>3, <1>4 DEF Cell

-----------------------------------------------------------------------------
(* Safety of the emitted crate.                                            *)

\* No build compiles two definitions of one name, for any table of versions,
\* any captured extent on one surface and any closures keyed by name.
THEOREM NeverTwoDefinitions ==
    ASSUME SingleSurface, OneRenderingPerName
    PROVE  Spec => []OneDefinitionPerName
<1>1. IInv => OneDefinitionPerName
  <2> SUFFICES ASSUME IInv, NEW v \in Modern, NEW a \in arches(Captured),
                      NEW e \in Compiled(v, a), NEW f \in Compiled(v, a),
                      e.item.space \in Space,
                      e.item.space = f.item.space, e.item.name = f.item.name
               PROVE  e = f
    BY DEF OneDefinitionPerName
  <2>1. /\ phase = "done" /\ crate = assemble_opaque \cup assemble_renderings
        /\ axis = Captured /\ axis \in SUBSET Cell
    BY OccsTypes DEF IInv, PhaseInv, Compiled
  <2>2. /\ e \in assemble_opaque \cup assemble_renderings
        /\ f \in assemble_opaque \cup assemble_renderings
        /\ holds(e.pred, level(v), a) /\ holds(f.pred, level(v), a)
    BY <2>1 DEF Compiled
  <2>3. PICK c \in newest(Captured, v, a) : e.item \in cell_renderings(input[c])
    BY <2>1, <2>2, CompiledIsCaptured
  <2>4. PICK d \in newest(Captured, v, a) : f.item \in cell_renderings(input[d])
    BY <2>1, <2>2, CompiledIsCaptured
  <2>5. c = d
    BY NewestIsUnique
  <2>6. c \in Captured /\ input[c] \in Closures
    BY <2>1 DEF newest, IInv, PhaseInv, FoldInv, Folded
  <2>7. e.item = f.item
    BY <2>3, <2>4, <2>5, <2>6 DEF OneRenderingPerName
  <2>8. /\ e.item \in Renderings
        /\ e \in stamped(e.item, rendered[e.item]) /\ f \in stamped(e.item, rendered[e.item])
    BY <2>1, <2>2, <2>7, CompiledIsCaptured
  <2>9. rendered[e.item] \in SUBSET axis
    BY <2>1, <2>8, OccsTypes
  <2>10. e.pred = f.pred
    BY <2>1, <2>2, <2>8, <2>9, OnePredicatePerArch DEF stamped
  <2>11. QED
    BY <2>7, <2>8, <2>10 DEF stamped
<1>2. QED
  BY Inductive, <1>1, PTL

\* Every name a compiled item mentions is compiled with it, for any table of
\* versions, any captured extent on one surface and any closed closures.
THEOREM EveryMentionResolves ==
    ASSUME SingleSurface, ClosedClosures
    PROVE  Spec => []MentionsResolve
<1>1. IInv => MentionsResolve
  <2> SUFFICES ASSUME IInv, NEW v \in Modern, NEW a \in arches(Captured),
                      NEW e \in Compiled(v, a), e.item.space \in Space,
                      NEW n \in e.item.mentions
               PROVE  \E d \in Compiled(v, a) :
                         d.item.space \in {"type", "opaque"} /\ d.item.name = n
    BY DEF MentionsResolve
  <2>1. /\ phase = "done" /\ crate = assemble_opaque \cup assemble_renderings
        /\ axis = Captured /\ axis \in SUBSET Cell /\ Folded = Captured
    BY OccsTypes DEF IInv, PhaseInv, Compiled, Folded
  <2>2. PICK c \in newest(Captured, v, a) : e.item \in cell_renderings(input[c])
    BY <2>1, CompiledIsCaptured DEF Compiled
  <2>3. c \in Captured /\ input[c] \in Closures
    BY <2>1 DEF newest, IInv, FoldInv
  <2>4. CASE \E d \in cell_renderings(input[c]) : d.space = "type" /\ d.name = n
    <3>1. PICK d \in cell_renderings(input[c]) : d.space = "type" /\ d.name = n
      BY <2>4
    <3>2. PICK f \in assemble_renderings : f.item = d /\ holds(f.pred, level(v), a)
      BY <2>1, CapturedIsCompiled
    <3>3. QED
      BY <2>1, <3>1, <3>2 DEF Compiled
  <2>5. CASE /\ n \in input[c].opaque
             /\ \A k \in cell_keys(input[c]) : k.kind # "Function" => k.name # n
    <3>1. n \in Names /\ c \in opaque_occs[n]
      BY <2>1, <2>3, <2>5, ClosureTypes DEF IInv, FoldInv
    <3>2. c \notin defined_occs(n)
      BY <2>5 DEF defined_occs, IInv, FoldInv
    <3>3. c \in undefined_occs(n) /\ undefined_occs(n) \in SUBSET axis
      BY <2>1, <3>1, <3>2, OccsTypes DEF undefined_occs
    <3>4. PICK p \in arch_grouped_predicates(undefined_occs(n), axis) : holds(p, level(v), a)
      BY <2>1, <3>3, StampedCoversNewest
    <3>5. [item |-> Stub(n), pred |-> p] \in assemble_opaque
      BY <3>1, <3>3, <3>4 DEF assemble_opaque, stamped
    <3>6. [item |-> Stub(n), pred |-> p] \in Compiled(v, a)
      BY <2>1, <3>4, <3>5 DEF Compiled
    <3>7. QED
      BY <3>6 DEF Stub
  <2>6. QED
    BY <2>2, <2>3, <2>4, <2>5 DEF ClosedClosures
<1>2. QED
  BY Inductive, <1>1, PTL

\* The round trip refuses nothing but an item that is missing in the middle of the
\* cells it occurs in, on any number of surfaces.
THEOREM RefusalsAreWarranted == Spec => []RefusedForAGap
<1>1. IInv => RefusedForAGap
  <2> SUFFICES ASSUME IInv, phase = "phantom"
               PROVE  (\E k \in Keys : gap(occs[k])) \/ (\E r \in Renderings : gap(rendered[r]))
    BY DEF RefusedForAGap
  <2>1. axis \in SUBSET Cell /\ axis = Captured /\ ~check_round_trip
    BY OccsTypes DEF IInv, PhaseInv
  <2>2. ASSUME NEW cells \in SUBSET axis, cells # {}, ~exact(cells, axis) PROVE gap(cells)
    BY <2>1, <2>2, InexactHasGap DEF gap
  <2>3. CASE \E k \in Keys : occs[k] # {} /\ ~exact(occs[k], axis)
    BY <2>1, <2>2, <2>3, OccsTypes
  <2>4. CASE \E r \in Renderings : rendered[r] # {} /\ ~exact(rendered[r], axis)
    BY <2>1, <2>2, <2>4, OccsTypes
  <2>5. QED
    BY <2>1, <2>3, <2>4 DEF check_round_trip
<1>2. QED
  BY Inductive, <1>1, PTL

-----------------------------------------------------------------------------
(* Refinement.                                                             *)

LEMMA NothingCompiledYet ==
    ASSUME crate = {}
    PROVE  visibleItems = [v \in Modern |-> [a \in arches(Captured) |-> {}]]
<1>1. \A v \in Modern : \A a \in arches(Captured) :
        {e.item : e \in Compiled(v, a)} \cap Renderings = {}
  BY DEF Compiled
<1>2. QED
  BY <1>1 DEF visibleItems

LEMMA AssemblyIsProjection ==
    ASSUME SingleSurface, IInv, Assemble
    PROVE  visibleItems' = [v \in Modern |-> [a \in arches(Captured) |->
                               UNION {cellShape[c] : c \in newest(Captured, v, a)}]]
<1>1. /\ Captured' = Captured /\ phase = "assemble"
      /\ crate' = assemble_opaque \cup assemble_renderings
  BY DEF Assemble, Captured
<1>2. \A c \in Captured : input[c] \in Closures /\ input[c] # Unparsable
  BY <1>1, EmitAssumption DEF IInv, FoldInv, PhaseInv, Folded
<1>3. ASSUME NEW v \in Modern, NEW a \in arches(Captured)
      PROVE  {e.item : e \in Compiled(v, a)'} \cap Renderings
                = UNION {cellShape[c] : c \in newest(Captured, v, a)}
  <2>1. Compiled(v, a)' = {e \in crate' : holds(e.pred, level(v), a)}
    BY DEF Compiled
  <2>2. \A c \in newest(Captured, v, a) : cellShape[c] = cell_renderings(input[c])
    BY <1>2 DEF cellShape, newest
  <2>3. ASSUME NEW e \in Compiled(v, a)', e.item \in Renderings
        PROVE  \E c \in newest(Captured, v, a) : e.item \in cellShape[c]
    <3>1. /\ e \in assemble_opaque \cup assemble_renderings
          /\ holds(e.pred, level(v), a) /\ e.item.space \in Space
      BY <1>1, <2>1, <2>3, EmitAssumption
    <3>2. QED
      BY <1>1, <2>2, <3>1, CompiledIsCaptured
  <2>4. ASSUME NEW c \in newest(Captured, v, a), NEW r \in cellShape[c]
        PROVE  r \in Renderings /\ \E e \in Compiled(v, a)' : e.item = r
    <3>1. r \in cell_renderings(input[c]) /\ input[c] \in Closures
      BY <1>2, <2>2 DEF newest
    <3>2. QED
      BY <1>1, <2>1, <3>1, CapturedIsCompiled, ClosureTypes
  <2> HIDE DEF Compiled
  <2>5. QED
    BY <2>3, <2>4
<1>4. \A v \in Modern : [a \in arches(Captured) |-> {e.item : e \in Compiled(v, a)'} \cap Renderings]
         = [a \in arches(Captured) |-> UNION {cellShape[c] : c \in newest(Captured, v, a)}]
  BY <1>3
<1>5. visibleItems' = [v \in Modern |-> [a \in arches(Captured) |->
                         {e.item : e \in Compiled(v, a)'} \cap Renderings]]
  BY <1>1 DEF visibleItems
<1>6. QED
  BY <1>4, <1>5

\* Merged emission implements GatedCrate: whatever cells are captured on one
\* surface, a build sees exactly the items of one captured cell or the
\* generation is refused.
THEOREM EmissionIsFaithful ==
    ASSUME SingleSurface
    PROVE  Spec => ImplementsGatedCrate
<1>1. Init => Crate!CrateInit
  <2> SUFFICES ASSUME Init PROVE Crate!CrateInit
    OBVIOUS
  <2>1. IInv
    BY InitInv
  <2>2. Captured \in SUBSET Cell
    BY <2>1, OccsTypes
  <2>3. cellShape \in [Captured -> SUBSET Renderings]
    <3>1. \A c \in Captured : input[c] \in Closures \cup {Unparsable}
      BY <2>1 DEF IInv, InputInv
    <3>2. QED
      BY <3>1, ClosureTypes DEF cellShape
  <2>4. crateOutcome = "pending"
    BY DEF Init, crateOutcome
  <2>5. visibleItems = [v \in Modern |-> [a \in arches(Captured) |-> {}]]
    BY NothingCompiledYet DEF Init
  <2>6. QED
    BY <2>2, <2>3, <2>4, <2>5
    DEF Crate!CrateInit, Crate!NothingVisible, Crate!Cell, Cell, Crate!Modern, Modern,
        Crate!arches, arches
<1>2. IInv /\ [Next]_vars => [Crate!Publish \/ Crate!Refuse]_Crate!crateVars
  <2> SUFFICES ASSUME IInv, [Next]_vars
               PROVE  [Crate!Publish \/ Crate!Refuse]_Crate!crateVars
    OBVIOUS
  <2>1. input' = input
    BY DEF Next, vars, FoldCell, FoldFails, CaptureExtent, CheckRoundTrip,
           CheckGateClosure, Assemble
  <2>2. /\ Captured' = Captured /\ cellShape' = cellShape
        /\ {c \in Captured : input[c] = Unparsable}' = {c \in Captured : input[c] = Unparsable}
    BY <2>1 DEF Captured, cellShape
  <2>3. ASSUME crate' = crate PROVE visibleItems' = visibleItems
    BY <2>2, <2>3 DEF visibleItems, Compiled
  <2>4. CASE Assemble
    <3>1. crateOutcome = "pending" /\ crateOutcome' = "published"
      BY <2>4 DEF Assemble, crateOutcome
    <3>2. {c \in Captured : input[c] = Unparsable} = {}
      BY <2>4, EmitAssumption DEF Assemble, IInv, FoldInv, PhaseInv, Folded
    <3>3. visibleItems' = [v \in Modern |-> [a \in arches(Captured) |->
                             UNION {cellShape[c] : c \in newest(Captured, v, a)}]]
      BY <2>4, AssemblyIsProjection
    <3>4. Crate!Publish
      BY <2>2, <3>1, <3>2, <3>3
      DEF Crate!Publish, Crate!Projection, Crate!newest, newest, Crate!Modern, Modern,
          Crate!arches, arches
    <3>5. QED
      BY <3>4
  <2>5. CASE /\ crate' = crate
             /\ crateOutcome = "pending" /\ crateOutcome' = "refused"
    <3>1. Crate!Refuse
      BY <2>2, <2>3, <2>5 DEF Crate!Refuse
    <3>2. QED
      BY <3>1
  <2>6. CASE crate' = crate /\ crateOutcome' = crateOutcome
    BY <2>2, <2>3, <2>6 DEF Crate!crateVars
  <2>7. ASSUME NEW c \in todo, FoldCell(c) PROVE crate' = crate /\ crateOutcome' = crateOutcome
    BY <2>7 DEF FoldCell, crateOutcome
  <2>8. ASSUME NEW c \in todo, FoldFails(c)
        PROVE  crate' = crate /\ crateOutcome = "pending" /\ crateOutcome' = "refused"
    BY <2>8 DEF FoldFails, crateOutcome
  <2>9. CaptureExtent => crate' = crate /\ crateOutcome' = crateOutcome
    BY DEF CaptureExtent, crateOutcome
  <2>10. CheckRoundTrip \/ CheckGateClosure =>
            /\ crate' = crate
            /\ \/ crateOutcome' = crateOutcome
               \/ crateOutcome = "pending" /\ crateOutcome' = "refused"
    BY DEF CheckRoundTrip, CheckGateClosure, crateOutcome
  <2>11. UNCHANGED vars => crate' = crate /\ crateOutcome' = crateOutcome
    BY DEF vars, crateOutcome
  <2>12. QED
    BY <2>4, <2>5, <2>6, <2>7, <2>8, <2>9, <2>10, <2>11 DEF Next
<1>3. QED
  BY Inductive, <1>1, <1>2, PTL DEF Spec, ImplementsGatedCrate, Crate!CrateSpec

-----------------------------------------------------------------------------
(* The closure of a unit, as a function of it.                             *)

LEMMA ClosureOf ==
    ASSUME NEW u
    PROVE  LET c      == C!closure_of(u)
               pulled == C!reached(u) \ C!seeds(u)
           IN  /\ c.records = u.records \cup UNION {C!parts_of(u, n) : n \in pulled}
               /\ c.enums = u.enums \cup (pulled \cap C!indexed_enums(u))
               /\ c.typedefs = u.typedefs \cup UNION {C!aliases_of(u, n) : n \in pulled}
               /\ c.opaque = {n \in pulled \ (C!names(c.records) \cup C!indexed_enums(u)) :
                                 C!aliases_of(u, n) = {}}
  BY DEF C!closure_of

\* Names is one, so the least set of names closed under need is closed itself.
LEMMA ReachedIsClosed ==
    ASSUME NEW u, C!Unit(u)
    PROVE  C!closed(u, C!reached(u))
<1>1. \A parts : parts \in SUBSET C!Part \/ parts \in SUBSET C!Typedef =>
        C!names(parts) \subseteq Names /\ C!refs_of(parts) \subseteq Names
  BY DEF C!Part, C!Typedef, C!names, C!refs_of
<1>2. C!roots(u) \subseteq Names
  BY <1>1 DEF C!Unit, C!roots, C!seeds
<1>3. ASSUME NEW n PROVE C!references(u, n) \subseteq Names
  <2>1. C!parts_of(u, n) \in SUBSET C!Part
    BY DEF C!Unit, C!parts_of
  <2>2. C!aliases_of(u, n) \in SUBSET C!Typedef
    BY DEF C!Unit, C!aliases_of
  <2>3. QED
    BY <1>1, <2>1, <2>2 DEF C!references
<1>4. C!roots(u) \subseteq C!reached(u)
  BY <1>2 DEF C!reached, C!closed
<1>5. \A n \in C!reached(u) \ C!seeds(u) : C!references(u, n) \subseteq C!reached(u)
  BY <1>3 DEF C!reached, C!closed
<1>6. QED
  BY <1>4, <1>5 DEF C!closed

\* A part of the closure is one the unit was lowered to.
LEMMA ClosureParts ==
    ASSUME NEW u, NEW p \in C!closure_of(u).records
    PROVE  p \in u.records \cup UNION C!lowered_parts(u)
<1>1. ASSUME NEW n, p \in C!parts_of(u, n) PROVE p \in UNION C!lowered_parts(u)
  BY <1>1 DEF C!parts_of, C!lowered_parts
<1>2. QED
  BY <1>1, ClosureOf

\* Every name that is needed is in one of the tables.
LEMMA ReachedIsSettled ==
    ASSUME NEW u, C!Unit(u), C!Lowers(u), NEW n \in C!reached(u)
    PROVE  LET c == C!closure_of(u)
           IN  n \in C!names(c.records) \cup c.enums \cup C!names(c.typedefs) \cup c.opaque
<1> DEFINE c == C!closure_of(u)
<1> SUFFICES ASSUME n \notin c.opaque
             PROVE  n \in C!names(c.records) \cup c.enums \cup C!names(c.typedefs)
  OBVIOUS
<1>1. /\ u.records \subseteq c.records /\ u.enums \subseteq c.enums
      /\ u.typedefs \subseteq c.typedefs
  BY ClosureOf
<1>2. CASE n \in C!seeds(u)
  BY <1>1, <1>2 DEF C!seeds, C!names
<1>3. CASE n \notin C!seeds(u)
  <2>1. \/ n \in C!names(c.records)
        \/ n \in C!indexed_enums(u)
        \/ C!aliases_of(u, n) # {}
    BY <1>3, ClosureOf
  <2>2. n \in C!indexed_enums(u) => n \in c.enums
    BY <1>3, ClosureOf
  <2>3. C!aliases_of(u, n) \subseteq c.typedefs
    BY <1>3, ClosureOf
  <2>4. C!aliases_of(u, n) # {} => n \in C!names(c.typedefs)
    BY <2>3 DEF C!aliases_of, C!names
  <2>5. QED
    BY <2>1, <2>2, <2>4
<1>4. QED
  BY <1>2, <1>3

\* What the closure's items mention is needed.
LEMMA MentionsAreReached ==
    ASSUME NEW u, C!Unit(u)
    PROVE  LET c == C!closure_of(u)
           IN  /\ \A p \in c.records : p.name \in C!reached(u) /\ p.refs \subseteq C!reached(u)
               /\ \A t \in c.typedefs : t.refs \subseteq C!reached(u)
               /\ u.signature_refs \cup u.enum_refs \subseteq C!reached(u)
<1> DEFINE c == C!closure_of(u)
<1>1. /\ C!roots(u) \subseteq C!reached(u)
      /\ \A n \in C!reached(u) \ C!seeds(u) : C!references(u, n) \subseteq C!reached(u)
  BY ReachedIsClosed DEF C!closed
<1>2. ASSUME NEW p \in c.records
      PROVE  p.name \in C!reached(u) /\ p.refs \subseteq C!reached(u)
  <2>1. CASE p \in u.records
    BY <1>1, <2>1 DEF C!roots, C!seeds, C!names, C!refs_of
  <2>2. CASE p \notin u.records
    <3>1. PICK n \in C!reached(u) \ C!seeds(u) : p \in C!parts_of(u, n)
      BY <1>2, <2>2, ClosureOf
    <3>2. p.name \in C!references(u, n) /\ p.refs \subseteq C!references(u, n)
      BY <3>1 DEF C!references, C!names, C!refs_of
    <3>3. QED
      BY <1>1, <3>2
  <2>3. QED
    BY <2>1, <2>2
<1>3. ASSUME NEW t \in c.typedefs PROVE t.refs \subseteq C!reached(u)
  <2>1. CASE t \in u.typedefs
    BY <1>1, <2>1 DEF C!roots, C!refs_of
  <2>2. CASE t \notin u.typedefs
    <3>1. PICK n \in C!reached(u) \ C!seeds(u) : t \in C!aliases_of(u, n)
      BY <1>3, <2>2, ClosureOf
    <3>2. t.refs \subseteq C!references(u, n)
      BY <3>1 DEF C!references, C!refs_of
    <3>3. QED
      BY <1>1, <3>2
  <2>3. QED
    BY <2>1, <2>2
<1>4. u.signature_refs \cup u.enum_refs \subseteq C!reached(u)
  BY <1>1 DEF C!roots
<1>5. QED
  BY <1>2, <1>3, <1>4

\* The tables hold one item of a name, and no name is written out of two.
LEMMA TablesApart ==
    ASSUME NEW u, C!Unit(u), C!Lowers(u), C!TagsApart(u)
    PROVE  LET c == C!closure_of(u)
           IN  /\ \A p, q \in c.records : p.name = q.name => p = q
               /\ \A s, t \in c.typedefs : s.name = t.name => s = t
               /\ C!names(c.records) \cap c.enums = {}
               /\ \A t \in c.typedefs :
                     C!self_alias(t) \/ t.name \notin C!names(c.records) \cup c.enums
               /\ c.opaque \cap (C!names(c.records) \cup c.enums \cup C!names(c.typedefs)) = {}
<1> DEFINE c == C!closure_of(u)
<1>1. \A p, q \in c.records : p.name = q.name => p = q
  BY ClosureParts DEF C!Lowers
<1>2. C!names(c.records) \subseteq C!tags(u).record
  BY ClosureParts DEF C!tags, C!names
<1>3. c.enums \subseteq C!tags(u).enum
  BY ClosureOf DEF C!tags, C!indexed_enums
<1>4. \A t \in c.typedefs :
        \/ t \in u.typedefs
        \/ t \in u.typedef_by_name /\ ~C!self_alias(t) /\ t.name \notin C!seeds(u)
  BY ClosureOf DEF C!aliases_of
<1>5. \A s, t \in c.typedefs : s.name = t.name => s = t
  <2>1. \A t \in u.typedefs : t.name \in C!seeds(u)
    BY DEF C!seeds, C!names
  <2>2. QED
    BY <1>4, <2>1 DEF C!Unit
<1>6. C!names(c.records) \cap c.enums = {}
  BY <1>2, <1>3 DEF C!TagsApart
<1>7. \A t \in c.typedefs : C!self_alias(t) \/ t.name \notin C!names(c.records) \cup c.enums
  BY <1>2, <1>3, <1>4 DEF C!TagsApart
<1>8. ASSUME NEW n \in c.opaque
      PROVE  n \notin C!names(c.records) \cup c.enums \cup C!names(c.typedefs)
  <2>1. /\ n \notin C!seeds(u) /\ n \notin C!names(c.records)
        /\ n \notin C!indexed_enums(u) /\ C!aliases_of(u, n) = {}
    BY ClosureOf
  <2>2. n \notin c.enums
    BY <2>1, ClosureOf DEF C!seeds
  <2>3. n \notin C!names(c.typedefs)
    <3>1. SUFFICES ASSUME NEW t \in c.typedefs, t.name = n PROVE FALSE
      BY DEF C!names
    <3>2. t \notin u.typedefs
      BY <2>1, <3>1 DEF C!seeds, C!names
    <3>3. t \in C!aliases_of(u, n)
      BY <1>4, <3>1, <3>2 DEF C!aliases_of
    <3>4. QED
      BY <2>1, <3>3
  <2>4. QED
    BY <2>1, <2>2, <2>3
<1>9. QED
  BY <1>1, <1>5, <1>6, <1>7, <1>8

-----------------------------------------------------------------------------
(* What is folded of a cell.                                               *)

\* The functions that are left after the first of a name has been kept.
LEMMA FirstOfAName ==
    ASSUME NEW cl \in Closures, NEW f \in first_decls(cl.fns), NEW g \in first_decls(cl.fns),
           f.key.name = g.key.name
    PROVE  f = g
<1>1. cl.fns \in Seq([key : Keys, rendering : Renderings, conv : CallingConv])
  BY EmitAssumption
<1>2. DOMAIN cl.fns = 1 .. Len(cl.fns) /\ Len(cl.fns) \in Nat
  <2> DEFINE fns  == cl.fns
             Decl == [key : Keys, rendering : Renderings, conv : CallingConv]
  <2>1. fns \in Seq(Decl)
    BY <1>1
  <2> HIDE DEF fns, Decl
  <2>2. DOMAIN fns = 1 .. Len(fns) /\ Len(fns) \in Nat
    BY <2>1
  <2>3. QED
    BY <2>2 DEF fns
<1>3. PICK i \in DOMAIN cl.fns :
        f = cl.fns[i] /\ \A h \in 1 .. (i - 1) : cl.fns[h].key.name # f.key.name
  BY DEF first_decls
<1>4. PICK j \in DOMAIN cl.fns :
        g = cl.fns[j] /\ \A h \in 1 .. (j - 1) : cl.fns[h].key.name # g.key.name
  BY DEF first_decls
<1>5. i \in 1 .. Len(cl.fns) /\ j \in 1 .. Len(cl.fns)
  BY <1>2, <1>3, <1>4
<1>6. ~(i < j) /\ ~(j < i)
  BY <1>2, <1>3, <1>4, <1>5
<1>7. i = j
  BY <1>2, <1>5, <1>6
<1>8. QED
  BY <1>3, <1>4, <1>7

LEMMA FoldedFns ==
    ASSUME NEW d \in Dumps, NEW f \in first_decls(folded(d).fns)
    PROVE  /\ f.key.kind = "Function"
           /\ f.rendering.space = "fn" /\ f.rendering.name = f.key.name
           /\ f.rendering.mentions = f.key.refs /\ f.key.refs \subseteq d.unit.signature_refs
<1>1. folded(d).fns = [i \in DOMAIN d.functions |-> folded_fn(d.functions[i])]
  BY DEF folded
<1>2. PICK i \in DOMAIN d.functions : f = folded_fn(d.functions[i])
  BY <1>1 DEF first_decls
<1>3. d.functions[i].refs \subseteq d.unit.signature_refs
  BY FoldedAssumption DEF Dump
<1>4. QED
  BY <1>2, <1>3 DEF folded_fn, key, text

LEMMA FoldedTexts ==
    ASSUME NEW d \in Dumps, NEW r \in cell_renderings(folded(d))
    PROVE  LET c == C!closure_of(d.unit)
           IN  \/ \E p \in c.records : r = record_text(d, p)
               \/ \E n \in c.enums : r = enum_text(d, n)
               \/ \E t \in c.typedefs : ~C!self_alias(t) /\ r = typedef_text(d, t)
               \/ \E n \in C!names(c.records) : r = check_text(d, n)
               \/ \E f \in first_decls(folded(d).fns) : r = f.rendering
<1> DEFINE c == C!closure_of(d.unit)
<1>1. folded(d).renderings = type_texts(d, c) \cup check_texts(d, c)
  BY DEF folded
<1>2. r \in type_texts(d, c) \/ r \in check_texts(d, c)
      \/ r \in {f.rendering : f \in first_decls(folded(d).fns)}
  BY <1>1 DEF cell_renderings
<1>3. CASE r \in type_texts(d, c)
  BY <1>3 DEF type_texts, rendered_typedefs
<1>4. CASE r \in check_texts(d, c)
  BY <1>4 DEF check_texts
<1>5. CASE r \in {f.rendering : f \in first_decls(folded(d).fns)}
  BY <1>5
<1>6. QED
  BY <1>2, <1>3, <1>4, <1>5

\* A cell renders a name once in each name space, whatever its dumps hold.
THEOREM CellsRenderOnce == OneRenderingPerName
<1> SUFFICES ASSUME NEW cl \in Closures, NEW r \in cell_renderings(cl),
                    NEW s \in cell_renderings(cl), r.space = s.space, r.name = s.name
             PROVE  r = s
  BY DEF OneRenderingPerName
<1>1. PICK d \in Dumps : cl = folded(d)
  BY FoldedAssumption
<1> DEFINE c == C!closure_of(d.unit)
           words(x) == \/ \E p \in c.records : x = record_text(d, p)
                       \/ \E n \in c.enums : x = enum_text(d, n)
                       \/ \E t \in c.typedefs : ~C!self_alias(t) /\ x = typedef_text(d, t)
<1>2. /\ \A p, q \in c.records : p.name = q.name => p = q
      /\ \A t, q \in c.typedefs : t.name = q.name => t = q
      /\ C!names(c.records) \cap c.enums = {}
      /\ \A t \in c.typedefs : C!self_alias(t) \/ t.name \notin C!names(c.records) \cup c.enums
  BY TablesApart, FoldedAssumption DEF Dump
<1>3. \A p \in c.records : p.name \in C!names(c.records)
  BY DEF C!names
<1>4. \A x \in cell_renderings(cl) :
        \/ words(x)
        \/ \E n \in C!names(c.records) : x = check_text(d, n)
        \/ \E f \in first_decls(cl.fns) : x = f.rendering
  BY <1>1, FoldedTexts
<1>5. \A x : words(x) => x.space = "type"
  BY DEF record_text, enum_text, typedef_text, text
<1>6. \A n : check_text(d, n).space = "check" /\ check_text(d, n).name = n
  BY DEF check_text, text
<1>7. \A f \in first_decls(cl.fns) : f.rendering.space = "fn" /\ f.rendering.name = f.key.name
  BY <1>1, FoldedFns
<1>8. CASE words(r) /\ words(s)
  <2>1. /\ \A p : record_text(d, p).name = p.name
        /\ \A n : enum_text(d, n).name = n
        /\ \A t : typedef_text(d, t).name = t.name
    BY DEF record_text, enum_text, typedef_text, text
  <2>2. QED
    BY <1>2, <1>3, <1>8, <2>1
<1>9. CASE (\E n \in C!names(c.records) : r = check_text(d, n))
           /\ (\E n \in C!names(c.records) : s = check_text(d, n))
  BY <1>6, <1>9
<1>10. CASE (\E f \in first_decls(cl.fns) : r = f.rendering)
            /\ (\E f \in first_decls(cl.fns) : s = f.rendering)
  BY <1>7, <1>10, FirstOfAName
<1> HIDE DEF words
<1>11. QED
  BY <1>4, <1>5, <1>6, <1>7, <1>8, <1>9, <1>10

\* What the closure's tables hold is rendered: of the typedefs, those that do not
\* name themselves.
LEMMA TablesAreRendered ==
    ASSUME NEW d \in Dumps
    PROVE  LET c == C!closure_of(d.unit)
           IN  /\ \A p \in c.records : record_text(d, p) \in cell_renderings(folded(d))
               /\ \A n \in c.enums : enum_text(d, n) \in cell_renderings(folded(d))
               /\ \A t \in c.typedefs :
                     ~C!self_alias(t) => typedef_text(d, t) \in cell_renderings(folded(d))
<1> DEFINE c == C!closure_of(d.unit)
<1>1. type_texts(d, c) \subseteq cell_renderings(folded(d))
  BY DEF folded, cell_renderings
<1>2. QED
  BY <1>1 DEF type_texts, rendered_typedefs

\* What the keys of a cell's types are.
LEMMA FoldedKeys ==
    ASSUME NEW d \in Dumps, NEW k \in cell_keys(folded(d)), k.kind # "Function"
    PROVE  LET c == C!closure_of(d.unit)
           IN  /\ k \in type_keys(d, c)
               /\ k.name \in C!names(c.records) \cup c.enums \cup C!names(c.typedefs)
<1> DEFINE c == C!closure_of(d.unit)
<1>1. folded(d).keys = type_keys(d, c)
  BY DEF folded
<1>2. k \in type_keys(d, c)
  BY <1>1, FoldedFns DEF cell_keys
<1>3. k.name \in C!names(c.records) \cup c.enums \cup C!names(c.typedefs)
  BY <1>2 DEF type_keys, key, C!names
<1>4. QED
  BY <1>2, <1>3

\* What a cell mentions it renders, or has an opaque name and no definition of,
\* unless it mentions a name that phnt aliases to itself without a named
\* definition of its own.
THEOREM CellsAreClosed ==
    ASSUME \A d \in Dumps : SeedsResolved(d)
    PROVE  ClosedClosures
<1> SUFFICES ASSUME NEW cl \in Closures, NEW r \in cell_renderings(cl), NEW n \in r.mentions
             PROVE  \/ \E s \in cell_renderings(cl) : s.space = "type" /\ s.name = n
                    \/ /\ n \in cl.opaque
                       /\ \A k \in cell_keys(cl) : k.kind # "Function" => k.name # n
  BY DEF ClosedClosures
<1>1. PICK d \in Dumps : cl = folded(d)
  BY FoldedAssumption
<1> DEFINE u == d.unit
           c == C!closure_of(u)
<1>2. C!Unit(u) /\ C!Lowers(u) /\ C!TagsApart(u) /\ n \notin C!unresolved(u)
  BY <1>1, FoldedAssumption DEF Dump, SeedsResolved
<1>3. n \in C!reached(u)
  <2>1. /\ \A p \in c.records : p.name \in C!reached(u) /\ p.refs \subseteq C!reached(u)
        /\ \A t \in c.typedefs : t.refs \subseteq C!reached(u)
        /\ u.signature_refs \subseteq C!reached(u)
    BY <1>2, MentionsAreReached
  <2>2. CASE \E p \in c.records : r = record_text(d, p)
    BY <2>1, <2>2 DEF record_text, text
  <2>3. CASE \E m \in c.enums : r = enum_text(d, m)
    BY <2>3 DEF enum_text, text
  <2>4. CASE \E t \in c.typedefs : r = typedef_text(d, t)
    BY <2>1, <2>4 DEF typedef_text, text
  <2>5. CASE \E m \in C!names(c.records) : r = check_text(d, m)
    BY <2>1, <2>5 DEF check_text, text, C!names
  <2>6. CASE \E f \in first_decls(folded(d).fns) : r = f.rendering
    BY <2>1, <2>6, FoldedFns
  <2>7. QED
    BY <1>1, <2>2, <2>3, <2>4, <2>5, <2>6, FoldedTexts
<1>4. n \in C!names(c.records) \cup c.enums \cup C!names(c.typedefs) \cup c.opaque
  BY <1>2, <1>3, ReachedIsSettled
<1>5. CASE n \in c.opaque
  <2>1. n \notin C!names(c.records) \cup c.enums \cup C!names(c.typedefs)
    BY <1>2, <1>5, TablesApart
  <2>2. cl.opaque = c.opaque
    BY <1>1 DEF folded
  <2>3. QED
    BY <1>1, <1>5, <2>1, <2>2, FoldedKeys
<1>6. CASE n \in C!names(c.records) \cup c.enums
  <2>1. /\ \A p : record_text(d, p).space = "type" /\ record_text(d, p).name = p.name
        /\ \A m : enum_text(d, m).space = "type" /\ enum_text(d, m).name = m
    BY DEF record_text, enum_text, text
  <2>2. QED
    BY <1>1, <1>6, <2>1, TablesAreRendered DEF C!names
<1>7. CASE n \in C!names(c.typedefs)
  <2>1. PICK t \in c.typedefs : t.name = n
    BY <1>7 DEF C!names
  <2>2. CASE ~C!self_alias(t)
    <3>1. typedef_text(d, t).space = "type" /\ typedef_text(d, t).name = n
      BY <2>1 DEF typedef_text, text
    <3>2. QED
      BY <1>1, <2>1, <2>2, <3>1, TablesAreRendered
  <2>3. CASE C!self_alias(t)
    <3>1. t \in u.typedefs
      BY <2>1, <2>3, ClosureOf DEF C!aliases_of
    <3>2. n \in C!names(u.records) \cup u.enums
      BY <1>2, <2>1, <2>3, <3>1 DEF C!unresolved, C!names
    <3>3. u.records \subseteq c.records /\ u.enums \subseteq c.enums
      BY ClosureOf
    <3>4. QED
      BY <1>6, <3>2, <3>3 DEF C!names
  <2>4. QED
    BY <2>2, <2>3
<1>8. QED
  BY <1>4, <1>5, <1>6, <1>7

-----------------------------------------------------------------------------
(* The walk, the fold and the assembly together.                            *)

\* No build compiles two definitions of one name, whatever the dumps hold.
THEOREM DumpsNeverDefineTwice ==
    ASSUME SingleSurface
    PROVE  Spec => []OneDefinitionPerName
  BY CellsRenderOnce, NeverTwoDefinitions

\* Every name a compiled item mentions is compiled with it, whatever the dumps
\* hold, if none mentions a name that phnt aliases to itself without a named
\* definition of its own.
THEOREM DumpsNeverDangle ==
    ASSUME SingleSurface, \A d \in Dumps : SeedsResolved(d)
    PROVE  Spec => []MentionsResolve
  BY CellsAreClosed, EveryMentionResolves

-----------------------------------------------------------------------------
(* The gate closure of what the walk makes.                                 *)

\* Of a name that is needed the cell has a key or a stub.
LEMMA ReachedIsAvailable ==
    ASSUME NEW d \in Dumps, NEW n \in C!reached(d.unit)
    PROVE  available(folded(d), n)
<1> DEFINE c == C!closure_of(d.unit)
<1>1. n \in C!names(c.records) \cup c.enums \cup C!names(c.typedefs) \cup c.opaque
  BY ReachedIsSettled, FoldedAssumption DEF Dump
<1>2. folded(d).keys = type_keys(d, c) /\ folded(d).opaque = c.opaque
  BY DEF folded
<1>3. n \in C!names(c.records) \cup c.enums \cup C!names(c.typedefs) =>
        \E k \in type_keys(d, c) : k.name = n
  <2>1. \A kind, name, shape, refs : key(kind, name, shape, refs).name = name
    BY DEF key
  <2>2. n \in C!names(c.records) => \E k \in type_keys(d, c) : k.name = n
    BY <2>1 DEF type_keys, C!names
  <2>3. n \in c.enums => \E k \in type_keys(d, c) : k.name = n
    BY <2>1 DEF type_keys
  <2>4. n \in C!names(c.typedefs) => \E k \in type_keys(d, c) : k.name = n
    BY <2>1 DEF type_keys, C!names
  <2>5. QED
    BY <2>2, <2>3, <2>4
<1>4. QED
  BY <1>1, <1>2, <1>3 DEF available

\* The walk followed the references of every key but an enum's.
LEMMA KeysAreFollowed ==
    ASSUME NEW d \in Dumps, NEW k \in cell_keys(folded(d))
    PROVE  \/ k.refs \subseteq C!reached(d.unit)
           \/ /\ k \in folded(d).keys /\ k.kind = "Enum"
              /\ \E n \in C!closure_of(d.unit).enums \ d.unit.enums : k.refs = d.underlying[n]
<1> DEFINE u == d.unit
           c == C!closure_of(u)
<1>1. /\ \A p \in c.records : p.refs \subseteq C!reached(u)
      /\ \A t \in c.typedefs : t.refs \subseteq C!reached(u)
      /\ u.signature_refs \cup u.enum_refs \subseteq C!reached(u)
  BY MentionsAreReached, FoldedAssumption DEF Dump
<1>2. folded(d).keys = type_keys(d, c)
  BY DEF folded
<1>3. k \in folded(d).keys \/ \E f \in first_decls(folded(d).fns) : k = f.key
  BY DEF cell_keys
<1>4. CASE \E f \in first_decls(folded(d).fns) : k = f.key
  BY <1>1, <1>4, FoldedFns
<1>5. CASE \E p \in c.records : k = key("Record", p.name, d.shape[p.name], p.refs)
  BY <1>1, <1>5 DEF key
<1>6. CASE \E t \in c.typedefs : k = key("Typedef", t.name, d.shape[t.name], t.refs)
  BY <1>1, <1>6 DEF key
<1>7. CASE \E n \in c.enums : k = key("Enum", n, d.shape[n], d.underlying[n])
  <2>1. PICK n \in c.enums : k = key("Enum", n, d.shape[n], d.underlying[n])
    BY <1>7
  <2>2. k.kind = "Enum" /\ k.refs = d.underlying[n] /\ k \in folded(d).keys
    BY <1>2, <2>1 DEF key, type_keys
  <2>3. n \in u.enums => d.underlying[n] \subseteq u.enum_refs
    BY FoldedAssumption DEF Dump
  <2>4. QED
    BY <1>1, <2>1, <2>2, <2>3
<1>8. QED
  BY <1>2, <1>3, <1>4, <1>5, <1>6, <1>7 DEF type_keys

\* The edge over which the gate closure fails.
LEMMA DanglingEdge ==
    ASSUME IInv, phase = "dangling"
    PROVE  \E c \in Captured : \E k \in cell_keys(input[c]) : \E n \in k.refs \ Prims :
              ~available(input[c], n)
<1>1. Folded = Captured /\ ~check_gate_closure
  BY DEF IInv, PhaseInv, Folded
<1>2. PICK k \in Keys : \E n \in k.refs \ Prims :
        ~(occs[k] \subseteq (defined_occs(n) \cup opaque_occs[n]))
  BY <1>1 DEF check_gate_closure
<1>3. PICK n \in k.refs \ Prims : ~(occs[k] \subseteq (defined_occs(n) \cup opaque_occs[n]))
  BY <1>2
<1>4. PICK c \in occs[k] : c \notin defined_occs(n) /\ c \notin opaque_occs[n]
  BY <1>3
<1>5. c \in Captured /\ k \in cell_keys(input[c]) /\ input[c] \in Closures
  BY <1>1, <1>4 DEF IInv, FoldInv
<1>6. n \in Names
  BY <1>3, EmitAssumption
<1>7. n \notin input[c].opaque
  BY <1>1, <1>4, <1>5, <1>6 DEF IInv, FoldInv
<1>8. ASSUME NEW h \in input[c].keys, h.name = n PROVE FALSE
  <2>1. h \in Keys /\ h \in cell_keys(input[c])
    BY <1>5, EmitAssumption DEF cell_keys
  <2>2. h.kind # "Function"
    <3>1. PICK d \in Dumps : input[c] = folded(d)
      BY <1>5, FoldedAssumption
    <3>2. h \in type_keys(d, C!closure_of(d.unit))
      BY <3>1 DEF folded
    <3>3. QED
      BY <3>2 DEF type_keys, key
  <2>3. c \in occs[h]
    BY <1>1, <1>5, <2>1 DEF IInv, FoldInv
  <2>4. QED
    BY <1>4, <1>8, <2>1, <2>2, <2>3 DEF defined_occs
<1>9. QED
  BY <1>3, <1>5, <1>7, <1>8 DEF available

\* Only the fixed underlying type of an enum that the walk pulled in can make the
\* gate closure fail, whatever the dumps hold.
THEOREM ClosureFailsOverEnums == Spec => []DanglesOnlyThroughEnums
<1>1. IInv => DanglesOnlyThroughEnums
  <2> SUFFICES ASSUME IInv, phase = "dangling"
               PROVE  \E c \in Captured : \E k \in input[c].keys :
                         k.kind = "Enum" /\ \E n \in k.refs \ Prims : ~available(input[c], n)
    BY DEF DanglesOnlyThroughEnums
  <2>1. PICK c \in Captured : \E k \in cell_keys(input[c]) : \E n \in k.refs \ Prims :
          ~available(input[c], n)
    BY DanglingEdge
  <2>2. PICK k \in cell_keys(input[c]) : \E n \in k.refs \ Prims : ~available(input[c], n)
    BY <2>1
  <2>3. PICK n \in k.refs \ Prims : ~available(input[c], n)
    BY <2>2
  <2>4. PICK d \in Dumps : input[c] = folded(d)
    BY FoldedAssumption DEF IInv, PhaseInv, FoldInv, Folded
  <2>5. k \in folded(d).keys /\ k.kind = "Enum"
    BY <2>3, <2>4, KeysAreFollowed, ReachedIsAvailable
  <2>6. QED
    BY <2>3, <2>4, <2>5
<1>2. QED
  BY Inductive, <1>1, PTL

\* The check never fires, as its comment says, if the walk needs the underlying
\* type of every enum it pulls in for another reason too.
THEOREM GateClosureByConstruction ==
    ASSUME \A d \in Dumps : \A n \in C!closure_of(d.unit).enums \ d.unit.enums :
              d.underlying[n] \ Prims \subseteq C!reached(d.unit)
    PROVE  Spec => []GateClosureHolds
<1>1. IInv => GateClosureHolds
  <2> SUFFICES ASSUME IInv, phase = "dangling" PROVE FALSE
    BY DEF GateClosureHolds
  <2>1. PICK c \in Captured : \E k \in cell_keys(input[c]) : \E n \in k.refs \ Prims :
          ~available(input[c], n)
    BY DanglingEdge
  <2>2. PICK k \in cell_keys(input[c]) : \E n \in k.refs \ Prims : ~available(input[c], n)
    BY <2>1
  <2>3. PICK n \in k.refs \ Prims : ~available(input[c], n)
    BY <2>2
  <2>4. PICK d \in Dumps : input[c] = folded(d)
    BY FoldedAssumption DEF IInv, PhaseInv, FoldInv, Folded
  <2>5. n \in C!reached(d.unit)
    BY <2>3, <2>4, KeysAreFollowed
  <2>6. QED
    BY <2>3, <2>4, <2>5, ReachedIsAvailable
<1>2. QED
  BY Inductive, <1>1, PTL

-----------------------------------------------------------------------------
(* The stubs.                                                              *)

\* What is rendered as a type of a name has a key that counts as a definition.
LEMMA RenderedIsDefined ==
    ASSUME NEW d \in Dumps, NEW r \in cell_renderings(folded(d)), r.space = "type"
    PROVE  \E k \in cell_keys(folded(d)) : k.kind # "Function" /\ k.name = r.name
<1> DEFINE c == C!closure_of(d.unit)
<1>1. type_keys(d, c) \subseteq cell_keys(folded(d))
  BY DEF folded, cell_keys
<1>2. \A kind, name, shape, refs :
        key(kind, name, shape, refs).kind = kind /\ key(kind, name, shape, refs).name = name
  BY DEF key
<1>3. CASE \E p \in c.records : r = record_text(d, p)
  <2>1. PICK p \in c.records : r = record_text(d, p)
    BY <1>3
  <2>2. key("Record", p.name, d.shape[p.name], p.refs) \in type_keys(d, c)
    BY DEF type_keys
  <2>3. r.name = p.name
    BY <2>1 DEF record_text, text
  <2>4. QED
    BY <1>1, <1>2, <2>2, <2>3
<1>4. CASE \E n \in c.enums : r = enum_text(d, n)
  <2>1. PICK n \in c.enums : r = enum_text(d, n)
    BY <1>4
  <2>2. key("Enum", n, d.shape[n], d.underlying[n]) \in type_keys(d, c)
    BY DEF type_keys
  <2>3. r.name = n
    BY <2>1 DEF enum_text, text
  <2>4. QED
    BY <1>1, <1>2, <2>2, <2>3
<1>5. CASE \E t \in c.typedefs : r = typedef_text(d, t)
  <2>1. PICK t \in c.typedefs : r = typedef_text(d, t)
    BY <1>5
  <2>2. key("Typedef", t.name, d.shape[t.name], t.refs) \in type_keys(d, c)
    BY DEF type_keys
  <2>3. r.name = t.name
    BY <2>1 DEF typedef_text, text
  <2>4. QED
    BY <1>1, <1>2, <2>2, <2>3
<1>6. CASE \E n : r = check_text(d, n)
  BY <1>6 DEF check_text, text
<1>7. CASE \E f \in first_decls(folded(d).fns) : r = f.rendering
  BY <1>7, FoldedFns
<1>8. QED
  BY <1>3, <1>4, <1>5, <1>6, <1>7, FoldedTexts

\* The stub of a name and a definition of it are compiled together only where the
\* stub's cells are a set that the round trip would have refused.
THEOREM StubsAreDisjoint ==
    ASSUME SingleSurface
    PROVE  Spec => []ExactStubsAreDisjoint
<1>1. IInv => ExactStubsAreDisjoint
  <2> SUFFICES ASSUME IInv, StubsExact,
                      NEW v \in Modern, NEW a \in arches(Captured),
                      NEW e \in Compiled(v, a), NEW f \in Compiled(v, a),
                      e.item.space = "opaque", f.item.space = "type",
                      e.item.name = f.item.name
               PROVE  FALSE
    BY DEF ExactStubsAreDisjoint, StubsGateDisjoint
  <2>1. /\ phase = "done" /\ crate = assemble_opaque \cup assemble_renderings
        /\ axis = Captured /\ axis \in SUBSET Cell /\ Folded = Captured
    BY OccsTypes DEF IInv, PhaseInv, Compiled, Folded
  <2>2. e \notin assemble_renderings
    BY EmitAssumption DEF assemble_renderings, stamped, Space
  <2>3. PICK n \in Names : undefined_occs(n) # {} /\ e \in stamped(Stub(n), undefined_occs(n))
    BY <2>1, <2>2 DEF assemble_opaque, Compiled
  <2>4. n = f.item.name
    BY <2>3 DEF stamped, Stub
  <2>5. PICK c \in newest(Captured, v, a) : c \in undefined_occs(n)
    <3>1. undefined_occs(n) \in SUBSET axis /\ exact(undefined_occs(n), axis)
      BY <2>1, <2>3, OccsTypes DEF undefined_occs, StubsExact
    <3>2. PICK p \in arch_grouped_predicates(undefined_occs(n), axis) : e.pred = p
      BY <2>3 DEF stamped
    <3>3. holds(p, level(v), a) /\ a \in arches(axis)
      BY <2>1, <3>2 DEF Compiled
    <3>4. QED
      BY <2>1, <3>1, <3>3, GateFaithful
  <2>6. PICK d \in newest(Captured, v, a) : f.item \in cell_renderings(input[d])
    BY <2>1, CompiledIsCaptured DEF Compiled, Space
  <2>7. c = d
    BY NewestIsUnique
  <2>8. c \in Captured /\ input[c] \in Closures
    BY <2>1 DEF newest, IInv, FoldInv
  <2>9. PICK k \in cell_keys(input[c]) : k.kind # "Function" /\ k.name = n
    BY <2>4, <2>6, <2>7, <2>8, RenderedIsDefined, FoldedAssumption
  <2>10. k \in Keys /\ c \in occs[k]
    BY <2>1, <2>8, ClosureTypes DEF IInv, FoldInv
  <2>11. c \in defined_occs(n)
    BY <2>9, <2>10 DEF defined_occs
  <2>12. QED
    BY <2>5, <2>11 DEF undefined_occs
<1>2. QED
  BY Inductive, <1>1, PTL

-----------------------------------------------------------------------------
(* The extern blocks.                                                      *)

reports(c, r) == reported_abi(input[c], r) # {}

\* A declaration's block is the one that the first of the folded cells that have
\* it reports.
AbiInv ==
    /\ \A r \in Renderings :
          \/ abi[r] = {} /\ \A c \in Folded : ~reports(c, r)
          \/ \E c \in Folded :
                /\ reports(c, r) /\ abi[r] = reported_abi(input[c], r)
                /\ \A d \in Folded : reports(d, r) => ~precedes(d, c)
    /\ \A c \in Folded : \A d \in todo : ~precedes(d, c)

LEMMA NoneBeforeItself ==
    ASSUME NEW c \in Cell
    PROVE  ~precedes(c, c)
<1>1. c.ordinal \in Nat /\ arch_order[c.arch] \in Nat
  BY MatrixAssumption, EmitAssumption DEF Cell
<1>2. QED
  BY <1>1 DEF precedes

LEMMA AbiFold ==
    ASSUME IInv, AbiInv, NEW c \in todo, FoldCell(c)
    PROVE  AbiInv'
<1>1. input' = input /\ todo' = todo \ {c} /\ c \in Captured
  BY DEF FoldCell, IInv, InputInv
<1>2. Folded' = Folded \cup {c}
  BY <1>1 DEF Folded, Captured
<1>3. \A d \in todo : ~precedes(d, c)
  BY DEF FoldCell, next_cell
<1>4. \A x \in Folded' : \A d \in todo' : ~precedes(d, x)
  BY <1>1, <1>2, <1>3 DEF AbiInv
<1>5. ~precedes(c, c)
  BY <1>1, OccsTypes, NoneBeforeItself
<1>6. \A x, r : reports(x, r)' <=> reports(x, r)
  BY <1>1 DEF reports
<1>7. ASSUME NEW r \in Renderings
      PROVE  \/ abi'[r] = {} /\ \A x \in Folded' : ~reports(x, r)'
             \/ \E x \in Folded' :
                   /\ reports(x, r)' /\ abi'[r] = reported_abi(input'[x], r)
                   /\ \A d \in Folded' : reports(d, r)' => ~precedes(d, x)
  <2>1. abi'[r] = IF abi[r] = {} THEN reported_abi(input[c], r) ELSE abi[r]
    BY DEF FoldCell
  <2>2. CASE abi[r] = {}
    <3>1. \A x \in Folded : ~reports(x, r)
      BY <2>2 DEF AbiInv, reports
    <3>2. CASE reports(c, r)
      BY <1>1, <1>2, <1>5, <1>6, <2>1, <2>2, <3>1, <3>2
    <3>3. CASE ~reports(c, r)
      BY <1>2, <1>6, <2>1, <2>2, <3>1, <3>3 DEF reports
    <3>4. QED
      BY <3>2, <3>3
  <2>3. CASE abi[r] # {}
    <3>1. PICK x \in Folded :
            /\ reports(x, r) /\ abi[r] = reported_abi(input[x], r)
            /\ \A d \in Folded : reports(d, r) => ~precedes(d, x)
      BY <2>3 DEF AbiInv
    <3>2. ~precedes(c, x)
      BY DEF AbiInv
    <3>3. QED
      BY <1>1, <1>2, <1>6, <2>1, <2>3, <3>1, <3>2
  <2>4. QED
    BY <2>2, <2>3
<1>8. QED
  BY <1>4, <1>7 DEF AbiInv

LEMMA AbiStep == IInv /\ AbiInv /\ [Next]_vars => AbiInv'
<1> SUFFICES ASSUME IInv, AbiInv, [Next]_vars PROVE AbiInv'
  OBVIOUS
<1>1. CASE UNCHANGED <<input, todo, abi>>
  <2>1. Folded' = Folded /\ \A c, r : reports(c, r)' <=> reports(c, r)
    BY <1>1 DEF Folded, Captured, reports
  <2>2. QED
    BY <1>1, <2>1 DEF AbiInv
<1>2. QED
  BY <1>1, AbiFold DEF Next, vars, FoldFails, CaptureExtent, CheckRoundTrip, CheckGateClosure,
                      Assemble

\* A stdcall function is declared as one in every build of a captured release, if
\* the first cell in fold order that has its declaration reports it so.
THEOREM FirstCellDecides == Spec => []AbiOfTheFirst
<1>1. Init => AbiInv
  BY DEF Init, AbiInv, Folded, Captured
<1>2. IInv /\ AbiInv => AbiOfTheFirst
  <2> SUFFICES ASSUME IInv, AbiInv, phase = "done", FirstReportsStdcall,
                      NEW c \in Captured, NEW f \in first_decls(input[c].fns), f.conv = "Stdcall"
               PROVE  abi[f.rendering] = {"system"}
    BY DEF AbiOfTheFirst, DeclaredAbi
  <2>1. Folded = Captured /\ input[c] \in Closures
    BY DEF IInv, PhaseInv, FoldInv, Folded
  <2>2. f.rendering \in Renderings /\ reports(c, f.rendering)
    <3>1. f.rendering \in cell_renderings(input[c])
      BY DEF cell_renderings
    <3>2. QED
      BY <2>1, <3>1, ClosureTypes DEF reports, reported_abi
  <2>3. PICK d \in Captured :
          /\ reports(d, f.rendering) /\ abi[f.rendering] = reported_abi(input[d], f.rendering)
          /\ \A x \in Captured : reports(x, f.rendering) => ~precedes(x, d)
    BY <2>1, <2>2 DEF AbiInv
  <2>4. d \in first_to_declare(f.rendering)
    BY <2>3 DEF first_to_declare, reports
  <2>5. QED
    BY <2>3, <2>4 DEF FirstReportsStdcall
<1>3. QED
  BY Inductive, <1>1, <1>2, AbiStep, PTL DEF Spec
=============================================================================
