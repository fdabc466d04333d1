------------------------------- MODULE Layout -------------------------------
(***************************************************************************)
(* Record layout (emit.rs, verify.rs): from clang's record-layout dump the  *)
(* emitter chooses each record's #[repr], inserts padding where a field was *)
(* over-aligned, coalesces bit-fields into storage units, and writes        *)
(* assertions that compare rustc's layout with the dump.                    *)
(*                                                                         *)
(* A unit is a set of records as the headers declare them. Pointers and     *)
(* typedefs are the scalar they resolve to; an array adds nothing to the    *)
(* layout rules. Sizes, offsets and alignments are in bytes.                *)
(***************************************************************************)
EXTENDS Integers, Sequences, FiniteSetsExt

CONSTANTS
    Prim,      \* Prim[t]: the size of integer type t, which is its alignment
    Unpacked,  \* the pack of a record outside every #pragma pack
    Units

\* What a compiler aligns to: the powers of two up to 8192.
Alignments == {1, 2, 4, 8, 16, 32, 64, 128, 256, 512, 1024, 2048, 4096, 8192}

\* A field's `type` is a primitive or a record it embeds by value, `bits` the
\* width of a bit-field, `align` what __declspec(align) asks of the field.
NoBits == -1
bitfield(f) == f.bits # NoBits

Fields(u) == [type : DOMAIN Prim \cup DOMAIN u, bits : Nat \cup {NoBits},
              align : Alignments, named : BOOLEAN]

Record(u, r) ==
    /\ r.anon \in BOOLEAN /\ r.union \in BOOLEAN
    /\ r.pack \in Alignments /\ r.pack <= Unpacked /\ r.align \in Alignments
    /\ r.fields \in Seq(Fields(u))
    /\ \A i \in DOMAIN r.fields :
          LET f == r.fields[i]
          IN  bitfield(f) => f.type \in DOMAIN Prim /\ f.bits <= 8 * Prim[f.type]

\* No record embeds itself.
Acyclic(u) ==
    \E depth \in [DOMAIN u -> 0 .. Cardinality(DOMAIN u)] :
        \A n \in DOMAIN u : \A i \in DOMAIN u[n].fields :
            u[n].fields[i].type \in DOMAIN u => depth[u[n].fields[i].type] < depth[n]

\* Padding is an array of u8; "" is no type.
ASSUME LayoutAssumption ==
    /\ Unpacked \in Alignments
    /\ \A t \in DOMAIN Prim : Prim[t] \in Alignments /\ Prim[t] <= Unpacked
    /\ "u8" \in DOMAIN Prim /\ "" \notin DOMAIN Prim
    /\ \A u \in Units :
          /\ IsFiniteSet(DOMAIN u) /\ DOMAIN u \cap DOMAIN Prim = {}
          /\ Acyclic(u)
          /\ \A n \in DOMAIN u : Record(u, u[n])

VARIABLES
    cx,      \* AlignCtx: the records and the layouts of the dump
    reprs,   \* reprs[n]: the #[repr] of record n
    bodies,  \* bodies[n]: the emitted members of record n
    phase

vars == <<cx, reprs, bodies, phase>>

round_up(pos, align) == ((pos + align - 1) \div align) * align

-----------------------------------------------------------------------------
(* clang's layout for the windows-msvc targets, the dump's ground truth.    *)
(* #pragma pack caps what __declspec(align) does not require; a bit-field   *)
(* shares the previous one's storage when that has the same size and room.  *)
(* `layout` is the layout of the records that the one in question embeds.   *)

embeds(u, f) == f.type \in DOMAIN u

clang_size(u, layout, f) == IF embeds(u, f) THEN layout[f.type].size ELSE Prim[f.type]

clang_natural(u, layout, f) == IF embeds(u, f) THEN layout[f.type].align ELSE Prim[f.type]

clang_required(u, layout, f) ==
    Max({f.align, IF embeds(u, f) THEN layout[f.type].required ELSE 1})

clang_align(u, layout, r, f) ==
    Max({Min({clang_natural(u, layout, f), r.pack}), clang_required(u, layout, f)})

clang_place(r, st, f, size, align) ==
    LET off    == IF r.union THEN 0 ELSE round_up(st.size, align)
        shares == ~r.union /\ f.bits <= st.left /\ size = st.storage
    IN  CASE f.bits = 0 /\ st.storage = 0 ->
             [st EXCEPT !.at = st.size]
          [] f.bits = 0 /\ st.storage # 0 ->
             [size    |-> IF r.union THEN Max({st.size, size}) ELSE off,
              align   |-> IF r.union THEN st.align ELSE Max({st.align, align}),
              storage |-> 0, left |-> 0, at |-> off]
          [] f.bits > 0 /\ shares ->
             [st EXCEPT !.left = @ - f.bits, !.at = st.size - size]
          [] OTHER ->
             [size    |-> Max({st.size, off + size}),
              align   |-> IF r.union /\ bitfield(f) THEN st.align ELSE Max({st.align, align}),
              storage |-> IF bitfield(f) THEN size ELSE 0,
              left    |-> IF bitfield(f) THEN 8 * size - f.bits ELSE 0,
              at      |-> off]

clang_run(u, layout, r) ==
    LET run[i \in 0 .. Len(r.fields)] ==
            IF i = 0 THEN [size |-> 0, align |-> 1, storage |-> 0, left |-> 0, at |-> 0]
            ELSE LET f == r.fields[i]
                 IN  clang_place(r, run[i - 1], f,
                                 clang_size(u, layout, f), clang_align(u, layout, r, f))
    IN  run

clang_record(u, layout, r) ==
    LET run == clang_run(u, layout, r)
        end == run[Len(r.fields)]
        req == Max({r.align} \cup
                   {clang_required(u, layout, r.fields[i]) : i \in DOMAIN r.fields})
        al  == Max({end.align, req})
    IN  [size     |-> round_up(end.size, Max({Min({al, r.pack}), req})),
         align    |-> al,
         required |-> req,
         offsets  |-> [i \in DOMAIN r.fields |-> run[i].at]]

clang(u) ==
    LET layout[n \in DOMAIN u] == clang_record(u, layout, u[n])
    IN  layout

\* A hoisted anonymous record has no entry in the dump.
parse_layouts(u) == [n \in {m \in DOMAIN u : ~u[m].anon} |-> clang(u)[n]]

AlignCtx(u) == [records |-> u, layouts |-> parse_layouts(u)]

-----------------------------------------------------------------------------
(* The choice of the repr. `c` is the AlignCtx.                             *)

fields(c, n) == c.records[n].fields
dumped(c, n) == n \in DOMAIN c.layouts

\* The alignment of a type as it is emitted; `nat` of the hoisted records.
align_of(c, nat, t) ==
    IF t \in DOMAIN Prim THEN Prim[t]
    ELSE IF dumped(c, t) THEN c.layouts[t].align ELSE nat[t]

\* A slip: a bit-field does not count.
natural_align_of_members(c) ==
    LET nat[n \in DOMAIN c.records] ==
            Max({1} \cup {align_of(c, nat, f.type) : f \in {f \in Range(fields(c, n)) : ~bitfield(f)}})
    IN  nat

natural_align(c) ==
    LET nat[n \in DOMAIN c.records] ==
            Max({1} \cup {align_of(c, nat, fields(c, n)[i].type) : i \in DOMAIN fields(c, n)})
    IN  nat

field_align(c, t) == align_of(c, natural_align(c), t)

\* field_size declines a hoisted record.
sizeable(c, t)   == t \in DOMAIN Prim \/ dumped(c, t)
field_size(c, t) == IF dumped(c, t) THEN c.layouts[t].size ELSE Prim[t]

ReprC     == [kind |-> "C", n |-> 1]
Align(n)  == [kind |-> "Align", n |-> n]
Packed(n) == [kind |-> "Packed", n |-> n]

record_repr(c, n) ==
    IF ~dumped(c, n) THEN ReprC
    ELSE LET ca == c.layouts[n].align
             nat == natural_align(c)[n]
         IN  IF ca > nat THEN Align(ca) ELSE IF ca < nat THEN Packed(ca) ELSE ReprC

anon_member_names(c, n) ==
    {m \in DOMAIN c.records : c.records[m].anon /\ \E f \in Range(fields(c, n)) : f.type = m}

\* The packings the packed records hand on to the anonymous m they embed.
updates(m) ==
    {reprs[n].n : n \in {n \in DOMAIN cx.records :
        reprs[n].kind = "Packed" /\ m \in anon_member_names(cx, n)}}

\* A slip: an update never counts as done.
any_update(m) == updates(m) # {}

tighter(m) == \E k \in updates(m) : reprs[m].kind = "Packed" => k < reprs[m].n

-----------------------------------------------------------------------------
(* The emitted members: the field they stand for (0 for storage and         *)
(* padding) and their type, or how many bytes of padding.                   *)

member(fs, i) == [field |-> i, type |-> fs[i].type, pad |-> 0]
storage(t)    == [field |-> 0, type |-> t, pad |-> 0]
padding(k)    == [field |-> 0, type |-> "u8", pad |-> k]

\* A run of bit-fields becomes units of their base type; "" is no open unit.
flush(st) == IF st.cur = "" THEN st.out ELSE Append(st.out, storage(st.cur))

joins(st, f) == st.cur = f.type /\ st.used + f.bits <= 8 * Prim[f.type]

emit_field(fs, st, i) ==
    LET f == fs[i]
    IN  IF ~bitfield(f) THEN [out |-> Append(flush(st), member(fs, i)), cur |-> "", used |-> 0]
        ELSE IF f.bits = 0 THEN [out |-> flush(st), cur |-> "", used |-> 0]
        ELSE IF joins(st, f) THEN [out |-> st.out, cur |-> st.cur, used |-> st.used + f.bits]
        ELSE [out |-> flush(st), cur |-> f.type, used |-> f.bits]

emit_run(fs) ==
    LET run[i \in 0 .. Len(fs)] ==
            IF i = 0 THEN [out |-> <<>>, cur |-> "", used |-> 0]
            ELSE emit_field(fs, run[i - 1], i)
    IN  run

emit_fields(fs) == flush(emit_run(fs)[Len(fs)])

\* Where field i of a dumped record ends, and where rustc would put it.
field_end(c, n, i) ==
    IF i = 0 THEN 0 ELSE c.layouts[n].offsets[i] + field_size(c, fields(c, n)[i].type)

\* A slip: rustc's own padding is forgotten.
unrounded(c, n, i)    == field_end(c, n, i - 1)
rustc_offset(c, n, i) == round_up(field_end(c, n, i - 1), field_align(c, fields(c, n)[i].type))

pad_before(c, n, i)   == c.layouts[n].offsets[i] - field_end(c, n, i - 1)

\* A slip: a record with bit-fields is padded like any other.
declines_unsized(c, n) ==
    c.records[n].union \/ \E i \in DOMAIN fields(c, n) : ~sizeable(c, fields(c, n)[i].type)

declines(c, n) ==
    \/ c.records[n].union
    \/ \E i \in DOMAIN fields(c, n) :
          LET f == fields(c, n)[i]
          IN  bitfield(f) \/ ~f.named \/ ~sizeable(c, f.type)
    \/ \E i \in DOMAIN fields(c, n) : c.layouts[n].offsets[i] < rustc_offset(c, n, i)

gap(c, n, i) == c.layouts[n].offsets[i] > rustc_offset(c, n, i)

needs_padding(c, n) ==
    dumped(c, n) /\ ~declines(c, n) /\ \E i \in DOMAIN fields(c, n) : gap(c, n, i)

pad(k) == IF k > 0 THEN <<padding(k)>> ELSE <<>>

padded_run(c, n) ==
    LET fs == fields(c, n)
        run[i \in 0 .. Len(fs)] ==
            IF i = 0 THEN <<>>
            ELSE run[i - 1] \o (IF gap(c, n, i) THEN pad(pad_before(c, n, i)) ELSE <<>>)
                 \o <<member(fs, i)>>
    IN  run

synth_padded_fields(c, n) ==
    LET last == Len(fields(c, n))
    IN  padded_run(c, n)[last] \o pad(c.layouts[n].size - field_end(c, n, last))

emit_record(c, n) ==
    IF needs_padding(c, n) THEN synth_padded_fields(c, n) ELSE emit_fields(fields(c, n))

-----------------------------------------------------------------------------
Init ==
    /\ \E u \in Units : cx = AlignCtx(u)
    /\ reprs = [n \in DOMAIN cx.records |-> ReprC]
    /\ bodies = [n \in DOMAIN cx.records |-> <<>>]
    /\ phase = "measure"

\* compute_reprs, first pass.
Measure ==
    /\ phase = "measure"
    /\ reprs' = [n \in DOMAIN cx.records |-> record_repr(cx, n)]
    /\ phase' = "propagate"
    /\ UNCHANGED <<cx, bodies>>

\* compute_reprs, one turn of the loop of the second pass.
Propagate ==
    /\ phase = "propagate"
    /\ \E m \in DOMAIN cx.records : tighter(m)
    /\ reprs' = [m \in DOMAIN cx.records |->
                    IF tighter(m) THEN Packed(Min(updates(m))) ELSE reprs[m]]
    /\ UNCHANGED <<cx, bodies, phase>>

Emit ==
    /\ phase = "propagate"
    /\ ~ \E m \in DOMAIN cx.records : tighter(m)
    /\ bodies' = [n \in DOMAIN cx.records |-> emit_record(cx, n)]
    /\ phase' = "done"
    /\ UNCHANGED <<cx, reprs>>

Next == Measure \/ Propagate \/ Emit

\* The two passes and the emission are one thread that never waits.
Spec == Init /\ [][Next]_vars /\ WF_vars(Next)

-----------------------------------------------------------------------------
(* rustc's layout of what was emitted.                                      *)

rustc_record(m) == m.pad = 0 /\ m.type \in DOMAIN cx.records

rustc_size(layout, m) ==
    IF m.pad > 0 THEN m.pad
    ELSE IF rustc_record(m) THEN layout[m.type].size ELSE Prim[m.type]

rustc_natural(layout, m) ==
    IF m.pad > 0 THEN 1
    ELSE IF rustc_record(m) THEN layout[m.type].align ELSE Prim[m.type]

rustc_align(layout, n, m) ==
    IF reprs[n].kind = "Packed" THEN Min({rustc_natural(layout, m), reprs[n].n})
    ELSE rustc_natural(layout, m)

rustc_place(r, st, size, align) ==
    LET off == IF r.union THEN 0 ELSE round_up(st.size, align)
    IN  [size |-> Max({st.size, off + size}), at |-> off]

rustc_run(layout, n) ==
    LET run[i \in 0 .. Len(bodies[n])] ==
            IF i = 0 THEN [size |-> 0, at |-> 0]
            ELSE LET m == bodies[n][i]
                 IN  rustc_place(cx.records[n], run[i - 1],
                                 rustc_size(layout, m), rustc_align(layout, n, m))
    IN  run

rustc_layout(layout, n) ==
    LET run == rustc_run(layout, n)
        al  == Max({1, IF reprs[n].kind = "Align" THEN reprs[n].n ELSE 1}
                   \cup {rustc_align(layout, n, bodies[n][i]) : i \in DOMAIN bodies[n]})
    IN  [size |-> round_up(run[Len(bodies[n])].size, al),
         align |-> al,
         offsets |-> {<<bodies[n][i].field, run[i].at>> : i \in DOMAIN bodies[n]}]

rustc ==
    LET layout[n \in DOMAIN cx.records] == rustc_layout(layout, n)
    IN  layout

\* rustc refuses a packed record that holds an aligned one.
holds_aligned[n \in DOMAIN cx.records] ==
    \/ reprs[n].kind = "Align"
    \/ \E i \in DOMAIN fields(cx, n) :
          LET t == fields(cx, n)[i].type
          IN  t \in DOMAIN cx.records /\ holds_aligned[t]
rejected == \E n \in DOMAIN cx.records : reprs[n].kind = "Packed" /\ holds_aligned[n]

\* record_check: what the emitted assertions of a record compare.
measured(n) == {i \in DOMAIN fields(cx, n) : ~bitfield(fields(cx, n)[i])}
agree(n, measure, is) ==
    LET emitted == rustc[n]
    IN  /\ emitted.size = measure.size
        /\ emitted.align = measure.align
        /\ \A i \in is : <<i, measure.offsets[i]>> \in emitted.offsets
record_check(n) ==
    dumped(cx, n) => agree(n, cx.layouts[n], {i \in measured(n) : fields(cx, n)[i].named})

-----------------------------------------------------------------------------
(* Properties.                                                             *)

\* emit.rs 922-1119 states its rules for packed, for over-aligned and for
\* bit-field records apart. A record is reproducible when those rules cover it:
\*  - bit-fields of one size that follow each other have one type, and a
\*    zero-width one ends a unit of its own type;
\*  - nothing over-aligned sits in a packed record;
\*  - an over-aligned field has only named, whole fields beside it;
\*  - an anonymous record asks for no alignment of its own, and as a union
\*    holds no bit-field itself (MSVC ignores their alignment there).
over_aligned(f) == f.align > 1
over_aligned_type(u, t) == t \in DOMAIN u /\ clang(u)[t].required > 1

hoisted(u, t) == t \in DOMAIN u /\ u[t].anon

uniform_runs(fs) ==
    \A i \in DOMAIN fs :
        LET f == fs[i]
            follows == i > 1 /\ bitfield(fs[i - 1])
            last    == fs[i - 1]
        IN  /\ f.bits = 0 => follows /\ last.bits > 0 /\ last.type = f.type
            /\ bitfield(f) /\ follows => last.type = f.type \/ Prim[last.type] # Prim[f.type]

reproducible(u, n) ==
    LET r == u[n]
        fs == Range(r.fields)
    IN  /\ uniform_runs(r.fields)
        /\ \/ r.pack = Unpacked
           \/ r.align = 1 /\ \A f \in fs : ~over_aligned(f) /\ ~over_aligned_type(u, f.type)
        /\ (\E f \in fs : over_aligned(f)) =>
              \A f \in fs : f.named /\ ~bitfield(f) /\ ~hoisted(u, f.type)
        /\ r.anon =>
              /\ r.align = 1 /\ \A f \in fs : ~over_aligned(f)
              /\ r.union => \A f \in fs : ~bitfield(f)
              /\ r.pack = Unpacked \/ \E p \in DOMAIN u : \E f \in Range(u[p].fields) : f.type = n
        /\ \A f \in fs : hoisted(u, f.type) => u[f.type].pack = r.pack

TypeOK ==
    /\ \A n \in DOMAIN cx.records :
          /\ reprs[n].kind \in {"C", "Align", "Packed"} /\ reprs[n].n \in Nat \ {0}
          /\ \A i \in DOMAIN bodies[n] :
                /\ bodies[n][i].field \in {0} \cup measured(n)
                /\ bodies[n][i].type \in DOMAIN Prim \cup DOMAIN cx.records
                /\ bodies[n][i].pad \in Nat
    /\ phase \in {"measure", "propagate", "done"}

\* The repr derived from one measured number, the packing handed down to the
\* anonymous members, the storage units and the padding together give every
\* record, the anonymous ones no assertion looks at included, the size, the
\* alignment and the offsets clang gave it (emit.rs 994-1068).
all_agree == LET truth == clang(cx.records)
             IN  \A n \in DOMAIN cx.records : agree(n, truth[n], measured(n))

Faithful ==
    phase = "done" /\ (\A n \in DOMAIN cx.records : reproducible(cx.records, n))
    => all_agree

\* Padding is written only where the headers over-align a field: any other
\* record, whatever gaps the C layout has, is emitted verbatim (emit.rs 922-930).
VerbatimUnlessOverAligned ==
    \A n \in DOMAIN cx.records :
        (\E i \in DOMAIN bodies[n] : bodies[n][i].pad > 0)
        => \E i \in DOMAIN fields(cx, n) : over_aligned(fields(cx, n)[i])

\* "the parity assertions catch anything this misjudges" (emit.rs 1010-1011), a
\* hoisted anonymous record "transitively via" its parent (verify.rs 196): when
\* rustc accepts the records and their assertions, it lays them out as clang does.
MisjudgementsAreCaught ==
    phase = "done" /\ ~rejected /\ (\A n \in DOMAIN cx.records : record_check(n))
    => all_agree

\* The propagation loop of compute_reprs reaches its fixpoint, whatever the
\* nesting of the anonymous records (emit.rs 1024-1068).
Settles == <>[](phase = "done")
=============================================================================
