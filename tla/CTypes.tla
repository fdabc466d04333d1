------------------------------- MODULE CTypes -------------------------------
(***************************************************************************)
(* C types as the generator knows them (ctype.rs): clang's dump spells a    *)
(* type as text, and `parse` reads the text back into a tree.               *)
(*                                                                         *)
(* A text is a sequence of tokens. "stdcall" stands for the whole attribute *)
(* that spells the calling convention, a multi-word primitive is one token, *)
(* the word before an anonymous record's location is "unnamed at" or        *)
(* "anonymous at". Blanks are not tokens: a "(" and the "*" after it are    *)
(* adjacent, as `parse` makes them.                                        *)
(***************************************************************************)
EXTENDS Integers, SequencesExt

-----------------------------------------------------------------------------
(* The type a C declaration has, and how clang spells it: a declarator is    *)
(* written from the inside out around the name, with the name left out.     *)

CBase(words)           == [is |-> "base", words |-> words]
CAnon(tag, scope, loc) == [is |-> "anon", tag |-> tag, scope |-> scope, loc |-> loc]
\* An anonymous definition that a typedef names goes by the typedef's name.
CLinked(name, loc)     == [is |-> "linked", name |-> name, loc |-> loc]
CPtr(quals, to)        == [is |-> "ptr", quals |-> quals, to |-> to]
CArr(len, of)          == [is |-> "arr", len |-> len, of |-> of]
CFn(cc, ret, params, variadic) ==
    [is |-> "fn", cc |-> cc, ret |-> ret, params |-> params, variadic |-> variadic]

separated(texts) ==
    FlattenSeq([i \in DOMAIN texts |-> IF i = 1 THEN texts[i] ELSE <<",">> \o texts[i]])

RECURSIVE spelled(_, _)
spelled(t, declarator) ==
    CASE t.is = "base" -> t.words \o declarator
      [] t.is = "linked" -> t.name \o declarator
      [] t.is = "anon" ->
            <<t.tag>> \o t.scope \o
            (IF t.scope = <<>> THEN <<"(", "unnamed at", t.loc, ")">>
                               ELSE <<"(", "anonymous at", t.loc, ")">>) \o declarator
      [] t.is = "arr" -> spelled(t.of, declarator \o <<"[", t.len, "]">>)
      [] t.is = "fn" ->
            LET params == [i \in DOMAIN t.params |-> spelled(t.params[i], <<>>)]
                args   == IF t.variadic THEN Append(params, <<"...">>)
                          ELSE IF params = <<>> THEN <<<<"void">>>> ELSE params
            IN  spelled(t.ret, declarator \o <<"(">> \o separated(args) \o <<")">>
                               \o (IF t.cc = "stdcall" THEN <<"stdcall">> ELSE <<>>))
      [] t.is = "ptr" ->
            LET pointer == <<"*">> \o t.quals \o declarator
            IN  spelled(t.to, IF t.to.is \in {"arr", "fn"}
                              THEN <<"(">> \o pointer \o <<")">> ELSE pointer)

spell(t) == spelled(t, <<>>)

-----------------------------------------------------------------------------
(* CType: what `parse` builds. A name is a sequence: the words of a tag or   *)
(* typedef, or of the record an anonymous member was hoisted from.          *)

Void     == [is |-> "Void"]
Prim(w)  == [is |-> "Prim", word |-> w]
Named(n) == [is |-> "Named", name |-> n]
Anon(l)  == [is |-> "Anon", loc |-> l]
Unknown  == [is |-> "Unknown"]
Pointer(konst, ptr32, inner) ==
    [is |-> "Pointer", konst |-> konst, ptr32 |-> ptr32, inner |-> inner]
Array(len, inner) == [is |-> "Array", len |-> len, inner |-> inner]
FnPtr(cc, ret, params, variadic) ==
    [is |-> "FnPtr", cc |-> cc, ret |-> ret, params |-> params, variadic |-> variadic]

prims        == {"char", "unsigned char", "int", "unsigned long", "long long"}
cv           == {"const", "volatile", "__unaligned"}
tag_words    == {"struct", "union", "enum"}
anon_marks   == {"unnamed at", "anonymous at"}
punctuation  == {"(", ")", "*", "[", "]", ",", "...", "::"}
is_ptr_qualifier(w) ==
    w \in {"const", "volatile", "__ptr32", "__ptr64", "__unaligned", "restrict"}

ends_with(s, w) == s # <<>> /\ Last(s) = w

RECURSIVE strip_leading(_)
strip_leading(s) == IF s # <<>> /\ Head(s) \in cv THEN strip_leading(Tail(s)) ELSE s

\* trim_end_matches drops every "const" at the end, then every "volatile".
RECURSIVE strip_trailing(_, _)
strip_trailing(s, w) == IF ends_with(s, w) THEN strip_trailing(Front(s), w) ELSE s

\* The location between an anonymous mark and the final parenthesis.
anon_loc(s) ==
    {s[i + 1] : i \in {i \in 1 .. Len(s) - 2 :
                          s[i] \in anon_marks /\ i + 2 = Len(s) /\ ends_with(s, ")")}}

parse_base(s) ==
    LET b    == strip_trailing(strip_trailing(strip_leading(s), "const"), "volatile")
        rest == Tail(b)
    IN  CASE anon_loc(b) # {} -> Anon(CHOOSE l \in anon_loc(b) : TRUE)
          [] Len(b) > 1 /\ Head(b) \in tag_words -> Named(rest)
          [] b = <<"void">> -> Void
          [] Len(b) = 1 /\ b[1] \in prims -> Prim(b[1])
          [] Len(b) = 1 /\ b[1] \notin prims \cup punctuation -> Named(b)
          [] OTHER -> Unknown

\* A trailing const qualifies the pointee, except one written on a pointer.
pointee_is_const(head) ==
    \/ head # <<>> /\ Head(head) = "const"
    \/ ends_with(head, "const") /\ head[Len(head) - 1] # "*"

\* Where the run of [..] groups at the end begins.
top_level_array_open(s) ==
    {i \in DOMAIN s :
        /\ ends_with(s, "]")
        /\ s[i] = "["
        /\ \A j \in i .. Len(s) : s[j] \in {"[", "]"} \/ s[j - 1] = "["
        /\ i = 1 \/ s[i - 1] # "]"}

\* The lengths of the groups, outermost first; [] is a length of zero.
parse_dims(s) ==
    LET opens == SelectSeq([i \in DOMAIN s |-> i], LAMBDA i : s[i] = "[")
    IN  [d \in DOMAIN opens |-> IF s[opens[d] + 1] = "]" THEN "0" ELSE s[opens[d] + 1]]

count(s, ws, i, j) == Cardinality({x \in i .. j : s[x] \in ws})

\* The "(" that matches the text's final ")".
matching_open_for_last_close(s) ==
    Max({0} \cup {i \in DOMAIN s :
        s[i] = "(" /\ count(s, {"("}, i, Len(s)) = count(s, {")"}, i, Len(s))})

split_top_level_commas(s) ==
    LET nested(i) == count(s, {"(", "["}, 1, i) # count(s, {")", "]"}, 1, i)
        commas    == SetToSortSeq({i \in DOMAIN s : s[i] = "," /\ ~nested(i)}, <)
        cuts      == <<0>> \o commas \o <<Len(s) + 1>>
    IN  [p \in 1 .. Len(cuts) - 1 |-> SubSeq(s, cuts[p] + 1, cuts[p + 1] - 1)]

\* The text before the first "(*" of a declarator, or all of it.
before_pointer(decl) ==
    LET at == SelectInSeq([i \in 1 .. Len(decl) - 1 |-> SubSeq(decl, i, i + 1)],
                          LAMBDA pair : pair = <<"(", "*">>)
    IN  IF at = 0 THEN decl ELSE SubSeq(decl, 1, at - 1)

RECURSIVE parse_inner_cc(_, _)

parse_inner(s) == parse_inner_cc(s, "C")

\* The parameter list is the last parenthesised group, unless that is where an
\* anonymous record's location stands; what precedes it is the return type, and
\* a declarator that points.
fnptr_args(s)   == SubSeq(s, matching_open_for_last_close(s) + 1, Len(s) - 1)
fnptr_return(s) == before_pointer(SubSeq(s, 1, matching_open_for_last_close(s) - 1))
is_fnptr(s) ==
    /\ ends_with(s, ")") /\ matching_open_for_last_close(s) # 0
    /\ ~(fnptr_args(s) # <<>> /\ Head(fnptr_args(s)) \in anon_marks)
    /\ fnptr_return(s) # <<>>
    /\ fnptr_return(s) \notin {<<w>> : w \in tag_words}
    /\ parse_inner(fnptr_return(s)) # Unknown

\* A function pointer or a bare function type, which decays to one.
parse_fnptr(s, cc) ==
    LET parts  == SelectSeq(split_top_level_commas(fnptr_args(s)),
                            LAMBDA a : a \notin {<<>>, <<"void">>})
        params == SelectSeq(parts, LAMBDA a : a # <<"...">>)
    IN  FnPtr(cc, parse_inner(fnptr_return(s)),
              [i \in DOMAIN params |-> parse_inner(params[i])], params # parts)

\* Whether the text is a pointer: only qualifiers follow its last "*".
last_star(s)  == SelectLastInSeq(s, LAMBDA w : w = "*")
is_pointer(s) ==
    last_star(s) # 0 /\ \A i \in last_star(s) + 1 .. Len(s) : is_ptr_qualifier(s[i])

\* A slip: the innermost dimension is taken first.
parse_array_reversed(s) ==
    LET open == CHOOSE i \in top_level_array_open(s) : TRUE
    IN  FoldLeft(LAMBDA inner, len : Array(len, inner),
                 parse_inner(SubSeq(s, 1, open - 1)),
                 parse_dims(SubSeq(s, open, Len(s))))

parse_array(s) ==
    LET open == CHOOSE i \in top_level_array_open(s) : TRUE
    IN  FoldRight(LAMBDA len, inner : Array(len, inner),
                  parse_dims(SubSeq(s, open, Len(s))),
                  parse_inner(SubSeq(s, 1, open - 1)))

parse_pointer(s) ==
    LET head == SubSeq(s, 1, last_star(s) - 1)
    IN  Pointer(pointee_is_const(head),
                \E i \in last_star(s) + 1 .. Len(s) : s[i] = "__ptr32",
                parse_inner(head))

parse_inner_cc(s, cc) ==
    IF s = <<>> THEN Unknown
    ELSE IF is_fnptr(s) THEN parse_fnptr(s, cc)
    ELSE IF top_level_array_open(s) # {} THEN parse_array(s)
    ELSE IF is_pointer(s) THEN parse_pointer(s)
    ELSE parse_base(s)

\* The convention is looked for anywhere in the text, then stripped.
parse(s) ==
    parse_inner_cc(SelectSeq(s, LAMBDA w : w # "stdcall"),
                   IF Contains(s, "stdcall") THEN "Stdcall" ELSE "C")

\* The names and locations a type mentions.
RECURSIVE collect_refs(_)
collect_refs(t) ==
    CASE t.is \in {"Pointer", "Array"} -> collect_refs(t.inner)
      [] t.is = "FnPtr" ->
            collect_refs(t.ret) \cup UNION {collect_refs(t.params[i]) : i \in DOMAIN t.params}
      [] t.is = "Named" -> {t.name}
      [] t.is = "Anon" -> {<<t.loc>>}
      [] OTHER -> {}

\* map_leaves with the one leaf function the lowering passes: an anonymous
\* leaf becomes a name.
RECURSIVE name_anon(_, _)
name_anon(t, n) ==
    CASE t.is \in {"Pointer", "Array"} -> [t EXCEPT !.inner = name_anon(@, n)]
      [] t.is = "FnPtr" -> [t EXCEPT !.ret = name_anon(@, n),
                                     !.params = [i \in DOMAIN @ |-> name_anon(@[i], n)]]
      [] t.is = "Anon" -> Named(n)
      [] OTHER -> t

RECURSIVE has_anon(_)
has_anon(t) ==
    CASE t.is \in {"Pointer", "Array"} -> has_anon(t.inner)
      [] t.is = "FnPtr" -> has_anon(t.ret) \/ \E i \in DOMAIN t.params : has_anon(t.params[i])
      [] OTHER -> t.is = "Anon"

-----------------------------------------------------------------------------
(* What a C type means, and which types the parser is written for.          *)

is_const(t) == \/ t.is = "base" /\ Head(t.words) = "const"
               \/ t.is = "ptr" /\ Contains(t.quals, "const")

RECURSIVE meaning(_)
meaning(t) ==
    CASE t.is = "base" ->
            LET word == Last(t.words)
            IN  IF word = "void" THEN Void
                ELSE IF word \in prims THEN Prim(word) ELSE Named(<<word>>)
      [] t.is = "linked" -> Named(t.name)
      [] t.is = "anon" -> Anon(t.loc)
      [] t.is = "arr" -> Array(t.len, meaning(t.of))
      [] t.is = "fn" -> FnPtr(IF t.cc = "stdcall" THEN "Stdcall" ELSE "C", meaning(t.ret),
                              [i \in DOMAIN t.params |-> meaning(t.params[i])], t.variadic)
      [] t.is = "ptr" /\ t.to.is = "fn" -> meaning(t.to)
      [] OTHER -> Pointer(is_const(t.to), Contains(t.quals, "__ptr32"), meaning(t.to))

\* "primitives, named types, multi-level/const pointers, (multi-dimensional)
\* arrays, anonymous records, and function pointers": arrays only outermost, a
\* function pointer only by itself, in a parameter without a convention.
RECURSIVE pointers(_), arrays(_), callback(_, _)
pointers(t) == t.is \in {"base", "linked", "anon"} \/ (t.is = "ptr" /\ pointers(t.to))
arrays(t)   == pointers(t) \/ (t.is = "arr" /\ arrays(t.of))
callback(t, ccs) ==
    /\ t.is = "fn" \/ (t.is = "ptr" /\ t.to.is = "fn" /\ t.quals = <<>>)
    /\ LET f == IF t.is = "fn" THEN t ELSE t.to
       IN  /\ f.cc \in ccs
           /\ pointers(f.ret)
           /\ \A i \in DOMAIN f.params : pointers(f.params[i]) \/ callback(f.params[i], {"C"})
supported(t) == arrays(t) \/ callback(t, {"C", "stdcall"})

\* Up to constness, which no ABI depends on, and to which record an anonymous
\* leaf became: a name of more than one part is a hoisted record's.
RECURSIVE shape(_)
shape(t) ==
    CASE t.is = "Pointer" -> [t EXCEPT !.konst = FALSE, !.inner = shape(@)]
      [] t.is = "Array" -> [t EXCEPT !.inner = shape(@)]
      [] t.is = "FnPtr" -> [t EXCEPT !.ret = shape(@),
                                     !.params = [i \in DOMAIN @ |-> shape(@[i])]]
      [] t.is = "Named" -> IF Len(t.name) > 1 THEN Anon("") ELSE t
      [] t.is = "Anon" -> Anon("")
      [] OTHER -> t

\* A pointer to something that is no pointer keeps its constness as well.
reads_as(read, t) ==
    /\ shape(read) = shape(meaning(t))
    /\ t.is = "ptr" /\ t.to.is \in {"base", "anon"} => read.konst = is_const(t.to)

RECURSIVE has_unknown(_)
has_unknown(t) ==
    CASE t.is \in {"Pointer", "Array"} -> has_unknown(t.inner)
      [] t.is = "FnPtr" ->
            has_unknown(t.ret) \/ \E i \in DOMAIN t.params : has_unknown(t.params[i])
      [] OTHER -> t.is = "Unknown"
=============================================================================
