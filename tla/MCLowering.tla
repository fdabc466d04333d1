------------------------------ MODULE MCLowering ------------------------------
(***************************************************************************)
(* Translation units in the forms C headers write: every small C type as a  *)
(* member or typedef, every struct of up to three members with anonymous    *)
(* ones, and every file of up to three declarations.                        *)
(***************************************************************************)
EXTENDS LoweredTypes

-----------------------------------------------------------------------------
(* Units are written as trees and numbered in document order.              *)

RECURSIVE size(_)
size(tree) == 1 + FoldLeft(LAMBDA n, c : n + size(c), 0, tree.inner)

RECURSIVE numbered(_, _)
numbered(tree, i) ==
    LET number == [p \in DOMAIN tree.inner |->
                      FoldLeft(LAMBDA n, c : n + size(c), i + 1, SubSeq(tree.inner, 1, p - 1))]
    IN  <<[tree EXCEPT !.inner = number]>>
        \o FlattenSeq([p \in DOMAIN tree.inner |-> numbered(tree.inner[p], number[p])])

Dump(declarations) == numbered(Other(declarations), 1)

MCLocations == {"L1", "L2", "L3", "L4", "L5", "L6", "K1", "K2", "K3"}

-----------------------------------------------------------------------------
(* C types, by nesting depth.                                              *)

int    == CBase(<<"int">>)
void   == CBase(<<"void">>)
const_int == CBase(<<"const", "int">>)
S      == CBase(<<"struct", "S">>)
T      == CBase(<<"T">>)
member == CAnon("struct", <<"S", "::">>, "L1")

values(ts) == {t \in ts : t.is # "fn" /\ t # void}
elements(ts) == {t \in values(ts) : t.is # "arr" \/ t.of.is # "fn"}
\* A function returns neither an array nor a function.
returned(ts) == {t \in ts : t.is \notin {"arr", "fn"}}

wrapped(ts, params) ==
    {CPtr(q, t) : q \in {<<>>, <<"const">>, <<"__ptr32">>}, t \in ts}
    \cup {CArr(n, t) : n \in {"2", ""}, t \in elements(ts)}
    \cup {CFn(cc, r, ps, v) : cc \in {"C", "stdcall"}, r \in returned(ts),
                              ps \in params, v \in BOOLEAN}

Depth0 == {int, void, const_int, S, T, member}
Depth1 == wrapped(Depth0, {<<int>>, <<T, CPtr(<<>>, S)>>})
\* A variadic function has a named parameter; a callback takes a callback.
Callback == CPtr(<<>>, CFn("C", void, <<>>, FALSE))
Stdcall  == CPtr(<<>>, CFn("stdcall", void, <<>>, FALSE))
Depth2 == wrapped({t \in Depth1 : t.is = "fn" => t.ret \in {int, void} /\ ~t.variadic},
                  {<<Callback>>, <<Stdcall, int>>})
Depth3 == {CPtr(<<>>, t) : t \in Depth2} \cup {CArr("3", t) : t \in elements(Depth2)}

Types == Depth0 \cup Depth1 \cup Depth2 \cup Depth3

\* The forms that each have a branch of the parser are all there: functions,
\* pointers to them, callbacks among the parameters, arrays of pointers.
ASSUME EveryForm ==
    /\ \E t \in Types : t.is = "fn"
    /\ \E t \in Types : t.is = "ptr" /\ t.to.is = "fn"
    /\ \E t \in Types : t.is = "fn" /\ \E i \in DOMAIN t.params : t.params[i] = Callback
    /\ \E t \in Types : t.is = "ptr" /\ t.to.is = "ptr" /\ t.to.to.is = "fn"
    /\ \E t \in Types : t.is = "arr" /\ t.of.is = "ptr"

Struct(name, loc, inner) == RecordDecl(name, loc, TRUE, TRUE, inner)

TypeUnit(t) ==
    IF t.is = "fn"
    THEN <<TypedefDecl(<<"F">>, TRUE, t), FunctionDecl(<<"f">>, TRUE, t, t.params, FALSE)>>
    ELSE <<TypedefDecl(<<"F">>, TRUE, t),
           Struct(<<"R">>, "K1",
                  (IF anon_locs(t) = {} THEN <<>>
                   ELSE <<Struct(NoName, "L1", <<FieldDecl(int)>>)>>) \o <<FieldDecl(t)>>)>>
TypeUnits == {TypeUnit(t) : t \in Types \ {void}}

-----------------------------------------------------------------------------
(* Structs: up to three members, the i-th one's definitions at its own       *)
(* locations.                                                              *)

outer == [i \in 1 .. 3 |-> <<"L1", "L2", "L3">>[i]]
inner == [i \in 1 .. 3 |-> <<"L4", "L5", "L6">>[i]]
tag   == [i \in 1 .. 3 |-> <<<<"N1">>, <<"N2">>, <<"N3">>>>[i]]
Anonymous(l) == CAnon("struct", <<>>, l)

Forms(i) ==
    LET o == outer[i]
        n == inner[i]
    IN  { <<FieldDecl(int)>>,
          <<Other(<<>>), FieldDecl(CPtr(<<>>, S))>>,
          \* struct { int; };
          <<Struct(NoName, o, <<FieldDecl(int)>>), FieldDecl(Anonymous(o))>>,
          \* struct { union { T }; struct { int } *x[2]; } y;
          <<Struct(NoName, o, <<Struct(NoName, n, <<FieldDecl(T)>>), FieldDecl(Anonymous(n))>>),
            FieldDecl(Anonymous(o))>>,
          \* struct { int } *x[2];
          <<Struct(NoName, o, <<FieldDecl(int)>>), FieldDecl(CArr("2", CPtr(<<>>, Anonymous(o))))>>,
          \* struct { int } x, y;
          <<Struct(NoName, o, <<FieldDecl(int)>>), FieldDecl(Anonymous(o)), FieldDecl(Anonymous(o))>>,
          \* enum { A } e;
          <<EnumDecl(NoName, o, TRUE, <<"A">>, {}), FieldDecl(CAnon("enum", <<>>, o))>>,
          \* struct N { struct { int }; } x;
          <<Struct(tag[i], o, <<Struct(NoName, n, <<FieldDecl(int)>>), FieldDecl(Anonymous(n))>>),
            FieldDecl(CBase(<<"struct">> \o tag[i]))>> }

StructUnits ==
    {<<Struct(<<"S">>, "K1", a \o b \o c)>> :
        a \in Forms(1), b \in Forms(2), c \in Forms(3)}

-----------------------------------------------------------------------------
(* Files.                                                                  *)

Declarations(i, forward_enums) ==
    LET l == outer[i]
        k == <<"K1", "K2", "K3">>[i]
    IN  { <<RecordDecl(<<"S">>, k, TRUE, FALSE, <<>>)>>,
          <<[RecordDecl(<<"S">>, k, TRUE, TRUE, <<>>) EXCEPT !.implicit = TRUE]>>,
          <<TypedefDecl(<<"S">>, TRUE, S)>>,
          \* typedef struct { int; struct { int } } T, *PT, of the SDK
          <<RecordDecl(NoName, l, FALSE, TRUE,
                       <<FieldDecl(int), Struct(NoName, inner[i], <<FieldDecl(int)>>),
                         FieldDecl(Anonymous(inner[i]))>>),
            Other(<<>>),
            TypedefDecl(<<"T">>, FALSE, CLinked(<<"T">>, l)),
            TypedefDecl(<<"PT">>, FALSE, CPtr(<<>>, CLinked(<<"T">>, l)))>>,
          \* typedef struct { int } T, of phnt
          <<RecordDecl(NoName, l, TRUE, TRUE, <<FieldDecl(int)>>),
            TypedefDecl(<<"T">>, TRUE, CLinked(<<"T">>, l))>>,
          <<EnumDecl(NoName, l, TRUE, <<"A">>, {}),
            TypedefDecl(<<"T">>, TRUE, CLinked(<<"T">>, l))>>,
          <<EnumDecl(<<"E">>, k, TRUE, <<"B">>, {T})>>,
          <<[TypedefDecl(<<"PT">>, TRUE, CPtr(<<>>, S)) EXCEPT !.implicit = TRUE]>>,
          <<FunctionDecl(<<"f">>, TRUE, CFn("stdcall", int, <<CPtr(<<>>, S)>>, FALSE),
                         <<CPtr(<<>>, S)>>, FALSE)>>,
          <<FunctionDecl(<<"g">>, TRUE, CFn("C", void, <<>>, FALSE), <<>>, TRUE)>>,
          <<Other(<<>>)>> }
        \cup {<<EnumDecl(<<"E">>, k, TRUE, <<>>, {})>> : x \in forward_enums}

\* C admits one definition of a tag in a file, and one type per typedef.
defined_once(u) ==
    \A i, j \in DOMAIN u : i # j =>
        ~(/\ u[i].kind = u[j].kind
          /\ u[i].kind \in {"record", "enum", "typedef"}
          /\ u[i].name = u[j].name /\ u[i].name # NoName
          /\ (u[i].kind = "record" => u[i].complete /\ u[j].complete)
          /\ (u[i].kind = "enum" => u[i].constants # <<>> /\ u[j].constants # <<>>))

Complete == <<Struct(<<"S">>, "L3", <<FieldDecl(int), Struct(NoName, "L6", <<FieldDecl(T)>>),
                                      FieldDecl(Anonymous("L6"))>>)>>

Files(forward_enums) ==
    {u \in {a \o b \o c : a \in Declarations(1, forward_enums),
                          b \in Declarations(2, forward_enums),
                          c \in Declarations(3, forward_enums) \cup {Complete}} :
        defined_once(u)}

TypeDumps    == {Dump(u) : u \in TypeUnits}
AllUnits     == {Dump(u) : u \in TypeUnits \cup StructUnits \cup Files({})}
ForwardEnums == {Dump(u) : u \in Files({TRUE})}
=============================================================================
