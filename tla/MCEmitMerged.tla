----------------------------- MODULE MCEmitMerged -----------------------------
(***************************************************************************)
(* Small instances of EmitMerged. The header set has one record S that     *)
(* changes shape between releases and is laid out differently on the two   *)
(* arches, a function F over it declared twice, a name H that has a        *)
(* definition in some configurations only, and an enum E whose underlying  *)
(* type W the closure does not follow.                                     *)
(***************************************************************************)
EXTENDS EmitMerged

CONSTANTS x86, x86_64, user

At(v, a, s) == [ordinal |-> v, arch |-> a, surface |-> s]

MCArchOrder == [a \in Arch |-> IF a = x86 THEN 1 ELSE 2]

MCNames == {"S", "T", "ULONG", "H", "F", "E", "W"}
MCPrims == {"ULONG"}

Key(k, n, h, rs)  == [kind |-> k, name |-> n, hash |-> h, refs |-> rs]
Text(s, n, t, ms) == [space |-> s, name |-> n, text |-> t, mentions |-> ms]

keyS1     == Key("Record", "S", 1, {"T"})
keyS2     == Key("Record", "S", 2, {"H"})
keySAlias == Key("Typedef", "S", 3, {"S"})
keyT      == Key("Typedef", "T", 1, {"ULONG"})
keyULONG  == Key("Typedef", "ULONG", 1, {})
keyH      == Key("Record", "H", 1, {})
keyE      == Key("Enum", "E", 1, {"W"})
keyW      == Key("Typedef", "W", 1, {})
keyF      == Key("Function", "F", 1, {"S"})
keyFStd   == Key("Function", "F", 2, {"S"})
keyFAgain == Key("Function", "F", 3, {"S"})
MCKeys == {keyS1, keyS2, keySAlias, keyT, keyULONG, keyH, keyE, keyW, keyF, keyFStd,
           keyFAgain}

textS1     == Text("type", "S", "repr(C)", {"T"})
textS1Pack == Text("type", "S", "repr(C, packed(4))", {"T"})
textS2     == Text("type", "S", "newer", {"H"})
checkS1    == Text("check", "S", "size 8", {"S"})
checkS1Pack== Text("check", "S", "size 6", {"S"})
textT      == Text("type", "T", "alias", {"ULONG"})
textULONG  == Text("type", "ULONG", "alias", {})
textH      == Text("type", "H", "body", {})
textE      == Text("type", "E", "constants", {})
textW      == Text("type", "W", "alias", {})
textF      == Text("fn", "F", "decl", {"S"})
textFAgain == Text("fn", "F", "redecl", {"S"})
MCRenderings == {textS1, textS1Pack, textS2, checkS1, checkS1Pack, textT, textULONG,
                 textH, textE, textW, textF, textFAgain}

Fn(k, r, cc) == [key |-> k, rendering |-> r, conv |-> cc]
Closure(ks, rs, fs, ns) == [keys |-> ks, renderings |-> rs, fns |-> fs, opaque |-> ns]

older == Closure({keyS1, keyT, keyULONG}, {textS1, checkS1, textT, textULONG},
                 <<Fn(keyF, textF, "Default"), Fn(keyFAgain, textFAgain, "Default")>>, {})
olderPacked == Closure({keyS1, keyT, keyULONG}, {textS1Pack, checkS1Pack, textT, textULONG},
                       <<Fn(keyFStd, textF, "Stdcall")>>, {})
newer == Closure({keyS2, keySAlias}, {textS2}, <<>>, {"H"})
newerDefined == Closure({keyS2, keySAlias, keyH}, {textS2, textH}, <<>>, {})
enumOnly == Closure({keyE}, {textE}, <<>>, {})
enumAndType == Closure({keyE, keyW}, {textE, textW}, <<>>, {})

\* The CLI's generate-merged captures the user surface only.
UserClosures == {older, olderPacked, newer, newerDefined, enumOnly, enumAndType}
UserCells == {At(61, x86_64, user), At(100, x86_64, user), At(114, x86_64, user),
              At(100, x86, user), At(114, x86, user)}

\* Three releases of one arch: H may be opaque, then defined, then opaque again.
StubClosures == {newer, newerDefined}
StubCells == {At(v, x86_64, user) : v \in {100, 107, 114}}
=============================================================================
