---------------------------- MODULE ArtifactsProofs ----------------------------
(***************************************************************************)
(* The files the commands leave for each other, proved for every number of *)
(* cells, header revisions and capture commands.                           *)
(***************************************************************************)
EXTENDS Artifacts, TLAPS

\* A cell that has not overlapped has one command at most, ...
Alone ==
    \A d, e \in Dumps :
        capture[d] # Idle /\ capture[e] # Idle /\ d[1] = e[1] /\ d[1] \notin overlapped => d = e

\* ... which has written the wrapper clang will read, ...
Wrapped ==
    \A d \in Dumps :
        capture[d].pc \in {"wrapped", "created"} /\ d[1] \notin overlapped =>
            wrapper[d[1]] = "whole"

\* ... and whose clang, and so whose dump, is of the headers.
Streamed ==
    \A d \in Dumps : d[1] \notin overlapped =>
        /\ capture[d].pc = "clang" => capture[d].of # NoHeaders
        /\ OfTheHeaders(dump[d])

CaptureInv == Alone /\ Wrapped /\ Streamed

\* What the merge has read, in memory and on disk.
Sound(folded) ==
    \A r \in folded :
        /\ r.ast.text = "whole"
        /\ r.cell \notin overlapped => OfTheHeaders(r.ast) /\ OfTheHeaders(r.layouts)

\* Every listed cell is folded or still to be read; the one whose layouts are
\* read next is both.
Accounted ==
    /\ merge.specs = merge.todo \cup cells_of(merge.folded)
    /\ merge.pc = "measure" =>
          \A c \in merge.todo : first(c) => c \in cells_of(merge.folded)
    /\ merge.pc \in {"write", "features", "table"} => merge.todo = {}

\* Once the bindings are written they are what was folded.
Written ==
    merge.pc \in {"features", "table"} => crate.text = "whole" /\ crate.cells = merge.folded

MergeInv == Sound(merge.folded) /\ Sound(crate.cells) /\ Accounted /\ Written

IInv == TypeOK /\ CaptureInv /\ MergeInv /\ TableBesideBindings

-----------------------------------------------------------------------------
(* Types.                                                                  *)

LEMMA InitType == Init => TypeOK
  BY ArtifactsAssumption
     DEF Init, TypeOK, Revision, NoHeaders, Text, Absent, Dump, Content, Idle, NoMerge

\* The parts of TypeOK a command and the merge have between them.
DriverType ==
    /\ headers \in Revision \ {NoHeaders}
    /\ wrapper \in [Requested -> Text]
    /\ dump \in [Dumps -> Content]
    /\ capture \in [Dumps -> [pc : {"idle", "wrapping", "wrapped", "created", "clang"},
                             of : Revision]]
    /\ overlapped \subseteq Requested
    /\ \A d \in Dumps : capture[d].pc \in {"created", "clang"} => dump[d].text = "cut"

MergeType ==
    /\ merge \in [pc : {"idle", "read", "measure", "write", "features", "table"},
                  specs : SUBSET Requested, measured : SUBSET Requested,
                  todo : SUBSET Requested, folded : SUBSET Folded]
    /\ crate \in [text : Text, cells : SUBSET Folded]
    /\ features \in Text

LEMMA TypeParts == TypeOK <=> DriverType /\ MergeType
  BY DEF TypeOK, DriverType, MergeType

DriverStep ==
    \/ Update
    \/ \E d \in Dumps :
          \/ CreateWrapper(d) \/ WriteWrapper(d) \/ CreateOutput(d)
          \/ Spawn(d) \/ Finish(d) \/ Kill(d)

MergeStep ==
    \/ List \/ ReadAst \/ ReadLayouts \/ Refuse
    \/ CreateBindings \/ WriteBindings \/ CreateFeatures \/ WriteFeatures
    \/ KillMerge

\* A command leaves the merge alone, and the merge the commands.
LEMMA Apart ==
    /\ Next <=> DriverStep \/ MergeStep
    /\ DriverStep => UNCHANGED mergeVars
    /\ MergeStep => UNCHANGED <<headers, driverVars>>
<1>1. Next <=> DriverStep \/ MergeStep
  BY DEF Next, DriverStep, MergeStep
<1>2. DriverStep => UNCHANGED mergeVars
  BY DEF DriverStep, Update, CreateWrapper, Start, WriteWrapper, CreateOutput, Spawn, Finish, Kill
<1>3. MergeStep => UNCHANGED <<headers, driverVars>>
  BY DEF MergeStep, List, ReadAst, ReadLayouts, Refuse, CreateBindings, WriteBindings,
         CreateFeatures, WriteFeatures, KillMerge
<1>4. QED
  BY <1>1, <1>2, <1>3

LEMMA DriverTypeStep == DriverType /\ DriverStep => DriverType'
<1> SUFFICES ASSUME DriverType, DriverStep PROVE DriverType'
  OBVIOUS
<1> USE DEF DriverType
<1>0. NoHeaders \in Revision /\ "cut" \in Text /\ "whole" \in Text
  BY ArtifactsAssumption DEF Revision, NoHeaders, Text
<1>1. CASE Update
  BY <1>1, ArtifactsAssumption DEF Update, Revision, NoHeaders, driverVars
<1>2. ASSUME NEW d \in Dumps, CreateWrapper(d) PROVE DriverType'
  <2>1. d[1] \in Requested
    BY DEF Dumps
  <2>2. QED
    BY <1>0, <1>2, <2>1 DEF CreateWrapper, Start, At
<1>3. ASSUME NEW d \in Dumps, WriteWrapper(d) PROVE DriverType'
  BY <1>0, <1>3 DEF WriteWrapper, At
<1>4. ASSUME NEW d \in Dumps, CreateOutput(d) PROVE DriverType'
  BY <1>0, <1>4 DEF CreateOutput, At, Dump, Content
<1>5. ASSUME NEW d \in Dumps, Spawn(d) PROVE DriverType'
  BY <1>0, <1>5 DEF Spawn
<1>6. ASSUME NEW d \in Dumps, Finish(d) PROVE DriverType'
  <2>1. Dump("whole", capture[d].of) \in Content
    BY <1>0 DEF Dump, Content
  <2>2. QED
    BY <1>0, <1>6, <2>1 DEF Finish, Idle
<1>7. ASSUME NEW d \in Dumps, Kill(d) PROVE DriverType'
  BY <1>0, <1>7 DEF Kill, Idle
<1>8. QED
  BY <1>1, <1>2, <1>3, <1>4, <1>5, <1>6, <1>7 DEF DriverStep

LEMMA MergeTypeStep == TypeOK /\ MergeStep => MergeType'
<1> SUFFICES ASSUME TypeOK, MergeStep PROVE MergeType'
  OBVIOUS
<1> USE DEF MergeType
<1>0. /\ MergeType
      /\ dump \in [Dumps -> Content]
      /\ "cut" \in Text /\ "whole" \in Text
      /\ \A c \in Requested, m \in Mode : <<c, m>> \in Dumps
      /\ Absent \in Content
  BY ArtifactsAssumption
     DEF TypeOK, Text, Dumps, Absent, Dump, Content, Revision, NoHeaders
<1>a. NoMerge \in [pc : {"idle", "read", "measure", "write", "features", "table"},
                   specs : SUBSET Requested, measured : SUBSET Requested,
                   todo : SUBSET Requested, folded : SUBSET Folded]
  BY DEF NoMerge
<1>1. CASE List
  BY <1>0, <1>1 DEF List, listing
<1>2. CASE ReadAst
  <2>1. PICK c \in merge.todo : merge' = [merge EXCEPT !.pc = "measure",
            !.folded = @ \cup {[cell |-> c, ast |-> dump[<<c, "ast">>], layouts |-> Absent]}]
    BY <1>2 DEF ReadAst
  <2>2. [cell |-> c, ast |-> dump[<<c, "ast">>], layouts |-> Absent] \in Folded
    BY <1>0 DEF Folded, Mode
  <2>3. QED
    BY <1>0, <1>2, <2>1, <2>2 DEF ReadAst
<1>3. CASE ReadLayouts
  <2>1. PICK c \in merge.todo :
            LET read == IF c \in merge.measured THEN dump[<<c, "layouts">>] ELSE Absent
            IN  merge' = [merge EXCEPT !.pc = "read", !.todo = @ \ {c},
                   !.folded = {[r EXCEPT !.layouts = IF r.cell = c THEN read ELSE @] : r \in @}]
    BY <1>3 DEF ReadLayouts
  <2>2. \A r \in merge.folded, content \in Content : [r EXCEPT !.layouts = content] \in Folded
    BY <1>0 DEF Folded
  <2>3. c \in merge.measured => dump[<<c, "layouts">>] \in Content
    BY <1>0 DEF Mode
  <2>4. \A r \in merge.folded : r.layouts \in Content
    BY <1>0 DEF Folded
  <2>5. merge'.folded \subseteq Folded
    BY <1>0, <2>1, <2>2, <2>3, <2>4
  <2>6. QED
    BY <1>0, <1>3, <2>1, <2>5 DEF ReadLayouts
<1>4. CASE Refuse
  BY <1>0, <1>a, <1>4 DEF Refuse
<1>5. CASE CreateBindings
  BY <1>0, <1>5 DEF CreateBindings
<1>6. CASE WriteBindings
  BY <1>0, <1>6 DEF WriteBindings
<1>7. CASE CreateFeatures
  BY <1>0, <1>7 DEF CreateFeatures
<1>8. CASE WriteFeatures
  BY <1>0, <1>a, <1>8 DEF WriteFeatures
<1>9. CASE KillMerge
  BY <1>0, <1>a, <1>9 DEF KillMerge
<1>10. QED
  BY <1>1, <1>2, <1>3, <1>4, <1>5, <1>6, <1>7, <1>8, <1>9 DEF MergeStep

LEMMA TypeStep == TypeOK /\ [Next]_vars => TypeOK'
<1> SUFFICES ASSUME TypeOK, [Next]_vars PROVE TypeOK'
  OBVIOUS
<1>1. CASE DriverStep
  BY <1>1, DriverTypeStep, TypeParts, Apart DEF DriverType, MergeType, TypeOK, mergeVars
<1>2. CASE MergeStep
  BY <1>2, MergeTypeStep, Apart DEF DriverType, MergeType, TypeOK, driverVars
<1>3. CASE UNCHANGED vars
  BY <1>3 DEF TypeOK, vars
<1>4. QED
  BY <1>1, <1>2, <1>3, Apart

\* Every run of the commands keeps the files, the dumps and the merge well typed,
\* and streams a dump only over a truncated one.
THEOREM TypeCorrect == Spec => []TypeOK
  BY InitType, TypeStep, PTL DEF Spec

-----------------------------------------------------------------------------
(* The capture commands.                                                   *)

LEMMA InitCapture == Init => CaptureInv
  BY DEF Init, CaptureInv, Alone, Wrapped, Streamed, OfTheHeaders, Idle, Absent, Dump

\* A start is recorded as an overlap if the cell has another command, so in a
\* cell that has not overlapped the new command is alone.
LEMMA StartStep ==
    ASSUME DriverType, CaptureInv, NEW d \in Dumps, CreateWrapper(d)
    PROVE  CaptureInv'
<1>0. /\ overlapped \subseteq overlapped'
      /\ d[1] \notin overlapped' =>
            \A e \in Dumps : e[1] = d[1] => capture[e] = Idle
      /\ \A e \in Dumps \ {d} : capture'[e] = capture[e]
      /\ capture'[d] = At("wrapping")
      /\ \A e \in Dumps : e[1] # d[1] => wrapper'[e[1]] = wrapper[e[1]]
      /\ dump' = dump
  <2>1. running(d[1]) # {} => d[1] \in overlapped'
    BY DEF CreateWrapper, Start
  <2>2. \A e \in Dumps : e[1] = d[1] /\ capture[e] # Idle => e \in running(d[1])
    BY DEF running
  <2>3. \A e \in Dumps : e[1] \in Requested
    BY DEF Dumps
  <2>4. QED
    BY <2>1, <2>2, <2>3 DEF CreateWrapper, Start, DriverType
<1>1. Alone'
  BY <1>0 DEF CaptureInv, Alone
<1>2. Wrapped'
  <2> SUFFICES ASSUME NEW e \in Dumps, capture'[e].pc \in {"wrapped", "created"},
                      e[1] \notin overlapped'
               PROVE  wrapper'[e[1]] = "whole"
    BY DEF Wrapped
  <2>1. e # d /\ capture[e].pc \in {"wrapped", "created"} /\ e[1] \notin overlapped
    BY <1>0 DEF At
  <2>2. e[1] # d[1]
    BY <1>0, <2>1 DEF Idle
  <2>3. QED
    BY <1>0, <2>1, <2>2 DEF CaptureInv, Wrapped
<1>3. Streamed'
  BY <1>0 DEF CaptureInv, Streamed, OfTheHeaders, At
<1>4. QED
  BY <1>1, <1>2, <1>3 DEF CaptureInv

\* The steps of a command that runs already.
LEMMA CommandStep ==
    ASSUME DriverType, CaptureInv, NEW d \in Dumps,
           WriteWrapper(d) \/ CreateOutput(d) \/ Spawn(d) \/ Finish(d) \/ Kill(d)
    PROVE  CaptureInv'
<1>0. /\ overlapped' = overlapped
      /\ \A e \in Dumps \ {d} : capture'[e] = capture[e] /\ dump'[e] = dump[e]
      /\ capture[d] # Idle
  BY DEF WriteWrapper, CreateOutput, Spawn, Finish, Kill, DriverType, Idle
<1>1. Alone'
  BY <1>0 DEF CaptureInv, Alone
<1>2. Wrapped'
  <2>1. CASE WriteWrapper(d)
    <3>1. /\ wrapper'[d[1]] = "whole"
          /\ \A e \in Dumps : e[1] # d[1] => wrapper'[e[1]] = wrapper[e[1]]
      BY <2>1 DEF WriteWrapper, DriverType, Dumps
    <3>2. QED
      BY <1>0, <3>1 DEF CaptureInv, Wrapped
  <2>2. CASE CreateOutput(d) \/ Spawn(d) \/ Finish(d) \/ Kill(d)
    <3>1. /\ wrapper' = wrapper
          /\ capture'[d].pc \in {"wrapped", "created"} => capture[d].pc \in {"wrapped", "created"}
      BY <2>2 DEF CreateOutput, Spawn, Finish, Kill, DriverType, At, Idle
    <3>2. QED
      BY <1>0, <3>1 DEF CaptureInv, Wrapped
  <2>3. QED
    BY <2>1, <2>2
<1>3. Streamed'
  <2> SUFFICES ASSUME d[1] \notin overlapped
               PROVE  /\ capture'[d].pc = "clang" => capture'[d].of # NoHeaders
                      /\ OfTheHeaders(dump'[d])
    BY <1>0 DEF CaptureInv, Streamed, OfTheHeaders
  <2>1. OfTheHeaders(dump[d])
    BY DEF CaptureInv, Streamed
  <2>2. CASE WriteWrapper(d)
    BY <2>1, <2>2 DEF WriteWrapper, DriverType, At
  <2>3. CASE CreateOutput(d)
    BY <2>3 DEF CreateOutput, DriverType, At, Dump, OfTheHeaders
  <2>4. CASE Spawn(d)
    <3>1. wrapper[d[1]] = "whole"
      BY <2>4 DEF Spawn, CaptureInv, Wrapped
    <3>2. QED
      BY <2>1, <2>4, <3>1 DEF Spawn, DriverType
  <2>5. CASE Finish(d)
    BY <2>5 DEF Finish, DriverType, Idle, Dump, OfTheHeaders, CaptureInv, Streamed
  <2>6. CASE Kill(d)
    BY <2>1, <2>6 DEF Kill, DriverType, Idle
  <2>7. QED
    BY <2>2, <2>3, <2>4, <2>5, <2>6
<1>4. QED
  BY <1>1, <1>2, <1>3 DEF CaptureInv

\* Overlaps are never forgotten, so what is said of the other cells stays true.
LEMMA CaptureStep ==
    TypeOK /\ CaptureInv /\ [Next]_vars => CaptureInv' /\ overlapped \subseteq overlapped'
<1> SUFFICES ASSUME TypeOK, CaptureInv, [Next]_vars
             PROVE  CaptureInv' /\ overlapped \subseteq overlapped'
  OBVIOUS
<1>0. DriverType
  BY TypeParts
<1>1. ASSUME UNCHANGED driverVars
      PROVE  CaptureInv' /\ overlapped \subseteq overlapped'
  BY <1>1 DEF driverVars, CaptureInv, Alone, Wrapped, Streamed
<1>2. CASE DriverStep
  <2>1. CASE Update
    BY <1>1, <2>1 DEF Update
  <2>2. ASSUME NEW d \in Dumps, CreateWrapper(d)
        PROVE  CaptureInv' /\ overlapped \subseteq overlapped'
    <3>1. CaptureInv'
      BY <1>0, <2>2, StartStep
    <3>2. overlapped \subseteq overlapped'
      BY <2>2 DEF CreateWrapper, Start
    <3>3. QED
      BY <3>1, <3>2
  <2>3. ASSUME NEW d \in Dumps,
               WriteWrapper(d) \/ CreateOutput(d) \/ Spawn(d) \/ Finish(d) \/ Kill(d)
        PROVE  CaptureInv' /\ overlapped \subseteq overlapped'
    <3>1. CaptureInv'
      BY <1>0, <2>3, CommandStep
    <3>2. overlapped' = overlapped
      BY <2>3 DEF WriteWrapper, CreateOutput, Spawn, Finish, Kill
    <3>3. QED
      BY <3>1, <3>2
  <2>4. QED
    BY <1>2, <2>1, <2>2, <2>3 DEF DriverStep
<1>3. CASE MergeStep
  BY <1>1, <1>3, Apart
<1>4. CASE UNCHANGED vars
  BY <1>1, <1>4 DEF vars, driverVars
<1>5. QED
  BY <1>2, <1>3, <1>4, Apart

-----------------------------------------------------------------------------
(* The merge.                                                              *)

LEMMA InitMerge == Init => MergeInv
  BY DEF Init, MergeInv, Sound, Accounted, Written, NoMerge, cells_of

\* What is read from a dump is sound at once, and stays so while other cells
\* overlap.
LEMMA SoundStays ==
    ASSUME NEW folded, Sound(folded), overlapped \subseteq overlapped'
    PROVE  \A r \in folded :
              /\ r.ast.text = "whole"
              /\ r.cell \notin overlapped' => OfTheHeaders(r.ast) /\ OfTheHeaders(r.layouts)
  BY DEF Sound

LEMMA ReadAstStep ==
    ASSUME TypeOK, CaptureInv, MergeInv, ReadAst
    PROVE  MergeInv'
<1>1. PICK c \in merge.todo :
          /\ first(c)
          /\ dump[<<c, "ast">>].text = "whole"
          /\ merge' = [merge EXCEPT !.pc = "measure",
                !.folded = @ \cup {[cell |-> c, ast |-> dump[<<c, "ast">>], layouts |-> Absent]}]
  BY DEF ReadAst
<1>2. overlapped' = overlapped /\ crate' = crate
  BY DEF ReadAst, driverVars
<1>3. /\ merge'.pc = "measure" /\ merge'.todo = merge.todo /\ merge'.specs = merge.specs
      /\ merge'.folded = merge.folded
            \cup {[cell |-> c, ast |-> dump[<<c, "ast">>], layouts |-> Absent]}
  BY <1>1 DEF TypeOK
<1>4. c \in Requested /\ <<c, "ast">> \in Dumps
  BY DEF TypeOK, Dumps, Mode
<1>5. Sound(merge.folded)'
  <2>1. c \notin overlapped => OfTheHeaders(dump[<<c, "ast">>])
    BY <1>4 DEF CaptureInv, Streamed
  <2>2. OfTheHeaders(Absent)
    BY DEF OfTheHeaders, Absent, Dump
  <2> DEFINE new == [cell |-> c, ast |-> dump[<<c, "ast">>], layouts |-> Absent]
  <2>3. /\ new.ast.text = "whole"
        /\ new.cell \notin overlapped => OfTheHeaders(new.ast) /\ OfTheHeaders(new.layouts)
    BY <1>1, <2>1, <2>2
  <2>4. merge'.folded = merge.folded \cup {new}
    BY <1>3
  <2> HIDE DEF new
  <2>5. Sound(merge.folded) /\ Sound({new})
    BY <2>3 DEF MergeInv, Sound
  <2>6. QED
    BY <1>2, <2>4, <2>5 DEF Sound
<1>6. Sound(crate.cells)'
  BY <1>2 DEF MergeInv, Sound
<1>7. Accounted'
  <2> DEFINE new == [cell |-> c, ast |-> dump[<<c, "ast">>], layouts |-> Absent]
  <2>0. merge'.folded = merge.folded \cup {new} /\ new.cell = c
    BY <1>3
  <2> HIDE DEF new
  <2>1. cells_of(merge.folded)' = cells_of(merge.folded) \cup {c}
    BY <2>0 DEF cells_of
  <2>2. \A e \in merge.todo : first(e) => e = c
    BY <1>1 DEF first, TypeOK, Requested
  <2>3. first(c)' /\ \A e : first(e)' <=> first(e)
    BY <1>1, <1>3 DEF first
  <2>4. QED
    BY <1>3, <2>1, <2>2, <2>3 DEF MergeInv, Accounted
<1>8. Written'
  BY <1>3 DEF Written
<1>9. QED
  BY <1>5, <1>6, <1>7, <1>8 DEF MergeInv

LEMMA ReadLayoutsStep ==
    ASSUME TypeOK, CaptureInv, MergeInv, ReadLayouts
    PROVE  MergeInv'
<1> DEFINE read(c) == IF c \in merge.measured THEN dump[<<c, "layouts">>] ELSE Absent
<1> DEFINE measured(c, r) == [r EXCEPT !.layouts = IF r.cell = c THEN read(c) ELSE @]
<1>1. PICK c \in merge.todo :
          /\ first(c)
          /\ merge' = [merge EXCEPT !.pc = "read", !.todo = @ \ {c},
                          !.folded = {measured(c, r) : r \in @}]
  BY DEF ReadLayouts
<1>2. overlapped' = overlapped /\ crate' = crate /\ merge.pc = "measure"
  BY DEF ReadLayouts, driverVars
<1>3. /\ merge'.pc = "read" /\ merge'.todo = merge.todo \ {c} /\ merge'.specs = merge.specs
      /\ merge'.folded = {measured(c, r) : r \in merge.folded}
  BY <1>1 DEF TypeOK
<1>4. c \in Requested /\ <<c, "layouts">> \in Dumps
  BY DEF TypeOK, Dumps, Mode
<1>5. \A r \in merge.folded :
          /\ measured(c, r).cell = r.cell /\ measured(c, r).ast = r.ast
          /\ measured(c, r).layouts = IF r.cell = c THEN read(c) ELSE r.layouts
  BY DEF TypeOK, Folded
<1> HIDE DEF measured
<1>6. Sound(merge.folded)'
  <2>1. c \notin overlapped => OfTheHeaders(read(c))
    BY <1>4 DEF CaptureInv, Streamed, OfTheHeaders, Absent, Dump
  <2>2. QED
    BY <1>2, <1>3, <1>5, <2>1 DEF MergeInv, Sound
<1>7. Sound(crate.cells)'
  BY <1>2 DEF MergeInv, Sound
<1>8. Accounted'
  <2>1. cells_of(merge'.folded) = cells_of(merge.folded)
    BY <1>3, <1>5 DEF cells_of
  <2>2. c \in cells_of(merge.folded)
    BY <1>1, <1>2 DEF MergeInv, Accounted
  <2>3. QED
    BY <1>3, <2>1, <2>2 DEF MergeInv, Accounted
<1>9. Written'
  BY <1>3 DEF Written
<1>10. QED
  BY <1>6, <1>7, <1>8, <1>9 DEF MergeInv

LEMMA MergeStepInv ==
    ASSUME TypeOK, CaptureInv, MergeInv, MergeStep
    PROVE  MergeInv'
<1>0. overlapped' = overlapped
  BY Apart DEF driverVars
<1>1. CASE List
  <2>1. /\ merge' = listing /\ crate' = crate
        /\ cells_of({}) = {}
    BY <1>1 DEF List, cells_of
  <2>2. QED
    BY <1>0, <2>1 DEF listing, MergeInv, Sound, Accounted, Written, cells_of
<1>2. CASE ReadAst
  BY <1>2, ReadAstStep
<1>3. CASE ReadLayouts
  BY <1>3, ReadLayoutsStep
<1>4. CASE Refuse \/ WriteFeatures \/ KillMerge
  <2>1. merge' = NoMerge /\ crate' = crate
    BY <1>4 DEF Refuse, WriteFeatures, KillMerge
  <2>2. QED
    BY <1>0, <2>1 DEF NoMerge, MergeInv, Sound, Accounted, Written, cells_of
<1>5. CASE CreateBindings \/ WriteBindings \/ CreateFeatures
  <2>1. /\ merge.todo = {}
        /\ merge'.folded = merge.folded /\ merge'.todo = {} /\ merge'.specs = merge.specs
    BY <1>5 DEF CreateBindings, WriteBindings, CreateFeatures, TypeOK, MergeInv, Accounted
  <2>2. Accounted' /\ Sound(merge.folded)'
    BY <1>0, <2>1 DEF MergeInv, Accounted, Sound, cells_of
  <2>3. CASE CreateBindings
    <3>1. crate'.cells = {} /\ merge'.pc = "write"
      BY <2>3 DEF CreateBindings, TypeOK
    <3>2. QED
      BY <2>2, <3>1 DEF MergeInv, Sound, Written
  <2>4. CASE WriteBindings
    <3>1. crate'.cells = merge.folded /\ crate'.text = "whole"
      BY <2>4 DEF WriteBindings
    <3>2. QED
      BY <1>0, <2>1, <2>2, <3>1 DEF MergeInv, Sound, Written
  <2>5. CASE CreateFeatures
    <3>1. crate' = crate /\ merge.pc = "features"
      BY <2>5 DEF CreateFeatures
    <3>2. QED
      BY <1>0, <2>1, <2>2, <3>1 DEF MergeInv, Sound, Written
  <2>6. QED
    BY <1>5, <2>3, <2>4, <2>5
<1>6. QED
  BY <1>1, <1>2, <1>3, <1>4, <1>5 DEF MergeStep

\* The merge's own steps apart, only the set of overlapped cells can change, and
\* it only grows.
LEMMA MergeInvStep ==
    TypeOK /\ CaptureInv /\ MergeInv /\ [Next]_vars => MergeInv'
<1> SUFFICES ASSUME TypeOK, CaptureInv, MergeInv, [Next]_vars PROVE MergeInv'
  OBVIOUS
<1>1. CASE MergeStep
  BY <1>1, MergeStepInv
<1>2. ASSUME UNCHANGED mergeVars PROVE MergeInv'
  <2>1. overlapped \subseteq overlapped'
    BY CaptureStep
  <2>2. QED
    BY <1>2, <2>1 DEF mergeVars, MergeInv, Sound, Accounted, Written, first, cells_of
<1>3. QED
  BY <1>1, <1>2, Apart DEF vars, mergeVars

\* A file that has been cut short is written again, or the merge that cut it
\* was killed.
LEMMA TableStep ==
    TypeOK /\ MergeInv /\ TableBesideBindings /\ [Next]_vars => TableBesideBindings'
<1> SUFFICES ASSUME TypeOK, MergeInv, TableBesideBindings, [Next]_vars
             PROVE  TableBesideBindings'
  OBVIOUS
<1>1. CASE List \/ ReadAst \/ ReadLayouts \/ Refuse
  <2>1. crate' = crate /\ features' = features /\ interrupted' = interrupted
        /\ merge.pc \notin {"write", "features", "table"}
    BY <1>1 DEF List, ReadAst, ReadLayouts, Refuse
  <2>2. QED
    BY <2>1 DEF TableBesideBindings
<1>2. CASE CreateBindings \/ WriteBindings \/ CreateFeatures
  <2>1. merge'.pc \in {"write", "features", "table"}
    BY <1>2 DEF CreateBindings, WriteBindings, CreateFeatures, TypeOK
  <2>2. QED
    BY <2>1 DEF TableBesideBindings
<1>3. CASE WriteFeatures
  <2>1. features' = "whole" /\ crate' = crate /\ merge.pc = "table"
    BY <1>3 DEF WriteFeatures
  <2>2. QED
    BY <2>1 DEF TableBesideBindings, MergeInv, Written
<1>4. CASE KillMerge
  BY <1>4 DEF KillMerge, TableBesideBindings
<1>5. CASE UNCHANGED mergeVars
  BY <1>5 DEF mergeVars, TableBesideBindings
<1>6. QED
  BY <1>1, <1>2, <1>3, <1>4, <1>5, Apart DEF MergeStep, vars, mergeVars

-----------------------------------------------------------------------------
(* The theorems.                                                           *)

\* A command of a cell without an overlap has its wrapper and its clang to itself,
\* and the merge keeps what it lists accounted for: the inductive invariant.
THEOREM Inductive == Spec => []IInv
<1>1. Init => IInv
  <2>1. Init => TableBesideBindings
    BY DEF Init, TableBesideBindings
  <2>2. QED
    BY <2>1, InitType, InitCapture, InitMerge DEF IInv
<1>2. IInv /\ [Next]_vars => IInv'
  BY TypeStep, CaptureStep, MergeInvStep, TableStep DEF IInv
<1>3. QED
  BY <1>1, <1>2, PTL DEF Spec

\* A merge never leaves out a cell it has listed, and never folds a dump that is
\* cut short, however captures and merges interleave and are killed.
THEOREM NoCellIsLeftOut == Spec => []CrateHasEveryListedCell
<1>1. IInv => CrateHasEveryListedCell
  BY DEF IInv, MergeInv, Sound, Accounted, Written, CrateHasEveryListedCell
<1>2. QED
  BY <1>1, Inductive, PTL

\* Outside the cells whose two commands overlapped, nothing is folded that clang
\* made from an empty wrapper, whatever was killed before.
THEOREM NoEmptyUnit == Spec => []UnitsAreOfTheHeaders
<1>1. IInv => UnitsAreOfTheHeaders
  BY DEF IInv, MergeInv, Sound, UnitsAreOfTheHeaders
<1>2. QED
  BY <1>1, Inductive, PTL

\* Bindings without their feature table are only left by a merge that was killed.
THEOREM TableAccompanies == Spec => []TableBesideBindings
<1>1. IInv => TableBesideBindings
  BY DEF IInv
<1>2. QED
  BY <1>1, Inductive, PTL
=============================================================================
