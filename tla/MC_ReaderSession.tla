-------------------------- MODULE MC_ReaderSession --------------------------
(***************************************************************************)
(* Three builds of the binary whose mapping symbols move: the first kind  *)
(* changes, a symbol is added above, one at address 0 appears.  Addresses *)
(* 0..3 lie before, on, between and past the rows.                        *)
(***************************************************************************)
EXTENDS ReaderSession, AddrSpec, CComments, CallFrame, InsnBuild

SE == INSTANCE SequencesExt

MCAddrs == 0..3

MCInsnTable ==
    1 :> {<<1, "arm">>} @@
    2 :> {<<1, "thumb">>, <<3, "arm">>} @@
    3 :> {<<0, "arm64">>, <<2, "arm">>}

----------------------------------------------------------------------------
(***************************************************************************)
(* The variables of the DebugInfo a session loads.  The section table     *)
(* has a non-allocated section over every address first, then .text at   *)
(* 0..4 and .data at 4..8, adjacent in memory with a gap in the file:     *)
(* addresses 0..4 map to 16..20, 5..8 to 25..28, 9 and 10 to nothing.     *)
(* A CU over 0..8 holds a global g and a function over 1..7, which holds  *)
(* a local x and a block holding a local y named x or g.  The block has  *)
(* no pcs, one range, two ranges meeting at the section boundary, or a   *)
(* range past the sections; x and y each take every location form:       *)
(* none, a single expression, one entry, three entries meeting at 5 and  *)
(* 8 of which the last does not translate, one that does not translate.  *)
(***************************************************************************)
MCSecs == << [addr |-> 0, size |-> 30, offset |-> 0,  alloc |-> FALSE],
             [addr |-> 0, size |-> 4,  offset |-> 16, alloc |-> TRUE],
             [addr |-> 4, size |-> 4,  offset |-> 24, alloc |-> TRUE] >>

BlockForms ==
    {[hasPcs |-> FALSE, pcs |-> {}],
     [hasPcs |-> TRUE,  pcs |-> {<<2, 4>>}],
     [hasPcs |-> TRUE,  pcs |-> {<<2, 4>>, <<4, 6>>}],
     [hasPcs |-> TRUE,  pcs |-> {<<2, 3>>, <<5, 9>>}]}

Entry(lo, hi, e) == [lo |-> lo, hi |-> hi, expr |-> e]

LocForms ==
    {<< >>, <<Entry(NoLow, NoLow, "e1")>>, <<Entry(2, 4, "e1")>>,
     <<Entry(1, 5, "e1"), Entry(5, 8, "e2"), Entry(8, 10, "e3")>>, <<Entry(9, 10, "e1")>>}

VarInputs == [blk : BlockForms, xloc : LocForms, yloc : LocForms, yname : {"x", "g"}]

MCDies(c) ==
    <<[parent |-> 0, hasPcs |-> TRUE, pcs |-> {<<0, 8>>}],
      [parent |-> 1, hasPcs |-> TRUE, pcs |-> {<<1, 7>>}],
      [parent |-> 2] @@ c.blk>>

MCVdies(c) ==
    <<[parent |-> 1, name |-> "g", external |-> TRUE,  loc |-> <<Entry(NoLow, NoLow, "e0")>>],
      [parent |-> 2, name |-> "x", external |-> FALSE, loc |-> c.xloc],
      [parent |-> 3, name |-> c.yname, external |-> FALSE, loc |-> c.yloc]>>

MCVars(c) == StoreVariables(MCSecs, MCDies(c), MCVdies(c))

VarAddrs == 0..10
VarOffs  == 14..30
VarNames == {"x", "g"}

\* Range lists, sorted or not, meeting, overlapping and apart.
MergeInputs ==
    {b.pcs : b \in BlockForms} \cup
    {{<<3, 5>>, <<1, 3>>, <<6, 7>>}, {<<1, 4>>, <<2, 3>>}, {<<1, 2>>, <<2, 3>>, <<3, 4>>}}

\* Subprograms: one over 1..7 with its high pc as a size, one over 5..8
\* ending at the end of .data, one with a NULL low pc; their frame bases
\* take every location form; the first has a parameter with a Variable.
\* In others the first subprogram is skipped for a parameter without
\* one.  Two builds end early: a subprogram without a high pc, and one
\* outside every section.
F(lo, form, hi, fb) == [lowpc |-> lo, highForm |-> form, high |-> hi, fb |-> fb, params |-> << >>]

\* A subprogram with formal parameters: 1 has a Variable, 2 (artificial,
\* or one Variable() rejected) has none.
FP(lo, form, hi, fb, ps) == [F(lo, form, hi, fb) EXCEPT !.params = ps]
KnownParams == {1}

FuncInputs ==
    {<<FP(1, "data", 6, fb1, <<1>>), F(5, "addr", 8, fb2), F(0, "addr", 3, << >>)>> :
        fb1 \in LocForms, fb2 \in LocForms} \cup
    {<<FP(1, "data", 6, fb, <<1, 2>>), FP(5, "addr", 8, fb, <<1>>)>> : fb \in LocForms} \cup
    {<<F(1, "data", 6, << >>), F(2, "none", 0, << >>)>>, <<F(9, "addr", 10, << >>)>>}

\* The session before anything has happened; the checks below are of the
\* build's inputs alone and are made there once.
AtStart == SInit

\* merge_ranges keeps the addresses of every range list.
VarMergeKeepsAddresses ==
    AtStart => \A S \in MergeInputs : MergeKeepsAddresses(S, VarAddrs)

\* An optimized-out variable answers no expression and is never looked up.
VarOptimizedOutAnswersNone ==
    AtStart => \A c \in VarInputs : OptimizedOutAnswersNone(MCVars(c), VarOffs, VarNames)

\* lookup returns a variable in scope, locals before globals.
VarLookupFindsVisible ==
    AtStart => \A c \in VarInputs : LookupFindsVisible(MCVars(c), VarOffs, VarNames)

\* Every covered address, translated, is answered where in scope.
VarExpressionAtTranslatedAddress ==
    AtStart => \A c \in VarInputs :
        ExpressionAtTranslatedAddress(MCSecs, MCDies(c), MCVdies(c), VarAddrs)

\* get_expression answers for a local only inside its validity ranges.
VarExpressionOnlyInScope ==
    AtStart => \A c \in VarInputs : ExpressionOnlyInScope(MCVars(c), VarOffs)

----------------------------------------------------------------------------
(***************************************************************************)
(* The source files of three units.  The first, in /src, names its       *)
(* headers through an absolute and a relative include directory and a    *)
(* file through "..".  The second, in /lib, names "./x.c", a header by   *)
(* absolute path and main.c, so two of its paths equal the first unit's  *)
(* and one differs only in directory.  The third has no compilation      *)
(* directory.                                                              *)
(***************************************************************************)
Abs(c) == Path(TRUE, c)
Rel(c) == Path(FALSE, c)
FE(n, d) == [name |-> n, dir |-> d]

MCCus ==
    <<[name |-> Rel(<<"main.c">>), hasCompDir |-> TRUE, compDir |-> Abs(<<"src">>),
       entries |-> <<FE(Rel(<<"x.h">>), 1), FE(Rel(<<"util.h">>), 2),
                     FE(Rel(<<"..", "lib", "x.c">>), 0)>>,
       incdirs |-> <<Abs(<<"usr", "include">>), Rel(<<"inc">>)>>],
      [name |-> Rel(<<".", "x.c">>), hasCompDir |-> TRUE, compDir |-> Abs(<<"lib">>),
       entries |-> <<FE(Abs(<<"usr", "include", "x.h">>), 0), FE(Rel(<<"main.c">>), 0)>>,
       incdirs |-> << >>],
      [name |-> Rel(<<"t.c">>), hasCompDir |-> FALSE, compDir |-> Here,
       entries |-> << >>, incdirs |-> << >>]>>

D(u, f, l) == [cu |-> u, file |-> f, line |-> l, col |-> 0]

\* Entries declared in the same header from two units, the same entry
\* twice, the same file reached from both units, one without a file.
MCDeclDies ==
    <<D(1, 1, 7), D(2, 1, 7), D(1, 0, 7), D(2, 2, 0), D(1, 1, 7), D(3, 0, 0),
      D(1, NoFileIdx, 0), D(1, 3, 7), D(2, 0, 7), D(1, 3, 0)>>

\* Files with equal names in sibling directories, in a parent directory,
\* at the root and under /tmp/.
FileCands ==
    {Abs(<<"src", "a", "x.c">>), Abs(<<"src", "b", "x.c">>), Abs(<<"src", "x.c">>),
     Abs(<<"usr", "include", "x.h">>), Abs(<<"tmp", "t.c">>), Abs(<<"x.c">>)}

\* The line programs of the three units.  Line 3 of x.h is a statement
\* at two addresses in the first unit and again at one of them in the
\* second; line 11 of main.c has two columns at one address; line 10 was
\* optimized out (address 9); a non-statement row, an end_sequence and an
\* entry without state are skipped.
Row(f, l, c, a)  == [kind |-> "row", stmt |-> TRUE, file |-> f, line |-> l, col |-> c, address |-> a]
NoStmt(f, l, a)  == [Row(f, l, 0, a) EXCEPT !.stmt = FALSE]
Other(k)         == [Row(0, 0, 0, 0) EXCEPT !.kind = k]

MCProgs ==
    <<<<Row(1, 3, 1, 2), Row(1, 3, 5, 3), NoStmt(1, 4, 3), Other("end"), Row(0, 10, 0, 9),
        Row(0, 11, 0, 4), Row(0, 11, 2, 4), Other("none")>>,
      <<Row(2, 5, 0, 6), Row(1, 3, 0, 2)>>,
      <<Row(0, 1, 0, 1)>>>>

\* The build: lines first, then the declaration locations of the entries.
MCLines    == BuildLines(MCSecs, MCCus, MCProgs)
MCRegister == RegisterFrom(MCCus, MCLines.reg, MCDeclDies)
MCDb       == StoreLocations(MCCus, MCRegister.reg)
MCRows     == MCLines.rows
MCFiles    == DOMAIN FileIds(MCCus)

\* Functions f in /src/main.c and /lib/main.c, g in /lib/x.c and again
\* at the same address without a location, h without one.
MCFuncRows ==
    {[name |-> "f", lo |-> 17, loc |-> MCRegister.ids[3]],
     [name |-> "f", lo |-> 25, loc |-> MCRegister.ids[4]],
     [name |-> "g", lo |-> 18, loc |-> MCRegister.ids[8]],
     [name |-> "g", lo |-> 18, loc |-> NoLoc],
     [name |-> "h", lo |-> 20, loc |-> NoLoc]}

\* Paths as a user types them: short, ambiguous, absolute, unknown.
MCQueries ==
    {Rel(<<"x.h">>), Rel(<<"main.c">>), Rel(<<"src", "main.c">>), Abs(<<"lib", "main.c">>),
     Rel(<<"x.c">>), Rel(<<"t.c">>), Abs(<<"lib", "y.c">>)}

\* Every declaration location reads back as registered, ids shared
\* exactly by equal locations.
SourceLocationRoundTrip ==
    AtStart => LocationRoundTrip(MCCus, MCDeclDies)

\* Every short file name expands back to its file and is shortest.
SourceShortNamesRoundTrip ==
    AtStart => \A S \in SUBSET FileCands : ShortNamesRoundTrip(S)

\* Every function body address, translated, lies in the stored bounds
\* and has a frame base where an entry covers it.
VarFrameBaseInsideFunction ==
    AtStart => \A fs \in FuncInputs : FrameBaseInsideFunction(MCSecs, KnownParams, fs, VarAddrs)

\* The lines asked about: rows at two addresses, in two units, at one
\* address in two columns, optimized out, not a statement, none.
LineNos == {3, 4, 5, 10, 11, 12}

\* line2addr answers each line as the units' statement rows say.
LineAnswersPerProgram ==
    AtStart => LineAnswers(MCSecs, MCCus, MCProgs, MCFiles, MCDb, MCRows, MCQueries, LineNos)

\* line2addr gives the line's one address, and fails for none or several.
LineToAddrPerSpec ==
    AtStart => LineToAddr(MCSecs, MCCus, MCProgs, MCFiles, MCDb, MCRows, MCQueries, LineNos)

\* func2addr resolves plain and file-qualified names as the spec says.
FuncToAddrResolves ==
    AtStart => FuncToAddrPerSpec(MCFiles, MCDb, MCFuncRows, MCQueries \cup {NoPath},
                                 {"f", "g", "h", "k"})

\* The symbol tables: mapping symbols, one with __dl_ in front, f in both
\* tables at one value, g also an object, k twice, __dl_h not h.
Sym(lead, rest, v, ty) == [name |-> <<lead, rest>>, value |-> v, type |-> ty]
MCSymSects ==
    <<<<Sym("", "f", 17, "STT_FUNC"), Sym("$a", "", 16, "STT_NOTYPE"),
        Sym("$d", ".x", 24, "STT_NOTYPE"), Sym("", "g", 18, "STT_FUNC"),
        Sym("", "g", 30, "STT_OBJECT"), Sym("__dl_$t", "", 20, "STT_NOTYPE"),
        Sym("__dl_", "h", 20, "STT_FUNC")>>,
      <<Sym("", "f", 17, "STT_FUNC"), Sym("", "k", 5, "STT_FUNC"), Sym("", "k", 9, "STT_FUNC")>>>>

MCSyms == BuildSymbols(MCSymSects)

Sep(s)       == [t |-> s, v |-> 0]
W(w)         == [t |-> "word", v |-> w]
Num(hex, ds) == [t |-> "num", v |-> [hex |-> hex, digits |-> ds]]
P(p)         == [t |-> "path", v |-> p]
Case(spec, form, name, off, path, line, addr) ==
    [spec |-> spec, form |-> form, name |-> name, off |-> off, path |-> path,
     line |-> line, addr |-> addr]

\* Specs of every form: addresses in decimal and hex, names with a hex
\* offset, a "0x" offset, a bad offset, lines and names in a file, an
\* empty file part, and an offset after a file-qualified name.
MCSpecs ==
    <<Case(<<Sep("*"), Num(FALSE, <<2, 9>>)>>, "addr", "", 0, NoPath, 0, 29),
      Case(<<Sep("*"), Num(TRUE, <<1, 13>>)>>, "addr", "", 0, NoPath, 0, 29),
      Case(<<W("f")>>, "name", "f", 0, NoPath, 0, 0),
      Case(<<W("g"), Sep("+"), Num(FALSE, <<1, 0>>)>>, "name", "g", 16, NoPath, 0, 0),
      Case(<<W("k")>>, "name", "k", 0, NoPath, 0, 0),
      Case(<<W("h"), Sep("+"), Num(TRUE, <<4>>)>>, "name", "h", 4, NoPath, 0, 0),
      Case(<<W("$a")>>, "name", "$a", 0, NoPath, 0, 0),
      Case(<<W("g"), Sep("+"), W("zz")>>, "bad", "g", 0, NoPath, 0, 0),
      Case(<<P(Rel(<<"src", "main.c">>)), Sep(":"), Num(FALSE, <<1, 1>>)>>, "line", "", 0, Rel(<<"src", "main.c">>), 11, 0),
      Case(<<P(Rel(<<"x.h">>)), Sep(":"), Num(FALSE, <<3>>)>>, "line", "", 0, Rel(<<"x.h">>), 3, 0),
      Case(<<P(Rel(<<"main.c">>)), Sep(":"), Num(FALSE, <<5>>)>>, "line", "", 0, Rel(<<"main.c">>), 5, 0),
      Case(<<P(Abs(<<"lib", "main.c">>)), Sep(":"), Num(FALSE, <<5>>)>>, "line", "", 0, Abs(<<"lib", "main.c">>), 5, 0),
      Case(<<Sep(":"), Num(FALSE, <<3>>)>>, "line", "", 0, Path(FALSE, << >>), 3, 0),
      Case(<<P(Abs(<<"lib", "main.c">>)), Sep(":"), W("f")>>, "filefunc", "f", 0, Abs(<<"lib", "main.c">>), 0, 0),
      Case(<<P(Rel(<<"x.c">>)), Sep(":"), W("g")>>, "filefunc", "g", 0, Rel(<<"x.c">>), 0, 0),
      Case(<<Sep(":"), W("f")>>, "filefunc", "f", 0, NoPath, 0, 0),
      Case(<<Sep(":"), W("g")>>, "filefunc", "g", 0, NoPath, 0, 0),
      Case(<<P(Rel(<<"x.c">>)), Sep(":"), W("g"), Sep("+"), Num(FALSE, <<4>>)>>, "filefunc", "g+4", 0, Rel(<<"x.c">>), 0, 0)>>

(***************************************************************************)
(* Functions side by side, each frame base its own expressions: one over *)
(* 1..3, one over 3..4 (its high a size, ending at .text's end), one     *)
(* over .data, and one with a NULL low pc; frame bases none, a single    *)
(* expression, a list with a gap and a list that covers the function.    *)
(***************************************************************************)
FpInputs ==
    {<<F(1, "addr", 3, fa), F(3, "data", 1, fb), F(4, "addr", 8, fc), F(0, "addr", 3, << >>)>> :
        fa \in {<< >>, <<Entry(NoLow, NoLow, "a")>>, <<Entry(1, 2, "a1")>>,
                <<Entry(1, 2, "a1"), Entry(2, 3, "a2")>>},
        fb \in {<< >>, <<Entry(NoLow, NoLow, "b")>>, <<Entry(3, 4, "b1")>>},
        fc \in {<<Entry(NoLow, NoLow, "c")>>, <<Entry(4, 6, "c1"), Entry(6, 8, "c2")>>,
                <<Entry(5, 8, "c1")>>}}

\* Framepointers[addr] gives the frame base of the function holding addr.
VarFramepointersAgree ==
    AtStart => \A fs \in FuncInputs \cup FpInputs :
                   FramepointersAgreeWithFunction(MCSecs, KnownParams, fs, VarOffs)

\* get_addr resolves every form of spec as the query surface promises.
GetAddrResolves ==
    AtStart => GetAddrPerSpec(MCFiles, MCDb, MCRows, MCFuncRows, MCSymSects, MCSyms, MCSpecs)

----------------------------------------------------------------------------
(***************************************************************************)
(* C.py's texts: every text of up to five bytes over the bytes its        *)
(* machine tells apart (slash, star, both quotes, backslash, newline) and *)
(* a space for every other byte and for trailing whitespace; and names of *)
(* up to three characters that reach the keywords "if" and "do", a digit  *)
(* and a character no identifier has.                                     *)
(***************************************************************************)
MCTexts == SE!SeqOf({"/", "*", "\"", "'", "\\", "\n", " "}, 5)
MCNames == SE!SeqOf({"i", "f", "d", "o", "_", "1", "-"}, 3)

\* strip_comments yields what its docstring promises (C.py:105).
CStripAgreesWithLexer == AtStart => StripAgreesWithLexer(MCTexts)

\* iter_lines numbers lines as the text has them (C.py:210).
CLineCountKept == AtStart => LineCountKept(MCTexts)

\* to_identifier gives exactly the identifiers is_identifier accepts (C.py:61-93).
CToIdentifierIsIdentifier == AtStart => ToIdentifierIsIdentifier(MCNames)

----------------------------------------------------------------------------
(***************************************************************************)
(* Call frame information over MCSecs (.text at 0..4, .data at 4..8, a    *)
(* gap in the file between them): a CIE, FDEs meeting at the section      *)
(* boundary and inside a section, FDEs ending exactly at a section's end, *)
(* one whose last row runs past .data, and one with no rows.  Rules: an   *)
(* expression, and register + offset with offsets either side of the     *)
(* one-byte SLEB limit.                                                    *)
(***************************************************************************)
R1 == [expr |-> <<156>>]
R2 == [reg |-> 13, offset |-> 8]
R3 == [reg |-> 13, offset |-> 64]

Fde(low, range, rows) == [isFde |-> TRUE, low |-> low, range |-> range, rows |-> rows]
CfRow(at, cfa)        == [pc |-> at, cfa |-> cfa]

CIE   == [isFde |-> FALSE, low |-> 0, range |-> 0, rows |-> << >>]
FText == Fde(0, 4, <<CfRow(0, R1), CfRow(1, R2), CfRow(3, R3)>>)
FLow  == Fde(0, 2, <<CfRow(0, R2), CfRow(1, R3)>>)
FHigh == Fde(2, 2, <<CfRow(2, R1)>>)
FData == Fde(4, 3, <<CfRow(4, R2), CfRow(6, R1)>>)
FEnd  == Fde(7, 1, <<CfRow(7, R3)>>)
FPast == Fde(7, 3, <<CfRow(7, R2), CfRow(8, R1), CfRow(9, R3)>>)
FNone == Fde(2, 2, << >>)

MCCfiInputs ==
    {<<CIE, FText, FData, FEnd>>, <<FLow, FHigh, CIE, FData, FPast>>,
     <<FNone, FData>>, <<FText, FPast>>}

\* Every instruction a well-formed FDE covers gets its row's CFA (cfa.py:8).
CfaOfEveryInstructionHolds == AtStart => CfaOfEveryInstruction(MCSecs, MCCfiInputs)

----------------------------------------------------------------------------
(***************************************************************************)
(* Mapping symbols over MCSecs: ARM and Thumb code in .text with a data   *)
(* region, a kind change exactly at the .text/.data boundary (address 4,  *)
(* which addr2fo maps to .text's end), the linker's __dl_ forms, one      *)
(* symbol in a second symbol table, a symbol at .data's end and one       *)
(* outside every section, non-mapping symbols among them, and a table     *)
(* without mapping symbols.                                                *)
(***************************************************************************)
MS(lead, v) == Sym(lead, "", v, "STT_NOTYPE")

MCMapSymSects ==
    {<<<<MS("$a", 0), Sym("", "f", 1, "STT_FUNC"), MS("$t", 2), MS("$d", 3), MS("$a", 4)>>>>,
     <<<<MS("__dl_$x", 1), MS("$d", 3), MS("__dl_$t", 6)>>, <<MS("$a", 5), MS("$d", 8)>>>>,
     <<<<MS("$t", 4), MS("$a", 9), Sym("", "g", 2, "STT_FUNC")>>>>,
     <<<<MS("$d", 0), MS("__dl_$a", 2), MS("$a", 2), MS("$x", 7)>>>>,
     <<<<Sym("", "f", 1, "STT_FUNC")>>>>}

\* get_kind answers the kind of the last mapping symbol (insnset.py).
InsnKindOfLastMappingSymbol ==
    AtStart => \A ss \in MCMapSymSects : KindOfLastMappingSymbol(MCSecs, ss, 0..9)

====
