------------------------------ MODULE AddrSpec ------------------------------
(***************************************************************************)
(* Names and location specs to addresses: the builder's symbol table      *)
(* (cachebuilder/symbols.py), and the reader's sym2addr and get_addr       *)
(* (cachereader/debuginfo.py), which parses a spec typed by the user and   *)
(* dispatches it to func2addr, sym2addr or line2addr.                      *)
(*                                                                         *)
(* A symbol name is <<lead, rest>>: its text is lead \o rest, and lead is  *)
(* the part the builder's startswith tests look at ("$x", "$a", "$t",      *)
(* "$d", "__dl_$x", ..., or any other beginning, "" for a plain name).    *)
(* A spec is a sequence of tokens [t, v]: the separators "*", ":" and "+", *)
(* a "path", a "word" (a name with a letter that is not a hex digit) or a  *)
(* "num", a numeral [hex, digits]: with a 0x prefix or not, and its digits *)
(* from the left, 10 to 15 for a to f, no leading zero.                    *)
(***************************************************************************)
EXTENDS LineTable

LOCAL INSTANCE SequencesExt

\* The symbol-name prefixes Symbols.__init__ drops: mapping symbols, and
\* the same with the linker's __dl_ in front.
MappingLeads == {"$x", "$a", "$t", "$d"}
DlMappingLeads == {"__dl_$x", "__dl_$a", "__dl_$t", "__dl_$d"}

Text(n) == n[1] \o n[2]

\* Symbols.__init__ and store: the symbols of every symbol-table section in
\* order, mapping symbols left out, numbered from 0 by id_gen.
BuildSymbols(symsects) ==
    LET kept == SelectSeq(FlattenSeq(symsects),
                          LAMBDA s : s.name[1] \notin MappingLeads \cup DlMappingLeads)
    IN  {[id |-> i - 1, name |-> Text(kept[i].name), value |-> kept[i].value,
          type |-> kept[i].type] : i \in DOMAIN kept}

\* Mutant: the symbol type asked for not used in the query.
Sym2AddrAnyType(symrows, name, type) ==
    AddrVerdict({s.value : s \in {t \in symrows : t.name = name}},
                "multiple symbols with name", "no such symbol")

\* sym2addr: the set of values of the symbols of that name, and that type
\* when one is given; one is the answer, more are ambiguous, none fails.
Sym2Addr(symrows, name, type) ==
    AddrVerdict({s.value : s \in {t \in symrows : t.name = name /\ (type = None \/ t.type = type)}},
                "multiple symbols with name", "no such symbol")

\* int(s, base) for base 10, 16 and 0 (0: 16 after "0x", else 10): one
\* numeral whose digits are digits of the base, "0x" only where the base
\* takes it; anything else is a ValueError.
IntOf(toks, base) ==
    LET n == toks[1].v
        b == IF base = 0 THEN (IF n.hex THEN 16 ELSE 10) ELSE base
    IN  IF /\ Len(toks) = 1 /\ toks[1].t = "num"
           /\ n.hex => b = 16
           /\ \A i \in DOMAIN n.digits : n.digits[i] < b
        THEN Ok(FoldLeft(LAMBDA acc, d : acc * b + d, 0, n.digits))
        ELSE Fail("ValueError")

\* The last index of a separator in the spec (rfind), 0 without one.
LastSep(spec, sep) ==
    LET is == {i \in DOMAIN spec : spec[i].t = sep}
    IN  IF is = {} THEN 0 ELSE CHOOSE i \in is : \A j \in is : j <= i

\* The text of a part of the spec as a name: a word is itself; any other
\* text ("f+4", "", a numeral) is no function's or symbol's name here.
NameOf(toks) == IF Len(toks) = 1 /\ toks[1].t = "word" THEN toks[1].v ELSE "<not a name>"

\* The part before the colon: "" is falsy for func2addr, like None, and
\* is the path "" for line2addr.
FuncFile(toks) == IF toks = << >> THEN NoPath ELSE toks[1].v
LineFile(toks) == IF toks = << >> THEN Path(FALSE, << >>) ELSE toks[1].v

\* A function's address and the offset after it: the offset's ValueError
\* first (it is parsed before the lookup), then the lookup's error.
WithOffset(off, r) == IF ~off.ok THEN off ELSE IF ~r.ok THEN r ELSE Ok(r.val + off.val)

\* get_addr: "*addr" is the number (base 0); without a colon the spec is a
\* function name, with a hex offset after the last "+", looked up as a
\* function, or as an STT_FUNC symbol with use_symbols; after the last
\* colon, a decimal line number is a line2addr of the part before it, and
\* anything else a function name in that file, with no offset.
GetAddr(files, db, rows, frows, symrows, spec, useSymbols) ==
    LET ci   == LastSep(spec, ":")
        pi   == LastSep(spec, "+")
        func == NameOf(IF pi = 0 THEN spec ELSE SubSeq(spec, 1, pi - 1))
        file == SubSeq(spec, 1, ci - 1)
        lf   == SubSeq(spec, ci + 1, Len(spec))
    IN  IF spec[1].t = "*" THEN IntOf(Tail(spec), 0)
        ELSE IF ci = 0
        THEN WithOffset(IF pi = 0 THEN Ok(0) ELSE IntOf(SubSeq(spec, pi + 1, Len(spec)), 16),
                        IF useSymbols THEN Sym2Addr(symrows, func, "STT_FUNC")
                        ELSE Func2Addr(files, db, frows, NoPath, func))
        ELSE IF IntOf(lf, 10).ok THEN Line2Addr(files, db, rows, LineFile(file), IntOf(lf, 10).val)
        ELSE Func2Addr(files, db, frows, FuncFile(file), NameOf(lf))

----------------------------------------------------------------------------
\* The candidates a name has: the values of the STT_FUNC symbols with that
\* text that are not mapping symbols, or the low bounds of the functions.
SymCands(symsects, name) ==
    LET all == FlattenSeq(symsects) IN
    {all[i].value : i \in {j \in DOMAIN all :
        /\ Text(all[j].name) = name /\ all[j].type = "STT_FUNC"
        /\ all[j].name[1] \notin MappingLeads \cup DlMappingLeads}}

FuncCands(frows, name) == {g.lo : g \in {h \in frows : h.name = name}}

\* Location row id loc lies in the file the user's path q names, given
\* normalized as norm.
InFileNorm(l, norm) ==
    l.ok /\ IF norm.abs THEN l.val[1] = norm ELSE EndsWith(l.val[1], norm.comps)

InFileOf(db, loc, q) == InFileNorm(ReadLocation(db, loc), Normpath(q))

\* One case: r is get_addr's answer, C the candidates of the name, F its
\* functions in the file the case names.
CaseHolds(c, r, C, F, db, rows) ==
    CASE c.form = "addr" -> r = Ok(c.addr)
      [] c.form = "name" ->
            /\ r.ok <=> Cardinality(C) = 1
            /\ r.ok => r.val = (CHOOSE a \in C : TRUE) + c.off
            /\ Cardinality(C) > 1 => r.cands = C
      [] c.form = "line" ->
            r.ok => \E j \in DOMAIN rows :
                       /\ rows[j][1] = r.val
                       /\ InFileOf(db, rows[j][2], c.path)
                       /\ ReadLocation(db, rows[j][2]).val[2] = c.line
      [] c.form = "filefunc" ->
            /\ r.ok => r.val \in F
            /\ Cardinality(F) > 1 => ~r.ok
      [] c.form = "bad" -> ~r.ok

(***************************************************************************)
(* get_addr answers what the spec's query surface promises (section 6):   *)
(* "*addr" is that address; "name" and "name+off" give the one address of *)
(* the name, as a function or an STT_FUNC symbol, plus the offset, fail   *)
(* when there is none and list every candidate when there are several;    *)
(* "file:line" and "file:name" give only an address of a statement row of *)
(* that line, or of a function of that name, declared in that file, and   *)
(* fail when a name has several there (no file: anywhere).  Each case is *)
(* [spec, form, name, off, path, line, addr]; form "bad" must fail.       *)
(***************************************************************************)
GetAddrPerSpec(files, db, rows, frows, symsects, syms, cases) ==
    \A i \in DOMAIN cases, useSymbols \in BOOLEAN :
        CaseHolds(cases[i],
                  GetAddr(files, db, rows, frows, syms, cases[i].spec, useSymbols),
                  IF useSymbols THEN SymCands(symsects, cases[i].name)
                  ELSE FuncCands(frows, cases[i].name),
                  {g.lo : g \in {h \in frows : /\ h.name = cases[i].name
                                               /\ \/ cases[i].path = NoPath
                                                  \/ InFileOf(db, h.loc, cases[i].path)}},
                  db, rows)

====
