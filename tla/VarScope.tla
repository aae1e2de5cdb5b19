------------------------------ MODULE VarScope ------------------------------
(***************************************************************************)
(* Variables from the debug-entry tree to the reader's answers: the       *)
(* builder's address translation (cachebuilder/debuginfo.py addr2fo),    *)
(* the scope ranges a variable inherits from the entries around it        *)
(* (dwarftools.py iter_ranges), its translated location list and the      *)
(* optimized-out rule (cachebuilder/variables.py Variable), and the       *)
(* reader's get_expression, visible_at and lookup (cachereader/           *)
(* variables.py) over the stored rows.                                     *)
(*                                                                         *)
(* These are queries over data the build fixes, so they are operators:   *)
(*   secs   the section table, a sequence of [addr, size, offset, alloc]; *)
(*   dies   scope entries (CU, subprogram, lexical block): id ->           *)
(*          [parent, hasPcs, pcs], parent 0 for a CU, pcs the set of      *)
(*          <<low, high>> pairs of its low_pc/high_pc or range list;      *)
(*   vdies  variable entries in creation order: vid -> [parent, name,     *)
(*          external, loc], loc the sequence of its location-list entries *)
(*          [lo, hi, expr], lo = NoLow for a single location expression. *)
(***************************************************************************)
EXTENDS Integers, Sequences, FiniteSets

LOCAL INSTANCE SequencesExt

Invalid == -1       \* addr2fo raised ValueError
NoLow   == -1       \* a location expression valid everywhere (low is None)
None    == "None"
NoVar   == 0        \* lookup found nothing

\* Mutant: the end address of a section left out of it.
Addr2FoHalfOpen(secs, a) ==
    LET hits == {i \in DOMAIN secs : secs[i].alloc /\ secs[i].addr <= a
                                     /\ a < secs[i].addr + secs[i].size}
        i    == CHOOSE i \in hits : \A j \in hits : i <= j
    IN  IF hits = {} THEN Invalid ELSE secs[i].offset + (a - secs[i].addr)

\* addr2fo: the first allocated section, in table order, with
\* lo <= addr <= lo + size (the end address included).
Addr2Fo(secs, a) ==
    LET hits == {i \in DOMAIN secs : secs[i].alloc /\ secs[i].addr <= a
                                     /\ a <= secs[i].addr + secs[i].size}
        i    == CHOOSE i \in hits : \A j \in hits : i <= j
    IN  IF hits = {} THEN Invalid ELSE secs[i].offset + (a - secs[i].addr)

Covers(r, a) == r[1] <= a /\ a < r[2]

\* The file offset of the instruction at address a: its place in the
\* allocated section that holds it, the section's end excluded.
InstructionOffset(secs, a) ==
    LET hits == {s \in DOMAIN secs : secs[s].alloc /\ secs[s].addr <= a
                                     /\ a < secs[s].addr + secs[s].size}
    IN  IF hits = {} THEN Invalid
        ELSE LET s == CHOOSE s \in hits : TRUE IN secs[s].offset + (a - secs[s].addr)

PairBefore(p, q) == p[1] < q[1] \/ (p[1] = q[1] /\ p[2] < q[2])

\* Mutant: a gap of one address taken for ranges that meet.
MergeRangesLoose(S) ==
    FoldLeft(LAMBDA acc, r :
                IF acc # << >> /\ Last(acc)[2] + 1 >= r[1] /\ Last(acc)[2] <= r[1]
                THEN Append(Front(acc), <<Last(acc)[1], r[2]>>)
                ELSE Append(acc, r),
             << >>, SetToSortSeq(S, PairBefore))

\* merge_ranges: in sorted order, a range that starts where the last one
\* ended extends it.
MergeRanges(S) ==
    FoldLeft(LAMBDA acc, r :
                IF acc # << >> /\ Last(acc)[2] = r[1]
                THEN Append(Front(acc), <<Last(acc)[1], r[2]>>)
                ELSE Append(acc, r),
             << >>, SetToSortSeq(S, PairBefore))

\* iter_ranges of a variable entry: it has no pc attributes of its own, so
\* the ranges of the nearest enclosing entry that has them.
RECURSIVE ScopeOf(_, _)
ScopeOf(dies, d) ==
    IF d = 0 THEN << >>
    ELSE IF dies[d].hasPcs THEN MergeRanges(dies[d].pcs)
    ELSE ScopeOf(dies, dies[d].parent)

Translates(secs, lo, hi) == Addr2Fo(secs, lo) # Invalid /\ Addr2Fo(secs, hi) # Invalid

\* Mutant: the ranges of an optimized-out variable kept.
BuildVariableKeepsRanges(secs, dies, vd) ==
    LET scope  == ScopeOf(dies, vd.parent)
        kept   == SelectSeq(vd.loc, LAMBDA e : e.lo = NoLow \/ Translates(secs, e.lo, e.hi))
    IN  [name |-> vd.name, global |-> vd.external,
         ranges |-> {<<Addr2Fo(secs, scope[i][1]), Addr2Fo(secs, scope[i][2])>> :
                       i \in {j \in DOMAIN scope : Translates(secs, scope[j][1], scope[j][2])}},
         exprs |-> [i \in DOMAIN kept |->
                      IF kept[i].lo = NoLow THEN kept[i]
                      ELSE [lo |-> Addr2Fo(secs, kept[i].lo), hi |-> Addr2Fo(secs, kept[i].hi),
                            expr |-> kept[i].expr]]]

\* Variable.__init__: scope pairs whose ends both translate; location
\* entries translated, a single expression kept as it is, an entry that
\* fails to translate dropped; no expression left means optimized out,
\* and the ranges found are discarded.
BuildVariable(secs, dies, vd) ==
    LET scope  == ScopeOf(dies, vd.parent)
        ranges == {<<Addr2Fo(secs, scope[i][1]), Addr2Fo(secs, scope[i][2])>> :
                     i \in {j \in DOMAIN scope : Translates(secs, scope[j][1], scope[j][2])}}
        kept   == SelectSeq(vd.loc, LAMBDA e : e.lo = NoLow \/ Translates(secs, e.lo, e.hi))
        exprs  == [i \in DOMAIN kept |->
                     IF kept[i].lo = NoLow THEN kept[i]
                     ELSE [lo |-> Addr2Fo(secs, kept[i].lo), hi |-> Addr2Fo(secs, kept[i].hi),
                           expr |-> kept[i].expr]]
    IN  [name |-> vd.name, global |-> vd.external,
         ranges |-> IF exprs = << >> THEN {} ELSE ranges, exprs |-> exprs]

\* Variables.store: the variables, variables2ranges and
\* variables2expressions rows, by vid.
StoreVariables(secs, dies, vdies) ==
    [v \in DOMAIN vdies |-> BuildVariable(secs, dies, vdies[v])]

----------------------------------------------------------------------------
(* The reader, over the stored rows of one variable.                      *)

\* Variable.ranges runs its query and drops the rows: it is always None.
Ranges(var) == {}

VisibleAt(var, a) ==
    \/ var.global
    \/ Ranges(var) = {}
    \/ \E r \in Ranges(var) : Covers(r, a)

\* get_expression: None out of scope, else the first stored expression that
\* is valid everywhere or whose range holds the address.
GetExpression(var, a) ==
    LET i == SelectInSeq(var.exprs, LAMBDA e : e.lo = NoLow \/ Covers(<<e.lo, e.hi>>, a))
    IN  IF ~VisibleAt(var, a) \/ i = 0 THEN None ELSE var.exprs[i].expr

\* iter_locals: the locals with a variables2ranges row holding the address.
IterLocals(vars, a) ==
    {v \in DOMAIN vars : ~vars[v].global /\ \E r \in vars[v].ranges : Covers(r, a)}

\* Mutant: iter_variables yielding the globals before the locals.
LookupResultsGlobalsFirst(vars, a, n) ==
    LET locs == {v \in IterLocals(vars, a) : vars[v].name = n}
        glbs == {v \in DOMAIN vars : vars[v].global /\ vars[v].name = n}
    IN  IF glbs # {} THEN {CHOOSE g \in glbs : \A h \in glbs : g <= h}
        ELSE IF locs # {} THEN locs
        ELSE {NoVar}

\* lookup: the first visible local of that name, else the first global.
\* The rows come back in the order store wrote them, the order of a dict
\* keyed by entry offset, so any visible local of the name may come first.
LookupResults(vars, a, n) ==
    LET locs == {v \in IterLocals(vars, a) : vars[v].name = n}
        glbs == {v \in DOMAIN vars : vars[v].global /\ vars[v].name = n}
    IN  IF locs # {} THEN locs
        ELSE IF glbs # {} THEN {CHOOSE g \in glbs : \A h \in glbs : g <= h}
        ELSE {NoVar}

----------------------------------------------------------------------------
(* Functions (cachebuilder/functions.py, cachereader/function.py).  A     *)
(* subprogram entry is [lowpc, highForm, high, fb, params]: lowpc 0 when *)
(* absent or NULL, highForm "addr", "data" (a size) or "none", fb its     *)
(* frame-base location list, in the form of loc above, params the ids of  *)
(* its formal-parameter entries in order.  known is the set of parameter  *)
(* entries Variables.__init__ made a Variable of (offset2var): not the    *)
(* artificial ones, nor those Variable() raised on.                       *)

\* The high bound: an address, or a size added to the low one.
HighOf(fd) == IF fd.highForm = "data" THEN fd.lowpc + fd.high ELSE fd.high

\* The frame-base entries kept: a single expression as it is, an entry
\* whose ends translate translated, any other dropped with a warning.
FrameBase(secs, fd) ==
    LET kept == SelectSeq(fd.fb, LAMBDA e : e.lo = NoLow \/ Translates(secs, e.lo, e.hi))
    IN  [i \in DOMAIN kept |->
           IF kept[i].lo = NoLow THEN kept[i]
           ELSE [lo |-> Addr2Fo(secs, kept[i].lo), hi |-> Addr2Fo(secs, kept[i].hi),
                 expr |-> kept[i].expr]]

\* Mutant: a high bound in data form taken as an address.
AddFunctionHighAsAddr(secs, known, acc, k, fd) ==
    IF acc.err # "none" \/ fd.lowpc = 0 THEN acc
    ELSE IF fd.highForm = "none" THEN [acc EXCEPT !.err = "AttributeError"]
    ELSE IF ~(Range(fd.params) \subseteq known) THEN acc
    ELSE IF Addr2Fo(secs, fd.lowpc) = Invalid \/ Addr2Fo(secs, fd.high) = Invalid
         THEN [acc EXCEPT !.err = "ValueError"]
    ELSE [acc EXCEPT !.funcs = Append(@, [die |-> k, lo |-> Addr2Fo(secs, fd.lowpc),
                                          hi |-> Addr2Fo(secs, fd.high),
                                          exprs |-> FrameBase(secs, fd), params |-> fd.params])]

\* One step of iter_functions: a NULL low pc is skipped; a missing high pc
\* leaves high_form None, and high_form.startswith raises AttributeError,
\* which the except KeyError does not catch; a parameter without a
\* Variable makes get_by_DIE raise KeyError, which that except catches,
\* and the subprogram is skipped; a low or high bound addr2fo rejects
\* raises ValueError.  An AttributeError or ValueError ends the build.
AddFunction(secs, known, acc, k, fd) ==
    IF acc.err # "none" \/ fd.lowpc = 0 THEN acc
    ELSE IF fd.highForm = "none" THEN [acc EXCEPT !.err = "AttributeError"]
    ELSE IF ~(Range(fd.params) \subseteq known) THEN acc
    ELSE IF Addr2Fo(secs, fd.lowpc) = Invalid \/ Addr2Fo(secs, HighOf(fd)) = Invalid
         THEN [acc EXCEPT !.err = "ValueError"]
    ELSE [acc EXCEPT !.funcs = Append(@, [die |-> k, lo |-> Addr2Fo(secs, fd.lowpc),
                                          hi |-> Addr2Fo(secs, HighOf(fd)),
                                          exprs |-> FrameBase(secs, fd), params |-> fd.params])]

\* Functions.__init__ over the subprogram entries, and store: the
\* functions, params and framepointers rows, or the error that ended the
\* build.
BuildFunctions(secs, known, fdies) ==
    FoldLeft(LAMBDA acc, k : AddFunction(secs, known, acc, k, fdies[k]),
             [err |-> "none", funcs |-> << >>], [k \in DOMAIN fdies |-> k])

\* Function.get_expression: the first frame-base row valid everywhere or
\* holding the address; None without one.
FrameBaseAt(fn, a) ==
    LET i == SelectInSeq(fn.exprs, LAMBDA e : e.lo = NoLow \/ Covers(<<e.lo, e.hi>>, a))
    IN  IF i = 0 THEN None ELSE fn.exprs[i].expr

(* Framepointers[addr] (cachereader/framepointers.py) over the stored    *)
(* framepointers rows: first any row whose range holds the address, of   *)
(* whichever function; else the single expression (lo null) of a        *)
(* function whose bounds hold it; else KeyError.  query_db_one has no    *)
(* order, so each query gives the set of rows it may return.             *)

NoFrame == "KeyError"

\* A stored function holds file offset a: functions.lo <= a < functions.hi.
InFunction(fn, a) == fn.lo <= a /\ a < fn.hi

\* The framepointers table: every frame-base row with its function's id.
FpRows(funcs) ==
    UNION {{[func |-> i, lo |-> funcs[i].exprs[j].lo, hi |-> funcs[i].exprs[j].hi,
             expr |-> funcs[i].exprs[j].expr] : j \in DOMAIN funcs[i].exprs} : i \in DOMAIN funcs}

\* "where lo <= ? and ? < hi": a null lo never compares true.
ByRange(rows, a) == {r.expr : r \in {r \in rows : r.lo # NoLow /\ Covers(<<r.lo, r.hi>>, a)}}

\* Mutant: the join without "framepointers.lo is null".
ByFunctionAnyRow(funcs, rows, a) ==
    {r.expr : r \in {r \in rows : InFunction(funcs[r.func], a)}}

\* The join with functions on func = id, for a function holding a.
ByFunction(funcs, rows, a) ==
    {r.expr : r \in {r \in rows : r.lo = NoLow /\ InFunction(funcs[r.func], a)}}

\* Framepointers.__getitem__: the set of answers it may give at a.
Framepointers(funcs, a) ==
    LET rows == FpRows(funcs) IN
    IF ByRange(rows, a) # {} THEN ByRange(rows, a)
    ELSE IF ByFunction(funcs, rows, a) # {} THEN ByFunction(funcs, rows, a)
    ELSE {NoFrame}

----------------------------------------------------------------------------
(* What the answers must satisfy, for any inputs.                         *)

\* The spec's visibility (section 3) over the stored rows: a global
\* everywhere, a local inside one of its validity ranges.
InScope(var, a) == var.global \/ \E r \in var.ranges : Covers(r, a)

(***************************************************************************)
(* merge_ranges keeps the addresses of a range list: an address lies in  *)
(* a merged range exactly when it lies in one of the ranges the entry    *)
(* lists.                                                                  *)
(***************************************************************************)
MergeKeepsAddresses(S, addrs) ==
    LET m == MergeRanges(S) IN
    \A a \in addrs : (\E i \in DOMAIN m : Covers(m[i], a)) <=> (\E r \in S : Covers(r, a))

(***************************************************************************)
(* A variable the build found optimized out (no location entry that      *)
(* translates) is still stored, has no validity ranges, answers no       *)
(* expression at any address, and no lookup returns it (spec section 3). *)
(***************************************************************************)
OptimizedOutAnswersNone(vars, offs, names) ==
    \A v \in DOMAIN vars : vars[v].exprs = << >> =>
        /\ vars[v].ranges = {}
        /\ \A a \in offs : /\ GetExpression(vars[v], a) = None
                           /\ \A n \in names : v \notin LookupResults(vars, a, n)

(***************************************************************************)
(* lookup(addr, name) returns a variable of that name in scope at addr,  *)
(* a global only when no local of the name is in scope there, and        *)
(* nothing only when no variable of the name is in scope.                *)
(***************************************************************************)
LookupFindsVisible(vars, offs, names) ==
    \A a \in offs, n \in names : \A v \in LookupResults(vars, a, n) :
        IF v = NoVar
        THEN \A w \in DOMAIN vars : vars[w].name = n => ~InScope(vars[w], a)
        ELSE /\ vars[v].name = n /\ InScope(vars[v], a)
             /\ vars[v].global =>
                  \A w \in DOMAIN vars : (vars[w].name = n /\ ~vars[w].global)
                                            => ~InScope(vars[w], a)

(***************************************************************************)
(* An address of a loaded section (or a section's end, for an exclusive  *)
(* high) that a location-list entry covers, translated like the entry's  *)
(* ends, is answered with an expression wherever the variable is in      *)
(* scope: translation keeps every covered address inside the translated  *)
(* range, across the end of one section and the start of the next.       *)
(***************************************************************************)
ExpressionAtTranslatedAddress(secs, dies, vdies, addrs) ==
    LET vars == StoreVariables(secs, dies, vdies)
        Loaded(a) == \E i \in DOMAIN secs :
                        secs[i].alloc /\ a \in secs[i].addr .. secs[i].addr + secs[i].size
    IN
    \A v \in DOMAIN vdies, x \in addrs :
        LET fo == Addr2Fo(secs, x) IN
        (/\ Loaded(x) /\ InScope(vars[v], fo)
         /\ \E e \in {vdies[v].loc[i] : i \in DOMAIN vdies[v].loc} :
               e.lo # NoLow /\ Loaded(e.lo) /\ Loaded(e.hi) /\ Covers(<<e.lo, e.hi>>, x))
        => GetExpression(vars[v], fo) # None

(***************************************************************************)
(* get_expression answers for a local only inside its validity ranges:   *)
(* "absent ranges => visible everywhere" is for globals and for locals   *)
(* the build recorded no range for (spec section 3).                      *)
(***************************************************************************)
ExpressionOnlyInScope(vars, offs) ==
    \A v \in DOMAIN vars, a \in offs :
        (~vars[v].global /\ vars[v].ranges # {} /\ GetExpression(vars[v], a) # None)
            => \E r \in vars[v].ranges : Covers(r, a)

(***************************************************************************)
(* In a build that completes, every function stored (the subprograms    *)
(* with a low pc whose parameters all have a Variable; the others are    *)
(* skipped by the except KeyError) has bounds that hold the translation  *)
(* of every address of its body in a loaded section, and its frame base  *)
(* answers there whenever a frame-base entry covers the address.          *)
(***************************************************************************)
FrameBaseInsideFunction(secs, known, fdies, addrs) ==
    LET B == BuildFunctions(secs, known, fdies)
        Loaded(a) == \E i \in DOMAIN secs :
                        secs[i].alloc /\ a \in secs[i].addr .. secs[i].addr + secs[i].size
    IN  B.err = "none" =>
        \A i \in DOMAIN B.funcs, x \in addrs :
              LET fd == fdies[B.funcs[i].die]
                  fo == Addr2Fo(secs, x)
              IN  (Loaded(x) /\ fd.lowpc <= x /\ x < HighOf(fd)) =>
                    /\ B.funcs[i].lo <= fo /\ fo < B.funcs[i].hi
                    /\ (\E j \in DOMAIN fd.fb :
                          \/ fd.fb[j].lo = NoLow
                          \/ Loaded(fd.fb[j].lo) /\ Loaded(fd.fb[j].hi)
                             /\ Covers(<<fd.fb[j].lo, fd.fb[j].hi>>, x))
                        => FrameBaseAt(B.funcs[i], fo) # None

(***************************************************************************)
(* The global lookup Framepointers[a] agrees with the frame base of the  *)
(* function that holds a (Function.get_expression, KeyError for None):   *)
(* at an offset inside exactly one stored function, when every function's *)
(* frame-base list stays inside the function's own bounds.  The two       *)
(* paths meet at the translated row ends, the translated bounds and the   *)
(* "lo is null" fallback.                                                 *)
(***************************************************************************)
FramepointersAgreeWithFunction(secs, known, fdies, offs) ==
    LET B == BuildFunctions(secs, known, fdies) IN
    (/\ B.err = "none"
     /\ \A i \in DOMAIN B.funcs : \A j \in DOMAIN B.funcs[i].exprs :
           B.funcs[i].exprs[j].lo # NoLow =>
             B.funcs[i].lo <= B.funcs[i].exprs[j].lo /\ B.funcs[i].exprs[j].hi <= B.funcs[i].hi)
    => \A a \in offs, i \in DOMAIN B.funcs :
         (InFunction(B.funcs[i], a) /\ \A k \in DOMAIN B.funcs \ {i} : ~InFunction(B.funcs[k], a))
         => Framepointers(B.funcs, a) =
              {IF FrameBaseAt(B.funcs[i], a) = None THEN NoFrame ELSE FrameBaseAt(B.funcs[i], a)}

====
