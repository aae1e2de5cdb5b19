------------------------------ MODULE LineTable ------------------------------
(***************************************************************************)
(* The line table and the reader's queries by name and by line: the       *)
(* builder's Lines (cachebuilder/lines.py), which registers the location  *)
(* of every statement row before any entry's declaration location, and    *)
(* the reader's line2addr and func2addr (cachereader/debuginfo.py).       *)
(*                                                                         *)
(* progs: unit -> its line program, a sequence of [kind, stmt, file,      *)
(* line, col, address], kind "row", or "none" for an entry with no state, *)
(* or "end" for an end_sequence.                                           *)
(***************************************************************************)
EXTENDS VarScope, SourceLocations

LOCAL INSTANCE SequencesExt

NoPath == [abs |-> FALSE, comps |-> <<"<None>">>]    \* filename None

\* Lines.__init__ and store: for each statement row of each unit, the
\* address translated (None, here Invalid, when addr2fo fails) and the id
\* insert_flc gives its file, line and column; the registry goes on.
LineStep(secs, acc, e, r) ==
    [reg |-> r, rows |-> Append(acc.rows, <<Addr2Fo(secs, e.address), r.ret>>)]

BuildLines(secs, cus, progs) ==
    LET entries == FlattenSeq([u \in DOMAIN progs |->
                                 [i \in DOMAIN progs[u] |-> <<u, progs[u][i]>>]])
    IN  FoldLeft(LAMBDA acc, ue :
                    LET e    == ue[2]
                        path == CuFiles(cus)[ue[1]][e.file + 1]
                    IN  IF e.kind # "row" \/ ~e.stmt THEN acc
                        ELSE LineStep(secs, acc, e,
                                      InsertFlc(acc.reg, <<FileIds(cus)[path], e.line, e.col>>)),
                 [reg |-> EmptyRegistry, rows |-> << >>], entries)

\* The lines rows of a line of a file: locations joined on loc.
RowsAt(db, rows, fid, line) ==
    SelectSeq(rows, LAMBDA r : \E l \in db.locs : l[1] = r[2] /\ l[2] = fid /\ l[3] = line)

FileId(db, path) == CHOOSE i \in {f[2] : f \in {g \in db.files : g[1] = path}} : TRUE

\* A query's result: its value, or its error and, for an ambiguity, the
\* addresses the message lists.
Ok(v)           == [ok |-> TRUE, val |-> v, cands |-> {}]
Fail(e)         == [ok |-> FALSE, val |-> e, cands |-> {}]
Ambiguous(e, S) == [ok |-> FALSE, val |-> e, cands |-> S]

\* The verdict on the set of addresses a name has: one is the answer, more
\* are ambiguous (listing them), none is the error none.
AddrVerdict(ret, amb, none) ==
    IF Cardinality(ret) = 1 THEN Ok(CHOOSE a \in ret : TRUE)
    ELSE IF ret # {} THEN Ambiguous(amb, ret)
    ELSE Fail(none)

\* Mutant: the first row of the line returned, however many there are.
LineVerdictFirst(ret) ==
    IF Len(ret) >= 1 THEN Ok(ret[1][1]) ELSE Fail("location invalid or not traceable")

\* The verdict on the rows of a line, a list: one row gives its address,
\* more give "ambiguous", none "invalid or not traceable".
LineVerdict(ret) ==
    IF Len(ret) = 1 THEN Ok(ret[1][1])
    ELSE IF ret # << >> THEN Fail("location ambiguous")
    ELSE Fail("location invalid or not traceable")

\* line2addr: expand the path, then the rows of that line of that file.
LineIn(db, rows, e, line) ==
    IF ~e.ok THEN Fail(e.val) ELSE LineVerdict(RowsAt(db, rows, FileId(db, e.val), line))

Line2Addr(files, db, rows, q, line) == LineIn(db, rows, Expand(files, q), line)

\* Mutant: the file of a qualified name expanded and then not used.
FuncInAnyFile(db, frows, e, q, fn) ==
    IF ~e.ok THEN Fail(e.val)
    ELSE AddrVerdict({f.lo : f \in {g \in frows : g.name = fn}},
                     "ambiguous function name", "no such function")

\* func2addr, once the file is expanded: the set of low bounds of the
\* functions of that name, declared in that file when one is given.
FuncIn(db, frows, e, q, fn) ==
    IF ~e.ok THEN Fail(e.val)
    ELSE AddrVerdict({f.lo : f \in {g \in frows :
                        /\ g.name = fn
                        /\ q = NoPath \/ \E l \in db.locs : l[1] = g.loc /\ l[2] = FileId(db, e.val)}},
                     "ambiguous function name", "no such function")

\* func2addr: a filename is expanded first, None is no file.
Func2Addr(files, db, frows, q, fn) ==
    FuncIn(db, frows, IF q = NoPath THEN [ok |-> TRUE, val |-> NoPath] ELSE Expand(files, q), q, fn)

----------------------------------------------------------------------------
\* The statement rows of the line programs, over every unit, that name
\* line l of file p, as <<unit, index>>: what line2addr is asked about.
StmtRows(cus, progs, p, l) ==
    {x \in UNION {{<<u, i>> : i \in DOMAIN progs[u]} : u \in DOMAIN progs} :
        LET e == progs[x[1]][x[2]] IN
        /\ e.kind = "row" /\ e.stmt /\ e.line = l
        /\ CuFiles(cus)[x[1]][e.file + 1] = p}

\* The file offsets those rows are at (Invalid where addr2fo failed).
StmtOffsets(secs, progs, S) == {Addr2Fo(secs, progs[x[1]][x[2]].address) : x \in S}

\* The functions named fn whose declaration, read back, is in file p.
DeclaredIn(db, frows, fn, p) ==
    {g.lo : g \in {h \in frows : h.name = fn /\ LET l == ReadLocation(db, h.loc) IN l.ok /\ l.val[1] = p}}

FuncAnswerPerSpec(r, e, addrs) ==
    IF ~e.ok THEN ~r.ok
    ELSE /\ Cardinality(addrs) = 1 => r = Ok(CHOOSE a \in addrs : TRUE)
         /\ Cardinality(addrs) > 1 => ~r.ok /\ r.cands = addrs
         /\ addrs = {} => ~r.ok

(***************************************************************************)
(* line2addr, through the whole build, answers from the line programs:   *)
(* Lines.__init__'s statement rows, their files resolved per unit and    *)
(* their locations shared through insert_flc, stored, then joined with   *)
(* locations by line and by the expanded file's id.  A line with one     *)
(* statement row in all units gives that row's offset (None when addr2fo *)
(* failed); with several, "location ambiguous"; with none, "invalid".    *)
(***************************************************************************)
LineAnswers(secs, cus, progs, files, db, rows, queries, lines) ==
    \A q \in queries, l \in lines : \A e \in {Expand(files, q)} :
        LET r == Line2Addr(files, db, rows, q, l)
            S == IF e.ok THEN StmtRows(cus, progs, e.val, l) ELSE {}
        IN  CASE ~e.ok                -> r = Fail(e.val)
              [] Cardinality(S) = 1   -> r = Ok(CHOOSE o \in StmtOffsets(secs, progs, S) : TRUE)
              [] Cardinality(S) > 1   -> r = Fail("location ambiguous")
              [] OTHER                -> r = Fail("location invalid or not traceable")

(***************************************************************************)
(* The spec's query surface and errors (sections 5 and 6): a source line *)
(* maps to an address, a line at more than one address is ambiguous, and *)
(* a line with no mapping fails (UnknownLocation).  The addresses of a    *)
(* line are the distinct offsets its statement rows translate to.         *)
(***************************************************************************)
LineToAddr(secs, cus, progs, files, db, rows, queries, lines) ==
    \A q \in queries, l \in lines : \A e \in {Expand(files, q)} : e.ok =>
        LET r     == Line2Addr(files, db, rows, q, l)
            addrs == StmtOffsets(secs, progs, StmtRows(cus, progs, e.val, l)) \ {Invalid}
        IN  /\ Cardinality(addrs) = 1 => r = Ok(CHOOSE a \in addrs : TRUE)
            /\ Cardinality(addrs) # 1 => ~r.ok

(***************************************************************************)
(* Spec section 8, ambiguity: a plain function name that two registered  *)
(* functions share at different addresses fails, listing both addresses; *)
(* qualified by a file that declares only one of them, it gives that one; *)
(* a name with one address gives it, and one with none fails.  The       *)
(* candidates are the functions whose declaration location, read back,   *)
(* lies in the expanded file.                                             *)
(***************************************************************************)
FuncToAddrPerSpec(files, db, frows, queries, names) ==
    \A q \in queries, fn \in names :
        IF q = NoPath
        THEN FuncAnswerPerSpec(Func2Addr(files, db, frows, q, fn), [ok |-> TRUE],
                               {g.lo : g \in {h \in frows : h.name = fn}})
        ELSE \A e \in {Expand(files, q)} :
                FuncAnswerPerSpec(Func2Addr(files, db, frows, q, fn), e,
                                  IF e.ok THEN DeclaredIn(db, frows, fn, e.val) ELSE {})

====
