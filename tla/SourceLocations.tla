--------------------------- MODULE SourceLocations ---------------------------
(***************************************************************************)
(* Source files and locations, from the build to the reader: the paths of *)
(* a compilation unit (cachebuilder/location.py iter_files), the file ids *)
(* and the deduplicated file-line-column registry (Locations), and, on    *)
(* the reader side, Locations[idx] and the short names of Files            *)
(* (cachereader/location.py, cachereader/files.py).                        *)
(*                                                                         *)
(* A path is [abs, comps]: whether it starts with "/", and its components *)
(* between slashes.  s.endswith("/" + t) for normalized paths is then      *)
(* "the last components of s are those of t, and s has one more, or is    *)
(* absolute".  A compilation unit is [name, hasCompDir, compDir, entries, *)
(* incdirs]: its DW_AT_name, DW_AT_comp_dir, the line program's file       *)
(* entries [name, dir] and include directories.                           *)
(***************************************************************************)
EXTENDS Integers, Sequences, FiniteSets

LOCAL INSTANCE SequencesExt

NoFileIdx == -1          \* DW_AT_decl_file absent
NoLoc     == -1          \* insert_DIE_flc returned None
Here      == [abs |-> FALSE, comps |-> << >>]     \* "."

Path(abs, comps) == [abs |-> abs, comps |-> comps]

\* os.path.join: an absolute second part replaces the first.
Join(a, b) == IF b.abs THEN b ELSE Path(a.abs, a.comps \o b.comps)

\* os.path.normpath: "." parts dropped, ".." removes the part
\* before it; at the root it is dropped, at the start of a relative path
\* kept; a relative path with nothing left is ".".
Normpath(p) ==
    LET cs == FoldLeft(LAMBDA acc, c :
                         IF c = "." THEN acc
                         ELSE IF c = ".." /\ acc # << >> /\ Last(acc) # ".." THEN Front(acc)
                         ELSE IF c = ".." /\ p.abs THEN acc
                         ELSE Append(acc, c),
                       << >>, p.comps)
    IN  Path(p.abs, IF cs = << >> /\ ~p.abs THEN <<".">> ELSE cs)

\* iter_files: the unit's own name, then each file entry, prefixed with
\* its include directory when it has one; all joined to the compilation
\* directory ("." without one) and normalized.
IterFiles(cu) ==
    LET raw  == <<cu.name>> \o
                [i \in DOMAIN cu.entries |->
                   IF cu.entries[i].dir # 0
                   THEN Join(cu.incdirs[cu.entries[i].dir], cu.entries[i].name)
                   ELSE cu.entries[i].name]
        base == IF cu.hasCompDir THEN cu.compDir ELSE Here
    IN  [i \in DOMAIN raw |-> Normpath(Join(base, raw[i]))]

\* Locations.__init__: cufiles, a list per unit, and a distinct id for
\* every distinct path (sorted(set(...)) enumerated; the order is abstract).
CuFiles(cus) == [u \in DOMAIN cus |-> IterFiles(cus[u])]

FileIds(cus) ==
    LET paths == UNION {ToSet(IterFiles(cus[u])) : u \in DOMAIN cus}
        order == SetToSeq(paths)
    IN  [p \in paths |-> CHOOSE i \in 0..(Len(order) - 1) : order[i + 1] = p]

----------------------------------------------------------------------------
(* insert_DIE_flc over the entries of the build, in order: its result for *)
(* each entry, and the registry locations: flc -> id, with id_gen.        *)

\* get_source_file and the (file id, line or 0, column or 0) key.
Flc(cus, d) ==
    <<FileIds(cus)[CuFiles(cus)[d.cu][d.file + 1]], d.line, d.col>>

\* Mutant: insert_flc without the lookup, a fresh id on every call.
InsertFlcAlways(reg, flc) ==
    [locs |-> (flc :> reg.next) @@ reg.locs, next |-> reg.next + 1, ret |-> reg.next]

\* insert_flc: the id already registered for flc, or the next id.
InsertFlc(reg, flc) ==
    IF flc \in DOMAIN reg.locs
    THEN [reg EXCEPT !.ret = reg.locs[flc]]
    ELSE [locs |-> (flc :> reg.next) @@ reg.locs, next |-> reg.next + 1, ret |-> reg.next]

InsertDIEFlc(cus, reg, d) ==
    IF d.file = NoFileIdx THEN [reg EXCEPT !.ret = NoLoc]
    ELSE InsertFlc(reg, Flc(cus, d))

EmptyRegistry == [locs |-> [f \in {} |-> 0], next |-> 0, ret |-> NoLoc]

\* The registry after the entries, from reg0, and the location id of each.
RegStep(acc, r) == [reg |-> r, ids |-> Append(acc.ids, r.ret)]

RegisterFrom(cus, reg0, dies) ==
    FoldLeft(LAMBDA acc, d : RegStep(acc, InsertDIEFlc(cus, acc.reg, d)),
             [reg |-> reg0, ids |-> << >>], dies)

RegisterAll(cus, dies) == RegisterFrom(cus, EmptyRegistry, dies)

\* Locations.store: the files rows (path, id) and locations rows
\* (id, file, line, col).
StoreLocations(cus, reg) ==
    [files |-> {<<p, FileIds(cus)[p]>> : p \in DOMAIN FileIds(cus)},
     locs  |-> {<<reg.locs[k], k[1], k[2], k[3]>> : k \in DOMAIN reg.locs}]

\* The reader's Locations[idx]: the first row of locations join files,
\* as (path, line, col); KeyError without one.
ReadLocation(db, idx) ==
    LET joined == {lf \in db.locs \X db.files : lf[1][1] = idx /\ lf[2][2] = lf[1][2]}
        rows   == {<<lf[2][1], lf[1][3], lf[1][4]>> : lf \in joined}
    IN  IF rows = {} THEN [ok |-> FALSE, val |-> "KeyError"]
        ELSE [ok |-> TRUE, val |-> CHOOSE r \in rows : TRUE]

----------------------------------------------------------------------------
(* cachereader/files.py: the short name of each source file and back.     *)

\* The last k components of p, as the relative path they spell.
Suffix(p, k) == SubSeq(p.comps, Len(p.comps) - k + 1, Len(p.comps))

\* s.endswith("/" + t): t's components end s, behind a slash.
EndsWith(s, t) ==
    /\ Len(s.comps) >= Len(t)
    /\ Suffix(s, Len(t)) = t
    /\ Len(s.comps) > Len(t) \/ s.abs

\* The slashes of p, from the right: one per component of an absolute
\* path, one fewer for a relative one.
Slashes(p) == IF p.abs THEN Len(p.comps) ELSE Len(p.comps) - 1

\* Mutant: the candidate returned with its leading slash.
UniqueEndKeepsSlash(files, p) ==
    LET Walk[k \in 1..(Slashes(p) + 1), conflicts \in SUBSET files] ==
          IF k > Slashes(p) THEN p
          ELSE LET left == {g \in conflicts : EndsWith(g, Suffix(p, k))}
               IN  IF left = {} THEN Path(TRUE, Suffix(p, k)) ELSE Walk[k + 1, left]
    IN  Walk[1, files \ {p}]

\* unique_end: move the candidate back one slash at a time, keeping the
\* other files that still end with it; with none left the candidate,
\* without its slash, is the short name; past the first slash, the path.
UniqueEnd(files, p) ==
    LET Walk[k \in 1..(Slashes(p) + 1), conflicts \in SUBSET files] ==
          IF k > Slashes(p) THEN p
          ELSE LET left == {g \in conflicts : EndsWith(g, Suffix(p, k))}
               IN  IF left = {} THEN Path(FALSE, Suffix(p, k)) ELSE Walk[k + 1, left]
    IN  Walk[1, files \ {p}]

IsTmp(p) == p.abs /\ Len(p.comps) >= 2 /\ p.comps[1] = "tmp"

\* Files.__init__ prefix: the common prefix of the files not under /tmp/,
\* cut after its last slash; "" when that slash is the root's.  For
\* absolute paths the cut prefix is the common leading directories.
CommonDirs(files) ==
    LET fs    == {f \in files : ~IsTmp(f)}
        Lead(n) == {SubSeq(f.comps, 1, n) : f \in fs}
        Common  == {n \in 0..Len((CHOOSE f \in fs : TRUE).comps) :
                      (\A f \in fs : Len(f.comps) > n) /\ Cardinality(Lead(n)) = 1}
    IN  IF fs = {} THEN << >>
        ELSE LET n == CHOOSE n \in Common : \A m \in Common : m <= n
             IN  SubSeq((CHOOSE f \in fs : TRUE).comps, 1, n)

\* simplify: the short name of a known file; else the path without the
\* prefix pre when it starts with it; else the path.
SimplifyUnder(files, p, pre) ==
    IF p \in files THEN UniqueEnd(files, p)
    ELSE IF pre # << >> /\ p.abs /\ Len(p.comps) > Len(pre) /\ SubSeq(p.comps, 1, Len(pre)) = pre
         THEN Path(FALSE, Suffix(p, Len(p.comps) - Len(pre)))
    ELSE p

Simplify(files, p) == SimplifyUnder(files, p, CommonDirs(files))

\* expand: a normalized absolute path must be a file; a relative one
\* must end exactly one file behind a slash.
ExpandNormal(files, norm) ==
    LET matches == {f \in files : EndsWith(f, norm.comps)}
        Err(e)  == [ok |-> FALSE, val |-> e]
    IN  IF norm.abs THEN IF norm \in files THEN [ok |-> TRUE, val |-> norm]
                         ELSE Err("Unknown source file")
        ELSE IF Cardinality(matches) = 1 THEN [ok |-> TRUE, val |-> CHOOSE f \in matches : TRUE]
        ELSE IF matches # {} THEN Err("Ambiguous source file")
        ELSE Err("No source file matches")

Expand(files, q) == ExpandNormal(files, Normpath(q))

----------------------------------------------------------------------------
(***************************************************************************)
(* Every declaration location the build registers reads back as the path *)
(* iter_files gave its file index in its unit, with its line and column; *)
(* two entries share a location id exactly when they name the same file, *)
(* line and column, across units.                                         *)
(***************************************************************************)
LocationRoundTrip(cus, dies) ==
    LET Has  == {i \in DOMAIN dies : dies[i].file # NoFileIdx}
        Trio(i) == <<CuFiles(cus)[dies[i].cu][dies[i].file + 1], dies[i].line, dies[i].col>>
    IN  \A R \in {RegisterAll(cus, dies)} : \A db \in {StoreLocations(cus, R.reg)} :
          /\ \A i \in Has : \A r \in {ReadLocation(db, R.ids[i])} : r.ok /\ r.val = Trio(i)
          /\ \A i, j \in Has : R.ids[i] = R.ids[j] <=> Trio(i) = Trio(j)
          /\ \A i \in DOMAIN dies \ Has : R.ids[i] = NoLoc

(***************************************************************************)
(* The short name the reader shows for a source file expands back to     *)
(* that file, and is its shortest suffix that no other file ends with.   *)
(***************************************************************************)
ShortNamesRoundTrip(files) ==
    \A f \in files :
        \A s \in {Simplify(files, f)} :
           /\ \A e \in {Expand(files, s)} : e.ok /\ e.val = f
           /\ \A k \in 1..Slashes(f) :
                 (\A g \in files \ {f} : ~EndsWith(g, Suffix(f, k))) => Len(s.comps) <= k

====
