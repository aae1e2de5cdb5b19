----------------------------- MODULE TypeDedup -----------------------------
(***************************************************************************)
(* Type extraction and deduplication of cachebuilder/datatype.py:          *)
(* DataTypes.__init__ makes a DataType of every type DIE, evaluating the   *)
(* offsets of its members, computes the structural hash (_hash_list and    *)
(* typehash) of every type and keeps one type per hash; DataTypes.store    *)
(* writes the kept types inner-first (__iter_compressed_types), then the   *)
(* members, enumerators and array dimensions, and commits.                 *)
(*                                                                         *)
(* A DIE is a record of the attributes the code reads: tag and encoding,   *)
(* name and byte size (as the strings str() gives, "None" when absent),    *)
(* the DIE its DW_AT_type refers to (NoDie when absent), its member,       *)
(* enumerator and subrange children.  A member's location is its          *)
(* attribute form and value.  typehash is sha256 of ':'.join of the        *)
(* tokens; the digest is taken to be collision-free, so the joined string  *)
(* itself stands for it.  DIE n is the n-th type DIE of the CU walk, so    *)
(* its tid, from the id_gen counter, is n - 1.                             *)
(***************************************************************************)
EXTENDS Integers, Sequences, FiniteSets, SequencesExt, BagsExt, TLC

LOCAL LEB == INSTANCE LEB128

CONSTANTS
    Dies,       \* the type DIEs, 1..N in CU walk order
    Tables      \* the DIE attribute tables the debug information may hold

NoDie == 0

VARIABLES
    g,          \* the DIE table
    phase,      \* "init", "store", "committed", or "failed" (an exception)
    offset,     \* Member.offset of each member of each DIE
    th,         \* DataType.typehash of each DIE
    rep,        \* self.typehash: hash -> the DataType kept for it
    todo,       \* kept types the outer loop of __iter_compressed_types has not reached
    stack,      \* iter_related frames, innermost last
    done,       \* iter_related's done set
    types,      \* rows of the types table (a bag: executemany may insert a row twice)
    orphan,     \* a types row was inserted before the row its inner refers to
    members,    \* rows of the members table
    enums,      \* rows of the enumerators table
    dims        \* rows of the array_dim table

vars == <<g, phase, offset, th, rep, todo, stack, done, types, orphan, members, enums, dims>>

Tid(d) == d - 1

\* DataType.__get_type_kind
EncodingKind == [signed |-> "int", unsigned |-> "uint", signed_char |-> "char",
                 unsigned_char |-> "uchar", float |-> "float", boolean |-> "bool"]
TagKind == [const_type |-> "const", pointer_type |-> "ptr", volatile_type |-> "volatile",
            typedef |-> "typedef", structure_type |-> "struct", union_type |-> "union",
            enumeration_type |-> "enum", array_type |-> "array"]
Kind(d) ==
    LET e == g[d] IN
    IF e.tag = "base_type"
    THEN IF e.enc \in DOMAIN EncodingKind THEN EncodingKind[e.enc] ELSE "unsupported"
    ELSE IF e.tag \in DOMAIN TagKind THEN TagKind[e.tag] ELSE "unsupported"

\* TypeReference.resolve of DW_AT_type: the DataType at that offset, if any.
Inner(d) == g[d].inner

(***************************************************************************)
(* Member.__eval_offset, in bits: DW_AT_data_bit_offset as is; no          *)
(* location, 0; a constant, bytes * 8; [DW_OP_plus_uconst, ULEB] the       *)
(* decoded ULEB * 8.  Any other expression raises NotImplementedError;     *)
(* LEB.decode of a cut-off operand raises ValueError.                      *)
(***************************************************************************)
OffsetRaises(loc) ==
    \/ loc.form \notin {"bit_offset", "none", "constant", "plus_uconst"}
    \/ loc.form = "plus_uconst" /\ ~LEB!Decode(loc.leb, 0, FALSE).ok

EvalOffset(loc) ==
    CASE loc.form = "bit_offset"  -> loc.val
      [] loc.form = "none"        -> 0
      [] loc.form = "constant"    -> loc.val * 8
      [] loc.form = "plus_uconst" -> LEB!Decode(loc.leb, 0, FALSE).val * 8

\* get_limit of a DW_TAG_subrange_type: DW_AT_upper_bound + 1, or None for
\* a missing bound, a DWARF-expression bound, or the (1 << 64) - 1 marker.
Limit(sr) == IF sr.form = "data" /\ ~sr.all_ones THEN ToString(sr.val + 1) ELSE "None"

\* self.dimensions: only an array reads its subranges.
Dimensions(d) == IF Kind(d) = "array" THEN [i \in DOMAIN g[d].subranges |-> Limit(g[d].subranges[i])]
                 ELSE << >>

JoinWith(sep, s) == IF s = << >> THEN "" ELSE FoldLeft(LAMBDA a, b : a \o sep \o b, Head(s), Tail(s))

----------------------------------------------------------------------------
(***************************************************************************)
(* DataType._hash_list: the token stream of a type, threading the backrefs *)
(* dict (here the sequence of visited types, index = position - 1)        *)
(* through the inner type and every member type.  A type already visited  *)
(* anywhere in the walk yields '%%' and its index instead of its stream.   *)
(* Results are records [toks, br].                                         *)
(***************************************************************************)
\* Mutant: the back reference without its index.
BackRefNoIndex(br, d) == "%%"

\* Mutant: the back reference names the type's tid, not its walk index.
BackRefTid(br, d) == "%%" \o ToString(Tid(d))

BackRef(br, d) == "%%" \o ToString(SelectInSeq(br, LAMBDA x : x = d) - 1)

RECURSIVE HashList(_, _), MembersList(_, _, _)
HashList(d, br) ==
    IF d \in ToSet(br) THEN [toks |-> << BackRef(br, d) >>, br |-> br]
    ELSE LET e   == g[d]
             b0  == Append(br, d)
             inr == IF Inner(d) = NoDie THEN [toks |-> << >>, br |-> b0]
                    ELSE LET r == HashList(Inner(d), b0) IN [toks |-> << "->" >> \o r.toks, br |-> r.br]
             dms == IF Dimensions(d) = << >> THEN << >> ELSE << JoinWith("x", Dimensions(d)) >>
             mem == IF e.members = << >> THEN [toks |-> << >>, br |-> inr.br]
                    ELSE LET r == MembersList(e.members, 1, inr.br)
                         IN  [toks |-> << "{" >> \o r.toks \o << "}" >>, br |-> r.br]
             enm == IF e.enumerators = << >> THEN << >>
                    ELSE << "{" >> \o FlattenSeq([i \in DOMAIN e.enumerators |->
                                        << e.enumerators[i].name, "~", ToString(e.enumerators[i].value) >>])
                                  \o << "}" >>
         IN  [toks |-> << Kind(d), e.name, e.bytes >> \o inr.toks \o dms \o mem.toks \o enm,
              br   |-> mem.br]

\* for member in self.members: yield member.name, '~', member.datatype's stream
MembersList(ms, i, br) ==
    IF i > Len(ms) THEN [toks |-> << >>, br |-> br]
    ELSE LET h    == HashList(ms[i].type, br)
             rest == MembersList(ms, i + 1, h.br)
         IN  [toks |-> << ms[i].name, "~" >> \o h.toks \o rest.toks, br |-> rest.br]

\* DataType.typehash: sha256(':'.join(str(e) for e in self._hash_list()))
TypeHash(d) == JoinWith(":", HashList(d, << >>).toks)

\* compressed_id / compressed_inner: the kept type of a type's hash class.
Kept(d) == rep[th[d]]
CompressedId(d) == Tid(Kept(d))

\* DataType.db_tuple (loc left out).
\* Mutant: db_tuple names the inner type by its own tid.
TypeRowOwnInner(d) ==
    [id |-> Tid(d), kind |-> Kind(d), name |-> g[d].name, bytes |-> g[d].bytes,
     inner |-> IF Inner(d) = NoDie THEN -1 ELSE Tid(Inner(d))]

TypeRow(d) == [id |-> Tid(d), kind |-> Kind(d), name |-> g[d].name, bytes |-> g[d].bytes,
               inner |-> IF Inner(d) = NoDie THEN -1 ELSE CompressedId(Inner(d))]

\* Mutant: Member.db_tuple names the member's type by its own tid.
MemberRowOwnType(d, i) ==
    [parent |-> CompressedId(d), type |-> Tid(g[d].members[i].type),
     offset |-> offset[d][i], name |-> g[d].members[i].name]

\* Member.db_tuple and Enumerator.db_tuple of the i-th child of d.
MemberRow(d, i) ==
    [parent |-> CompressedId(d), type |-> CompressedId(g[d].members[i].type),
     offset |-> offset[d][i], name |-> g[d].members[i].name]

EnumeratorRow(d, i) ==
    [parent |-> CompressedId(d), name |-> g[d].enumerators[i].name, value |-> g[d].enumerators[i].value]

Frame(d) == [type |-> d, pc |-> "enter"]
Top == stack[Len(stack)]
Pop == SubSeq(stack, 1, Len(stack) - 1)

Init ==
    /\ g \in Tables
    /\ phase = "init"
    /\ offset = [d \in Dies |-> << >>]
    /\ th = [d \in Dies |-> ""]
    /\ rep = [h \in {} |-> NoDie]
    /\ todo = {} /\ stack = << >> /\ done = {}
    /\ types = EmptyBag /\ orphan = FALSE /\ members = {} /\ enums = {} /\ dims = {}

\* Every way of keeping one type of each hash class hs takes in H.
RECURSIVE KeptChoices(_, _)
KeptChoices(hs, H) ==
    IF H = {} THEN {[h \in {} |-> NoDie]}
    ELSE LET h == CHOOSE x \in H : TRUE
         IN  {f @@ (h :> d) : f \in KeptChoices(hs, H \ {h}), d \in {x \in Dies : hs[x] = h}}

(***************************************************************************)
(* DataTypes.__init__: a DataType per type DIE, with Member objects whose  *)
(* offsets are evaluated on construction (an unsupported location raises  *)
(* out of the whole constructor), then the typehash dict comprehension:   *)
(* itervalues order is arbitrary and the last type of each hash wins, so  *)
(* any type of a hash class may be the one kept.                          *)
(***************************************************************************)
ConstructTypes ==
    /\ phase = "init"
    /\ IF \E d \in Dies : \E i \in DOMAIN g[d].members : OffsetRaises(g[d].members[i].loc)
       THEN /\ phase' = "failed"
            /\ UNCHANGED <<offset, th, rep, todo>>
       ELSE LET hs == [d \in Dies |-> TypeHash(d)] IN
            /\ offset' = [d \in Dies |-> [i \in DOMAIN g[d].members |-> EvalOffset(g[d].members[i].loc)]]
            /\ th' = hs
            /\ \E f \in KeptChoices(hs, Range(hs)) : rep' = f /\ todo' = Range(f)
            /\ phase' = "store"
    /\ UNCHANGED <<g, stack, done, types, orphan, members, enums, dims>>

\* for datatype in self.typehash.itervalues(): iter_related(datatype)
IterNext ==
    /\ phase = "store" /\ stack = << >>
    /\ \E d \in todo : todo' = todo \ {d} /\ stack' = << Frame(d) >>
    /\ UNCHANGED <<g, phase, offset, th, rep, done, types, orphan, members, enums, dims>>

\* Mutant: iter_related walks datatype.inner instead of compressed_inner.
EnterUncompressed ==
    /\ phase = "store" /\ stack # << >> /\ Top.pc = "enter"
    /\ LET d == Top.type IN
       IF d \in done
       THEN stack' = Pop /\ UNCHANGED done
       ELSE /\ done' = done \cup {d}
            /\ LET f == [stack EXCEPT ![Len(stack)].pc = "yield"] IN
               stack' = IF Inner(d) = NoDie THEN f ELSE Append(f, Frame(Inner(d)))
    /\ UNCHANGED <<g, phase, offset, th, rep, todo, types, orphan, members, enums, dims>>

\* iter_related: a type already done yields nothing; otherwise it is marked
\* done and its compressed inner type is walked first.
Enter ==
    /\ phase = "store" /\ stack # << >> /\ Top.pc = "enter"
    /\ LET d == Top.type IN
       IF d \in done
       THEN stack' = Pop /\ UNCHANGED done
       ELSE /\ done' = done \cup {d}
            /\ LET f == [stack EXCEPT ![Len(stack)].pc = "yield"] IN
               stack' = IF Inner(d) = NoDie THEN f ELSE Append(f, Frame(Kept(Inner(d))))
    /\ UNCHANGED <<g, phase, offset, th, rep, todo, types, orphan, members, enums, dims>>

\* yield datatype: executemany inserts its db_tuple.  The schema's foreign
\* key from inner to id is checked against the rows already inserted.
Yield ==
    /\ phase = "store" /\ stack # << >> /\ Top.pc = "yield"
    /\ LET row == TypeRow(Top.type) IN
       /\ types' = types (+) SetToBag({row})
       /\ orphan' = (orphan \/ (row.inner # -1 /\ \A r \in BagToSet(types) : r.id # row.inner))
    /\ stack' = Pop
    /\ UNCHANGED <<g, phase, offset, th, rep, todo, done, members, enums, dims>>

\* The rest of DataTypes.store: members, enumerators and array dimensions of
\* the kept types (Member.db_tuple, Enumerator.db_tuple), then commit.
StoreRest ==
    /\ phase = "store" /\ stack = << >> /\ todo = {}
    /\ LET kept == Range(rep) IN
       /\ members' = UNION {{MemberRow(d, i) : i \in DOMAIN g[d].members} : d \in kept}
       /\ enums' = UNION {{EnumeratorRow(d, i) : i \in DOMAIN g[d].enumerators} : d \in kept}
       /\ dims' = UNION {{[id |-> Tid(d), num |-> i - 1, size |-> Dimensions(d)[i]]
                           : i \in DOMAIN Dimensions(d)} : d \in kept}
    /\ phase' = "committed"
    /\ UNCHANGED <<g, offset, th, rep, todo, stack, done, types, orphan>>

Next == ConstructTypes \/ IterNext \/ Enter \/ Yield \/ StoreRest

Spec == Init /\ [][Next]_vars

----------------------------------------------------------------------------
Rows == [id : Int, kind : STRING, name : STRING, bytes : STRING, inner : Int]

TypeOK ==
    /\ g \in Tables
    /\ phase \in {"init", "store", "committed", "failed"}
    /\ rep \in [DOMAIN rep -> Dies] /\ todo \subseteq Range(rep) /\ done \subseteq Range(rep)
    /\ stack \in Seq([type : Dies, pc : {"enter", "yield"}]) /\ Len(stack) <= Cardinality(Dies)
    /\ IsABag(types) /\ BagToSet(types) \subseteq Rows /\ orphan \in BOOLEAN

(***************************************************************************)
(* The structural identity the spec (section 3) means by "structurally    *)
(* identical graphs": the greatest relation between types that agree on   *)
(* every field _hash_list reads (kind, name, byte size, dimensions, member *)
(* names, enumerators) and relate their inner types and their members'    *)
(* types pairwise.  Computed by refining the agreeing pairs to a fixpoint. *)
(***************************************************************************)
LocalFields(d) ==
    [kind |-> Kind(d), name |-> g[d].name, bytes |-> g[d].bytes, dims |-> Dimensions(d),
     inner |-> Inner(d) # NoDie, enumerators |-> g[d].enumerators,
     members |-> [i \in DOMAIN g[d].members |-> g[d].members[i].name]]

Successors(a, b, R) ==
    /\ Inner(a) # NoDie => <<Inner(a), Inner(b)>> \in R
    /\ \A i \in DOMAIN g[a].members : <<g[a].members[i].type, g[b].members[i].type>> \in R

RECURSIVE Refine(_)
Refine(R) == LET R2 == {p \in R : Successors(p[1], p[2], R)} IN IF R2 = R THEN R ELSE Refine(R2)

Structural == Refine({p \in Dies \X Dies : LocalFields(p[1]) = LocalFields(p[2])})

(***************************************************************************)
(* Only structurally identical types are merged: when DataTypes.__init__  *)
(* has hashed the types, two types with the same typehash are related by  *)
(* Structural.  The back-reference tokens of _hash_list are what keep a   *)
(* pointer back to the enclosing struct from hashing like a pointer back  *)
(* to some other type seen earlier in the walk.                            *)
(***************************************************************************)
MergedTypesAreEquivalent ==
    [][phase = "init" /\ phase' = "store" =>
         \A a, b \in Dies : th'[a] = th'[b] => <<a, b>> \in Structural]_vars

(***************************************************************************)
(* Foreign keys of the types table (spec section 4.2; schema.sql is not   *)
(* part of the sources): no row is inserted before the row its inner      *)
(* refers to.  __iter_compressed_types walks the compressed inner type    *)
(* before yielding, and db_tuple names the inner by its compressed id.    *)
(***************************************************************************)
InnerStoredBeforeOuter == ~orphan

(***************************************************************************)
(* After commit the tables hold one types row per hash class, and every   *)
(* member's parent and type, every enumerator's parent and every array    *)
(* dimension's type is one of those rows.                                  *)
(***************************************************************************)
StoredTypesAreCanonical ==
    phase = "committed" =>
        LET ids == {r.id : r \in BagToSet(types)} IN
        /\ BagCardinality(types) = Cardinality(DOMAIN rep)
        /\ ids = {CompressedId(d) : d \in Dies}
        /\ \A m \in members : m.parent \in ids /\ m.type \in ids
        /\ \A e \in enums : e.parent \in ids
        /\ \A x \in dims : x.id \in ids

====
