---------------------------- MODULE MC_TypeDedup ----------------------------
(***************************************************************************)
(* Two compile units of three type DIEs each.  The first is               *)
(*     struct S { int a; struct S *p; };                                   *)
(* (an int, S, and the pointer P); the second has an int or an enum X in  *)
(* place of the int, varies the name of member a, p's location attribute  *)
(* (the same offset in every form, another offset, or one that raises)    *)
(* and makes P a pointer to its own S, a pointer to its int/X, or an      *)
(* array int[4].  Twin(d) is the DIE of the second unit at the place of d *)
(* in the first.                                                           *)
(***************************************************************************)
EXTENDS TypeDedup

MCDies == 1..6

CU1 == 1..3
Twin(d) == d + 3

Loc(form, val, leb) == [form |-> form, val |-> val, leb |-> leb]
Member(name, type, loc) == [name |-> name, type |-> type, loc |-> loc]
Die(tag, enc, name, bytes, inner, ms, es, srs) ==
    [tag |-> tag, enc |-> enc, name |-> name, bytes |-> bytes, inner |-> inner,
     members |-> ms, enumerators |-> es, subranges |-> srs]

IntDie  == Die("base_type", "signed", "int", "4", NoDie, << >>, << >>, << >>)
EnumDie == Die("enumeration_type", "none", "X", "4", NoDie, << >>,
               << [name |-> "A", value |-> 0], [name |-> "B", value |-> 1] >>, << >>)
StructDie(b, an, ploc) ==
    Die("structure_type", "none", "S", "8", NoDie,
        << Member(an, b + 1, Loc("none", 0, << >>)), Member("p", b + 3, ploc) >>, << >>, << >>)
PtrDie(to) == Die("pointer_type", "none", "None", "4", to, << >>, << >>, << >>)
ArrayDie(b) == Die("array_type", "none", "None", "16", b + 1, << >>, << >>,
                   << [form |-> "data", val |-> 3, all_ones |-> FALSE] >>)

\* DIEs b+1 .. b+3
Unit(b, x, an, ploc, p) ==
    [d \in b + 1 .. b + 3 |->
        CASE d = b + 1 -> (IF x = "int" THEN IntDie ELSE EnumDie)
          [] d = b + 2 -> StructDie(b, an, ploc)
          [] d = b + 3 -> (CASE p = "self" -> PtrDie(b + 2)
                             [] p = "x"    -> PtrDie(b + 1)
                             [] OTHER      -> ArrayDie(b))]

PLocs == {Loc("constant", 4, << >>), Loc("plus_uconst", 0, << 4 >>), Loc("bit_offset", 16, << >>),
          Loc("plus_uconst", 0, << 132 >>), Loc("expr", 0, << >>)}

MCTables ==
    {Unit(0, "int", "a", Loc("constant", 4, << >>), "self") @@ Unit(3, x, an, ploc, p) :
        x \in {"int", "enum"}, an \in {"a", "b"}, ploc \in PLocs, p \in {"self", "x", "array"}}

(***************************************************************************)
(* Dedup (spec section 8): when the second unit is a copy of the first,   *)
(* with every field the same, every offset the same whatever its form,    *)
(* and every reference mapped to the twin, each type of the first unit is *)
(* merged with its twin.  The back-reference indices are positions in the *)
(* walk, the same in both units.                                           *)
(***************************************************************************)
NoLoc == Loc("", 0, << >>)
Blank(e)   == [e EXCEPT !.members = [i \in DOMAIN @ |-> [@[i] EXCEPT !.loc = NoLoc]]]
MapRefs(e) == [Blank(e) EXCEPT !.inner = IF @ = NoDie THEN NoDie ELSE Twin(@),
                               !.members = [i \in DOMAIN @ |-> [@[i] EXCEPT !.type = Twin(@)]]]

IsCopy ==
    \A d \in CU1 :
        /\ Blank(g[Twin(d)]) = MapRefs(g[d])
        /\ \A i \in DOMAIN g[d].members :
              LET l1 == g[d].members[i].loc
                  l2 == g[Twin(d)].members[i].loc
              IN  ~OffsetRaises(l1) /\ ~OffsetRaises(l2) /\ EvalOffset(l1) = EvalOffset(l2)

CopiesAreMerged == [][phase = "init" /\ phase' = "store" /\ IsCopy => \A d \in CU1 : th'[d] = th'[Twin(d)]]_vars

=============================================================================
