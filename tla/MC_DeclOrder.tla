---------------------------- MODULE MC_DeclOrder ----------------------------
(***************************************************************************)
(* Type tables for deforder: a named struct S, an anonymous struct U, a    *)
(* pointer P, a const modifier Q, a typedef T, a named enum E and void V,  *)
(* wired together in every way the families below allow, and kept when    *)
(* they describe C that compiles: nothing contains itself by value, and    *)
(* every cycle of references passes through a struct tag (which may be    *)
(* used before its definition).  deforder is asked of every type.          *)
(***************************************************************************)
EXTENDS DeclOrder

LOCAL G == INSTANCE Graphs

Entry(kind, named, inner, members) ==
    [kind |-> kind, named |-> named, inner |-> inner, members |-> members]

NoType == "none"

Table(sm, um, pi, qi, ti) ==
    [t \in Types |->
        CASE t = "S" -> Entry("struct", TRUE, NoType, sm)
          [] t = "U" -> Entry("struct", FALSE, NoType, um)
          [] t = "P" -> Entry("ptr", FALSE, pi, {})
          [] t = "Q" -> Entry("const", FALSE, qi, {})
          [] t = "T" -> Entry("typedef", TRUE, ti, {})
          [] t = "E" -> Entry("enum", TRUE, NoType, {})
          [] t = "V" -> Entry("void", TRUE, NoType, {})]

\* The references a table has: by value (members, and the inner types of
\* modifiers and typedefs), and through a pointer.
ByValue(tb) ==
    {<<t, r>> \in Types \X Types :
        \/ tb[t].kind \in Compound /\ r \in tb[t].members
        \/ tb[t].kind \in Modified \cup {"array", "typedef"} /\ r = tb[t].inner}

AllRefs(tb) ==
    ByValue(tb) \cup {<<t, r>> \in Types \X Types : tb[t].kind \in Indirect /\ r = tb[t].inner}

IsTag(tb, t) == tb[t].kind \in Compound /\ tb[t].named

CompilesAsC(tb) ==
    /\ G!IsDag([node |-> Types, edge |-> ByValue(tb)])
    /\ LET untagged == {t \in Types : ~IsTag(tb, t)}
       IN  G!IsDag([node |-> untagged,
                    edge |-> {e \in AllRefs(tb) : e[1] \in untagged /\ e[2] \in untagged}])

MCTypes == {"S", "U", "P", "Q", "T", "E", "V"}

MCTypeGraphs ==
    {tb \in {Table(sm, um, pi, qi, ti) :
                sm \in SUBSET {"U", "P", "T"} \ {{}},
                um \in {{"P"}},
                pi \in {"S", "T", "Q"},
                qi \in {"S", "E"},
                ti \in {"S", "U", "P", "Q", "E"}} : CompilesAsC(tb)}

\* One frame more than there are types: a deeper recursion has entered
\* some type a second time before defining it, and then never returns.
MCMaxDepth == Cardinality(MCTypes) + 1

=============================================================================
