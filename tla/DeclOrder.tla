---------------------------- MODULE DeclOrder ----------------------------
(***************************************************************************)
(* DataType.deforder of cachereader/datatype/datatype.py: the list of     *)
(* forward declarations and definitions that must precede the definition   *)
(* of a type in generated C, computed by the recursive process_type over  *)
(* the hard and soft requirements of the type classes in compound.py,     *)
(* indirect.py, typedef.py, enum.py and builtin.py.                        *)
(*                                                                         *)
(* The type table g maps each type id to its kind, whether it has a name, *)
(* its inner type (arrays, pointers, modifiers, typedefs) and the types   *)
(* of its members (compounds).  A NestedType without inner_id reads as    *)
(* VoidType; such a table has a named builtin in its place.  The recursion *)
(* of process_type is a stack of frames; Python's set iteration order is   *)
(* a nondeterministic choice of the next element.                          *)
(***************************************************************************)
EXTENDS Naturals, Sequences, FiniteSets, Functions

CONSTANTS
    Types,          \* type ids
    TypeGraphs,     \* type tables the reader may have loaded
    MaxDepth        \* Python's recursion limit, in process_type frames

Compound == {"struct", "class", "union"}
Builtin  == {"int", "uint", "char", "uchar", "float", "bool", "void"}
Indirect == {"ptr", "ref", "rref"}
Modified == {"const", "volatile", "restrict"}
Kinds    == Compound \cup Builtin \cup Indirect \cup Modified
                \cup {"array", "typedef", "enum", "unsupported"}

VARIABLES
    g,          \* the type table
    root,       \* the type whose deforder is computed (self)
    ret,        \* the list deforder builds: <<type, is_definition>>
    stack,      \* process_type frames, innermost last
    status      \* "running", "done", or the exception deforder raised

vars == <<g, root, ret, stack, status>>

\* DataTypeBase.is_anonymous: not self.name.
Anonymous(t) == ~g[t].named

\* The types a type refers to directly: a compound's member types, the
\* inner type of an array, pointer, modifier or typedef.
Refs(t) ==
    IF g[t].kind \in Compound THEN g[t].members
    ELSE IF g[t].kind \in Indirect \cup Modified \cup {"array", "typedef"}
         THEN {g[t].inner}
         ELSE {}

\* A named type referred to by a pointer or reference is a soft
\* requirement; by any other kind, a hard one.
RefIsSoft(t) == g[t].kind \in Indirect

(***************************************************************************)
(* get_hard_requirements / get_soft_requirements of every class: a named  *)
(* referred type is the requirement; an anonymous one contributes its own *)
(* hard (soft) requirements instead.                                       *)
(***************************************************************************)
RECURSIVE HardReq(_)
HardReq(t) ==
    UNION {IF Anonymous(r) THEN HardReq(r) ELSE IF RefIsSoft(t) THEN {} ELSE {r}
           : r \in Refs(t)}

RECURSIVE SoftReq(_)
SoftReq(t) ==
    UNION {IF Anonymous(r) THEN SoftReq(r) ELSE IF RefIsSoft(t) THEN {r} ELSE {}
           : r \in Refs(t)}

Requirements(t) == SoftReq(t) \cup HardReq(t)

(***************************************************************************)
(* is_forwardable: self.declare() does not raise NotImplementedError.     *)
(* CompoundType.declare and BuiltinType.declare contain yield, so calling *)
(* them only builds a generator and never raises, whether or not the type *)
(* is anonymous.  TypedefType.declare is a plain function that raises     *)
(* unless its inner type is a named compound or enum.  Every other class  *)
(* inherits DataType.declare, which raises.                                *)
(***************************************************************************)
Forwardable(t) ==
    \/ g[t].kind \in Compound \cup Builtin
    \/ /\ g[t].kind = "typedef"
       /\ ~Anonymous(g[t].inner)
       /\ g[g[t].inner].kind \in Compound \cup {"enum"}

Declared(t) == <<t, FALSE>> \in Range(ret) \/ <<t, TRUE>> \in Range(ret)
Defined(t)  == <<t, TRUE>> \in Range(ret)

----------------------------------------------------------------------------
Call(t) == [type |-> t, pc |-> "enter", fwd |-> {}, hard |-> {}, soft |-> {}]

Top == stack[Len(stack)]

SetTop(f) == [stack EXCEPT ![Len(stack)] = f]

\* process_type(r) from the top frame, which has already been updated to f;
\* beyond the recursion limit Python raises RecursionError.
Invoke(f, r) ==
    IF Len(stack) < MaxDepth
    THEN stack' = Append(SetTop(f), Call(r)) /\ UNCHANGED status
    ELSE stack' = SetTop(f) /\ status' = "RecursionError"

\* The top frame returns; when it is self's, deforder returns ret.
Return ==
    /\ stack' = SubSeq(stack, 1, Len(stack) - 1)
    /\ status' = IF Len(stack) = 1 THEN "done" ELSE status

Init ==
    /\ g \in TypeGraphs
    /\ root \in Types
    /\ ret = << >>
    /\ stack = << Call(root) >>
    /\ status = "running"

\* if is_defined(datatype): return
AlreadyDefined ==
    /\ status = "running" /\ Top.pc = "enter"
    /\ Defined(Top.type)
    /\ Return
    /\ UNCHANGED <<g, root, ret>>

\* Not yet defined: the requirement sets are the cached properties.
Begin ==
    /\ status = "running" /\ Top.pc = "enter"
    /\ ~Defined(Top.type)
    /\ stack' = SetTop([Top EXCEPT !.pc = "declare", !.fwd = Requirements(Top.type),
                                   !.hard = HardReq(Top.type), !.soft = SoftReq(Top.type)])
    /\ UNCHANGED <<g, root, ret, status>>

\* Mutant: a requirement is forward-declared without the is_declared test.
DeclareRequirementTwice ==
    /\ status = "running" /\ Top.pc = "declare"
    /\ \E r \in Top.fwd :
          /\ ret' = IF Forwardable(r) THEN Append(ret, <<r, FALSE>>) ELSE ret
          /\ stack' = SetTop([Top EXCEPT !.fwd = @ \ {r}])
    /\ UNCHANGED <<g, root, status>>

\* for each in datatype.requirements: forward-declare it if possible.
DeclareRequirement ==
    /\ status = "running" /\ Top.pc = "declare"
    /\ \E r \in Top.fwd :
          /\ ret' = IF Forwardable(r) /\ ~Declared(r) THEN Append(ret, <<r, FALSE>>) ELSE ret
          /\ stack' = SetTop([Top EXCEPT !.fwd = @ \ {r}])
    /\ UNCHANGED <<g, root, status>>

\* if possible, insert a forward declaration of the current type.
DeclareSelf ==
    /\ status = "running" /\ Top.pc = "declare" /\ Top.fwd = {}
    /\ LET t == Top.type IN
         ret' = IF Forwardable(t) /\ ~Declared(t) THEN Append(ret, <<t, FALSE>>) ELSE ret
    /\ stack' = SetTop([Top EXCEPT !.pc = "loops"])
    /\ UNCHANGED <<g, root, status>>

\* for each in datatype.hard_requirements: process_type(each)
ProcessHard ==
    /\ status = "running" /\ Top.pc = "loops"
    /\ \E r \in Top.hard : Invoke([Top EXCEPT !.hard = @ \ {r}], r)
    /\ UNCHANGED <<g, root, ret>>

\* Mutant: the is_forwardable test of the soft loop negated.
ProcessSoftForwardable ==
    /\ status = "running" /\ Top.pc = "loops" /\ Top.hard = {}
    /\ \E r \in Top.soft :
          LET f == [Top EXCEPT !.soft = @ \ {r}] IN
          IF Forwardable(r) /\ ~Defined(r)
          THEN Invoke(f, r)
          ELSE stack' = SetTop(f) /\ UNCHANGED status
    /\ UNCHANGED <<g, root, ret>>

\* for each soft requirement that cannot be forwarded and is not defined:
\* process_type(each)
ProcessSoft ==
    /\ status = "running" /\ Top.pc = "loops" /\ Top.hard = {}
    /\ \E r \in Top.soft :
          LET f == [Top EXCEPT !.soft = @ \ {r}] IN
          IF ~Forwardable(r) /\ ~Defined(r)
          THEN Invoke(f, r)
          ELSE stack' = SetTop(f) /\ UNCHANGED status
    /\ UNCHANGED <<g, root, ret>>

\* The two asserts, then ret.append(TypeDeclaration(datatype, True)).
Define ==
    /\ status = "running" /\ Top.pc = "loops" /\ Top.hard = {} /\ Top.soft = {}
    /\ LET t == Top.type IN
       IF /\ \A x \in HardReq(t) : Defined(x)
          /\ \A x \in SoftReq(t) : Declared(x)
       THEN /\ ret' = Append(ret, <<t, TRUE>>)
            /\ Return
       ELSE /\ status' = "AssertionError"
            /\ UNCHANGED <<ret, stack>>
    /\ UNCHANGED <<g, root>>

Next ==
    \/ AlreadyDefined \/ Begin \/ DeclareRequirement \/ DeclareSelf
    \/ ProcessHard \/ ProcessSoft \/ Define

Spec == Init /\ [][Next]_vars /\ WF_vars(Next)

----------------------------------------------------------------------------
(***************************************************************************)
(* process_type never trips its own asserts, and the list deforder returns *)
(* is what the spec (section 4.5) promises: self is defined last, and     *)
(* before each definition every hard requirement of the type is defined   *)
(* and every soft requirement at least declared.                           *)
(***************************************************************************)
DefinedBefore(t, i)  == \E j \in 1..(i - 1) : ret[j] = <<t, TRUE>>
DeclaredBefore(t, i) == \E j \in 1..(i - 1) : ret[j][1] = t

DeclarationOrderIsValid ==
    /\ status # "AssertionError"
    /\ status = "done" =>
         /\ ret # << >> /\ ret[Len(ret)] = <<root, TRUE>>
         /\ \A i \in DOMAIN ret : ret[i][2] =>
              /\ \A h \in HardReq(ret[i][1]) : DefinedBefore(h, i)
              /\ \A s \in SoftReq(ret[i][1]) : DeclaredBefore(s, i)

(***************************************************************************)
(* Each (type, is_definition) pair appears at most once in the list, at   *)
(* every point of the recursion: is_defined / is_declared are tested      *)
(* before every append, also for a type reached along several paths.     *)
(***************************************************************************)
EachEntryOnce == IsInjective(ret)

(***************************************************************************)
(* deforder returns: the spec (sections 4.5 and 8) says self-referential  *)
(* and mutually recursive types are handled and the recursion terminates. *)
(***************************************************************************)
DeforderReturns == <>(status = "done")

=============================================================================
