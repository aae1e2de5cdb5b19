----------------------------- MODULE ExprMachine -----------------------------
(***************************************************************************)
(* The DWARF expression machine of idk/dwexpr/machine.py (class Machine,   *)
(* method run and the opcode handlers) evaluating one byte-code stream.    *)
(*                                                                         *)
(* One action per handler family: each fetches the opcode byte at the      *)
(* current position, reads its operands (fixed-width or LEB128), and       *)
(* changes the stack, the flags or the status as the handler does.  The C  *)
(* text the handlers format is kept as an expression tree; Meaning turns a *)
(* tree into what the C expression computes, so the machine can be shown  *)
(* to implement ExprEval (the DWARF meaning of the stream).               *)
(***************************************************************************)
EXTENDS Integers, Sequences, TLC, LinearForm

CONSTANTS
    Streams     \* the byte-code streams the machine may be given

LOCAL LEB == INSTANCE LEB128

VARIABLES
    expr,       \* self.origexpr: the stream, constant during a run
    pos,        \* position of the BytesIO reader (bytes consumed)
    stack,      \* self.stack: expression trees, top last
    uses_frame, \* self.uses_frame
    uses_cfa,   \* self.uses_cfa
    status,     \* "running", "returned" or the exception class raised
    result      \* the Result returned by run, or NoResult

vars == <<expr, pos, stack, uses_frame, uses_cfa, status, result>>

Errors   == {"ValueError", "IndexError", "TypeError", "NotImplementedError"}
NoResult == [expression |-> <<"none">>, is_address |-> FALSE,
             uses_frame |-> FALSE, uses_cfa |-> FALSE]

----------------------------------------------------------------------------
(***************************************************************************)
(* The text each handler pushes, as a tree (the first element names the    *)
(* format string; "vp" and "cp" stand for the void and char pointer casts):*)
(*   <<"lit", v>>        '%#x' % v                (litN, constu, consts)   *)
(*   <<"addr", v>>       'vp %#010x' % v          (addr)                   *)
(*   <<"breg", n, o>>    'cp get_reg(n) +/- %#x' % abs(o)                  *)
(*   <<"frame", o>>      '__adbi_frame__ +/- %#x' % abs(o)                 *)
(*   <<"cfa">>           '__adbi_cfa__'                                    *)
(*   <<"reg", n>>        'get_reg(n)'             (regN, regx)             *)
(*   <<"minus", a, b>>   'vp (cp (a)) - (cp (b))'                          *)
(*   <<"plus", a, b>>    'vp (cp (a)) + (cp (b))'                          *)
(***************************************************************************)
RECURSIVE Meaning(_)
Meaning(e) ==
    CASE e[1] = "lit"   -> LinConst(e[2])
      [] e[1] = "addr"  -> LinConst(e[2])
      [] e[1] = "breg"  -> LinPlus(<<"reg", e[2]>>, e[3])
      [] e[1] = "frame" -> LinPlus(<<"frame", 0>>, e[2])
      [] e[1] = "cfa"   -> LinAtom(<<"cfa", 0>>)
      [] e[1] = "reg"   -> LinAtom(<<"reg", e[2]>>)
      [] e[1] = "minus" -> LinAdd(Meaning(e[2]), LinNeg(Meaning(e[3])))
      [] e[1] = "plus"  -> LinAdd(Meaning(e[2]), Meaning(e[3]))

----------------------------------------------------------------------------
(***************************************************************************)
(* OPCODES (imported by machine.py from dwexpr/constants.py, which is not  *)
(* in the repository): the DWARF opcode numbering, 0x03 .. 0x9f less the   *)
(* reserved 0x04, 0x05 and 0x07.  A byte outside it makes run raise        *)
(* ValueError; a byte inside it whose name has no method dispatches to     *)
(* unsupported, which raises NotImplementedError.                          *)
(***************************************************************************)
OPCODES == (3..159) \ {4, 5, 7}

LitOps   == 48..79        \* lit0 .. lit31
RegOps   == 80..111       \* reg0 .. reg31
BregOps  == 112..143      \* breg0 .. breg31
ConstFixedOps == 8..15    \* const1u .. const8s
StackOps == {18, 19, 20, 22, 23}   \* dup, drop, over, swap, rot
ArithOps == {28, 34}               \* minus, plus

Implemented == LitOps \cup RegOps \cup BregOps \cup ConstFixedOps \cup StackOps
               \cup ArithOps \cup {3, 16, 17, 21, 144, 145, 146, 150, 156, 159}

\* Entries the handler pops before it pushes (pop raises 'stack underflow').
PopCount == [o \in StackOps \cup ArithOps \cup {159} |->
                CASE o \in {18, 19, 159} -> 1
                  [] o \in {20, 22} \cup ArithOps -> 2
                  [] o = 23 -> 3]

(***************************************************************************)
(* Operands read after the opcode byte at position p: self.read(n) for     *)
(* pick (1 byte) and addr (4 bytes, struct '<I'); LEB.decode / SLEB.decode *)
(* for the LEB operands.  ok = FALSE when the stream ends first (both      *)
(* read with force=True and BaseLEB.decode raise ValueError).              *)
(***************************************************************************)
\* struct.unpack('<I', ...): little-endian bytes at p + 1 .. p + n.
LittleEndian(p, n) ==
    LET RECURSIVE acc(_)
        acc(i) == IF i = 0 THEN 0 ELSE acc(i - 1) + expr[p + i] * 256^(i - 1)
    IN  acc(n)

Raw(p, n) ==
    IF p + n > Len(expr) THEN [ok |-> FALSE, args |-> <<>>, next |-> p]
    ELSE [ok |-> TRUE, args |-> << LittleEndian(p, n) >>, next |-> p + n]

RECURSIVE Lebs(_, _)
Lebs(p, signs) ==
    IF signs = <<>> THEN [ok |-> TRUE, args |-> <<>>, next |-> p]
    ELSE LET d    == LEB!Decode(expr, p, Head(signs))
             more == Lebs(d.pos, Tail(signs))
         IN  IF ~d.ok THEN [ok |-> FALSE, args |-> <<>>, next |-> p]
             ELSE [more EXCEPT !.ok = more.ok, !.args = << d.val >> \o more.args]

\* Mutant: bregx decodes its offset unsigned.
OperandsBregxUnsigned(op, p) ==
    IF op = 146 THEN Lebs(p, <<FALSE, FALSE>>)
    ELSE CASE op = 21 -> Raw(p, 1)
           [] op = 3  -> Raw(p, 4)
           [] op \in {16, 144} -> Lebs(p, <<FALSE>>)
           [] op \in {17, 145} \cup BregOps -> Lebs(p, <<TRUE>>)
           [] OTHER -> [ok |-> TRUE, args |-> <<>>, next |-> p]

Operands(op, p) ==
    CASE op = 21 -> Raw(p, 1)
      [] op = 3  -> Raw(p, 4)
      [] op \in {16, 144} -> Lebs(p, <<FALSE>>)                 \* constu, regx
      [] op \in {17, 145} \cup BregOps -> Lebs(p, <<TRUE>>)     \* consts, fbreg, bregN
      [] op = 146 -> Lebs(p, <<FALSE, TRUE>>)                   \* bregx
      [] OTHER -> [ok |-> TRUE, args |-> <<>>, next |-> p]

----------------------------------------------------------------------------
Init ==
    /\ expr \in Streams
    /\ pos = 0
    /\ stack = <<>>
    /\ uses_frame = FALSE
    /\ uses_cfa = FALSE
    /\ status = "running"
    /\ result = NoResult

\* run: self.read(force=False) returned an opcode byte.
Fetch == status = "running" /\ pos < Len(expr)
Op    == expr[pos + 1]
Opd   == Operands(Op, pos + 1)
Top   == stack[Len(stack)]

Raise(exc) ==
    /\ status' = exc
    /\ UNCHANGED <<expr, stack, uses_frame, uses_cfa, result>>

\* Mutant: the result is stored but run does not leave its loop.
ReturnKeepsRunning(e, isAddr) ==
    /\ status' = status
    /\ result' = [expression |-> e, is_address |-> isAddr,
                  uses_frame |-> uses_frame, uses_cfa |-> uses_cfa]
    /\ UNCHANGED <<expr, uses_frame, uses_cfa>>

Return(e, isAddr) ==
    /\ status' = "returned"
    /\ result' = [expression |-> e, is_address |-> isAddr,
                  uses_frame |-> uses_frame, uses_cfa |-> uses_cfa]
    /\ UNCHANGED <<expr, uses_frame, uses_cfa>>

\* A handler that pushes one tree and goes on.
Push(e) ==
    /\ stack' = Append(stack, e)
    /\ UNCHANGED <<expr, status, result>>

\* OPCODES[ord(opcode)] raised KeyError: 'malformed DWARF expression'.
Malformed ==
    /\ Fetch /\ Op \notin OPCODES
    /\ pos' = pos + 1
    /\ Raise("ValueError")

\* getattr(self, name, self.unsupported) found no handler.
Unsupported ==
    /\ Fetch /\ Op \in OPCODES \ Implemented
    /\ pos' = pos + 1
    /\ Raise("NotImplementedError")

\* An operand runs past the end of the stream.
Truncated ==
    /\ Fetch /\ Op \in Implemented /\ ~Opd.ok
    /\ pos' = Len(expr)
    /\ Raise("ValueError")

\* pop() on a stack with fewer entries than the handler pops.
Underflow ==
    /\ Fetch /\ Op \in DOMAIN PopCount /\ Len(stack) < PopCount[Op]
    /\ pos' = pos + 1
    /\ Raise("ValueError")

\* Mutant: swap pushes a and b back in the order they were popped.
StackOpSwapPopOrder ==
    /\ Fetch /\ Op \in StackOps /\ Len(stack) >= PopCount[Op]
    /\ LET n == Len(stack)
           a == stack[n]
           b == stack[n - 1]
           c == stack[n - 2]
           kept == SubSeq(stack, 1, n - PopCount[Op])
       IN  stack' = kept \o CASE Op = 18 -> <<a, a>>
                              [] Op = 19 -> <<>>
                              [] Op = 20 -> <<b, a, b>>
                              [] Op = 22 -> <<b, a>>
                              [] Op = 23 -> <<a, c, b>>
    /\ pos' = pos + 1
    /\ UNCHANGED <<expr, uses_frame, uses_cfa, status, result>>

\* dup, drop, over, swap, rot: the pops a (top), b, c and the pushes.
StackOp ==
    /\ Fetch /\ Op \in StackOps /\ Len(stack) >= PopCount[Op]
    /\ LET n == Len(stack)
           a == stack[n]
           b == stack[n - 1]
           c == stack[n - 2]
           kept == SubSeq(stack, 1, n - PopCount[Op])
       IN  stack' = kept \o CASE Op = 18 -> <<a, a>>
                              [] Op = 19 -> <<>>
                              [] Op = 20 -> <<b, a, b>>
                              [] Op = 22 -> <<a, b>>
                              [] Op = 23 -> <<a, c, b>>
    /\ pos' = pos + 1
    /\ UNCHANGED <<expr, uses_frame, uses_cfa, status, result>>

\* pick: idx = ord(read()) + 1; self.stack[-idx] raises IndexError when
\* idx exceeds the stack (the handler catches KeyError, not IndexError).
Pick ==
    /\ Fetch /\ Op = 21 /\ Opd.ok
    /\ pos' = Opd.next
    /\ LET idx == Opd.args[1] + 1
       IN  IF idx > Len(stack) THEN Raise("IndexError")
           ELSE Push(stack[Len(stack) - idx + 1])
    /\ UNCHANGED <<uses_frame, uses_cfa>>

\* nop
Nop ==
    /\ Fetch /\ Op = 150
    /\ pos' = pos + 1
    /\ UNCHANGED <<expr, stack, uses_frame, uses_cfa, status, result>>

\* call_frame_cfa pushes '__adbi_cfa__' and sets uses_cfa.
CallFrameCfa ==
    /\ Fetch /\ Op = 156
    /\ pos' = pos + 1
    /\ Push(<<"cfa">>)
    /\ uses_cfa' = TRUE
    /\ UNCHANGED uses_frame

\* constXX calls struct.unpack(fmt, size) with the integer size instead of
\* bytes read from the stream: it raises TypeError before reading.
ConstFixed ==
    /\ Fetch /\ Op \in ConstFixedOps
    /\ pos' = pos + 1
    /\ Raise("TypeError")

\* addr, constu, consts and litN push a literal.
Literal ==
    /\ Fetch /\ Op \in LitOps \cup {3, 16, 17} /\ Opd.ok
    /\ pos' = Opd.next
    /\ Push(CASE Op \in LitOps -> <<"lit", Op - 48>>
              [] Op = 3        -> <<"addr", Opd.args[1]>>
              [] OTHER         -> <<"lit", Opd.args[1]>>)
    /\ UNCHANGED <<uses_frame, uses_cfa>>

\* fbreg pushes the frame base plus the SLEB offset and sets uses_frame.
Fbreg ==
    /\ Fetch /\ Op = 145 /\ Opd.ok
    /\ pos' = Opd.next
    /\ Push(<<"frame", Opd.args[1]>>)
    /\ uses_frame' = TRUE
    /\ UNCHANGED uses_cfa

\* bregN and bregx (via bregN) push get_reg(n) plus the SLEB offset.
Breg ==
    /\ Fetch /\ Op \in BregOps \cup {146} /\ Opd.ok
    /\ pos' = Opd.next
    /\ Push(IF Op = 146 THEN <<"breg", Opd.args[1], Opd.args[2]>>
            ELSE <<"breg", Op - 112, Opd.args[1]>>)
    /\ UNCHANGED <<uses_frame, uses_cfa>>

\* minus, plus: a = pop() (the top), b = pop(); the text puts a first.
Arith ==
    /\ Fetch /\ Op \in ArithOps /\ Len(stack) >= 2
    /\ LET n == Len(stack)
       IN  stack' = Append(SubSeq(stack, 1, n - 2),
                           << IF Op = 28 THEN "minus" ELSE "plus", stack[n], stack[n - 1] >>)
    /\ pos' = pos + 1
    /\ UNCHANGED <<expr, uses_frame, uses_cfa, status, result>>

\* regN and regx return 'get_reg(n)'; run returns it as a value.
RegValue ==
    /\ Fetch /\ Op \in RegOps \cup {144} /\ Opd.ok
    /\ pos' = Opd.next
    /\ Return(<<"reg", IF Op = 144 THEN Opd.args[1] ELSE Op - 80>>, FALSE)
    /\ UNCHANGED stack

\* stack_value returns self.pop(); run returns it as a value.
StackValue ==
    /\ Fetch /\ Op = 159 /\ Len(stack) >= 1
    /\ pos' = pos + 1
    /\ stack' = SubSeq(stack, 1, Len(stack) - 1)
    /\ Return(Top, FALSE)

\* The stream is exhausted: run returns self.pop() as an address.
EndOfStream ==
    /\ status = "running" /\ pos = Len(expr)
    /\ UNCHANGED <<pos>>
    /\ IF stack = <<>>
       THEN Raise("ValueError")
       ELSE /\ stack' = SubSeq(stack, 1, Len(stack) - 1)
            /\ Return(Top, TRUE)

Next ==
    \/ Malformed \/ Unsupported \/ Truncated \/ Underflow
    \/ StackOp \/ Pick \/ Nop \/ CallFrameCfa \/ ConstFixed \/ Literal
    \/ Fbreg \/ Breg \/ Arith \/ RegValue \/ StackValue \/ EndOfStream

Spec == Init /\ [][Next]_vars /\ WF_vars(Next)

----------------------------------------------------------------------------
TypeOK ==
    /\ expr \in Streams
    /\ pos \in 0..Len(expr)
    /\ \A i \in 1..Len(stack) : stack[i][1] \in {"lit", "addr", "breg", "frame", "cfa", "minus", "plus"}
    /\ uses_frame \in BOOLEAN /\ uses_cfa \in BOOLEAN
    /\ status \in {"running", "returned"} \cup Errors
    /\ (status = "returned") = (result # NoResult)

(***************************************************************************)
(* Refinement mapping: while run is executing the abstract evaluation is   *)
(* pending; once it has returned, the outcome is the meaning of the        *)
(* returned text with the Result's flags; any exception is a failure.     *)
(***************************************************************************)
MachineOutcome ==
    CASE status = "running"  -> [state |-> "pending", val |-> Zero, addr |-> FALSE, frame |-> FALSE, cfa |-> FALSE]
      [] status = "returned" -> [state |-> "value", val |-> Meaning(result.expression),
                                 addr |-> result.is_address, frame |-> result.uses_frame,
                                 cfa |-> result.uses_cfa]
      [] OTHER               -> [state |-> "error", val |-> Zero, addr |-> FALSE, frame |-> FALSE, cfa |-> FALSE]

AbsEval == INSTANCE ExprEval WITH outcome <- MachineOutcome

(***************************************************************************)
(* Machine.run implements the DWARF meaning of every stream it is given:   *)
(* it returns exactly when the reference evaluation succeeds, and then the *)
(* C text it returns computes the reference value, with the same address  *)
(* flag and the same uses_frame / uses_cfa flags.  This is what the        *)
(* handlers' pop orders, operand decoding and early returns must get right.*)
(***************************************************************************)
ImplementsExprEval == AbsEval!Spec

=============================================================================
