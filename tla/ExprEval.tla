------------------------------ MODULE ExprEval ------------------------------
(***************************************************************************)
(* What the location-expression machine promises (spec section 4.6): one   *)
(* evaluation of a byte-code stream either fails or yields a value         *)
(* together with an address/value flag and the uses_frame and uses_cfa    *)
(* flags.  The value of a generated C expression is what it computes: a    *)
(* linear combination of the symbols it mentions (get_reg(n), the frame    *)
(* base, the CFA) plus a constant, so two expressions that compute the     *)
(* same thing are the same value here whatever their text.                 *)
(*                                                                         *)
(* The abstract specification takes the whole evaluation as one step from  *)
(* "pending" to the outcome Reference(expr), computed with the DWARF       *)
(* meaning of every opcode family the spec lists.                          *)
(***************************************************************************)
EXTENDS Integers, Sequences, TLC, LinearForm

LOCAL LEB == INSTANCE LEB128

VARIABLES
    expr,       \* the byte-code stream being evaluated (a sequence of bytes)
    outcome     \* "pending" until the evaluation has finished

Outcome(st, v, isAddr, fr, cf) ==
    [state |-> st, val |-> v, addr |-> isAddr, frame |-> fr, cfa |-> cf]
Pending == Outcome("pending", Zero, FALSE, FALSE, FALSE)
Failed  == Outcome("error", Zero, FALSE, FALSE, FALSE)

----------------------------------------------------------------------------
(* Fixed-width little-endian operands: n bytes at position p, unsigned or  *)
(* two's-complement signed.                                                *)
LE(s, p, n) == LET RECURSIVE acc(_)
                   acc(i) == IF i = 0 THEN 0 ELSE acc(i - 1) + s[p + i] * 256^(i - 1)
               IN  acc(n)
Fixed(s, p, n, signed) ==
    LET u == LE(s, p, n)
    IN  IF signed /\ u >= 2^(8 * n - 1) THEN u - 2^(8 * n) ELSE u

\* Width and signedness of DW_OP_const1u .. DW_OP_const8s (0x08 .. 0x0f).
ConstWidth(op)  == 2^((op - 8) \div 2)
ConstSigned(op) == (op - 8) % 2 = 1

(***************************************************************************)
(* Reference(s): the DWARF meaning of the stream.  st is the stack of      *)
(* linear forms (top last); fr and cf record whether the frame base or the *)
(* CFA was pushed.  Binary operators combine the second entry with the top *)
(* (DW_OP_minus is second - top); DW_OP_pick 0 copies the top; rot moves   *)
(* the top to third place.  A register location or DW_OP_stack_value ends  *)
(* the evaluation with a value that is not an address; the end of the      *)
(* stream yields the top as an address.                                    *)
(***************************************************************************)
RECURSIVE Ref(_, _, _, _, _)
Ref(s, p, st, fr, cf) ==
  LET n    == Len(st)
      top  == st[n]
      sec  == st[n - 1]
      thd  == st[n - 2]
      rest(k) == SubSeq(st, 1, n - k)
      op   == s[p + 1]
      q    == p + 1
      u    == LEB!Decode(s, q, FALSE)
      sl   == LEB!Decode(s, q, TRUE)
      push(v, r) == Ref(s, r, Append(st, v), fr, cf)
  IN
  IF p >= Len(s) THEN (IF n = 0 THEN Failed ELSE Outcome("value", top, TRUE, fr, cf))
  ELSE CASE op >= 48 /\ op <= 79 -> push(LinConst(op - 48), q)                \* lit0..lit31
         [] op >= 8 /\ op <= 15 ->                                            \* const1u..const8s
              IF q + ConstWidth(op) > Len(s) THEN Failed
              ELSE push(LinConst(Fixed(s, q, ConstWidth(op), ConstSigned(op))), q + ConstWidth(op))
         [] op = 3  -> IF q + 4 > Len(s) THEN Failed ELSE push(LinConst(LE(s, q, 4)), q + 4)
         [] op = 16 -> IF u.ok THEN push(LinConst(u.val), u.pos) ELSE Failed
         [] op = 17 -> IF sl.ok THEN push(LinConst(sl.val), sl.pos) ELSE Failed
         [] op = 18 -> IF n < 1 THEN Failed ELSE push(top, q)                 \* dup
         [] op = 19 -> IF n < 1 THEN Failed ELSE Ref(s, q, rest(1), fr, cf)   \* drop
         [] op = 20 -> IF n < 2 THEN Failed ELSE push(sec, q)                 \* over
         [] op = 21 -> IF q >= Len(s) \/ s[q + 1] >= n THEN Failed            \* pick
                       ELSE Ref(s, q + 1, Append(st, st[n - s[q + 1]]), fr, cf)
         [] op = 22 -> IF n < 2 THEN Failed                                   \* swap
                       ELSE Ref(s, q, rest(2) \o <<top, sec>>, fr, cf)
         [] op = 23 -> IF n < 3 THEN Failed                                   \* rot
                       ELSE Ref(s, q, rest(3) \o <<top, thd, sec>>, fr, cf)
         [] op = 28 -> IF n < 2 THEN Failed                                   \* minus
                       ELSE Ref(s, q, Append(rest(2), LinAdd(sec, LinNeg(top))), fr, cf)
         [] op = 34 -> IF n < 2 THEN Failed                                   \* plus
                       ELSE Ref(s, q, Append(rest(2), LinAdd(sec, top)), fr, cf)
         [] op >= 112 /\ op <= 143 ->                                         \* breg0..breg31
              IF sl.ok THEN push(LinPlus(<<"reg", op - 112>>, sl.val), sl.pos) ELSE Failed
         [] op = 146 ->                                                       \* bregx
              LET off == LEB!Decode(s, u.pos, TRUE)
              IN  IF u.ok /\ off.ok THEN push(LinPlus(<<"reg", u.val>>, off.val), off.pos)
                  ELSE Failed
         [] op = 145 ->                                                       \* fbreg
              IF sl.ok THEN Ref(s, sl.pos, Append(st, LinPlus(<<"frame", 0>>, sl.val)), TRUE, cf)
              ELSE Failed
         [] op = 156 -> Ref(s, q, Append(st, LinAtom(<<"cfa", 0>>)), fr, TRUE)  \* call_frame_cfa
         [] op >= 80 /\ op <= 111 ->                                          \* reg0..reg31
              Outcome("value", LinAtom(<<"reg", op - 80>>), FALSE, fr, cf)
         [] op = 144 -> IF u.ok THEN Outcome("value", LinAtom(<<"reg", u.val>>), FALSE, fr, cf)
                        ELSE Failed                                           \* regx
         [] op = 159 -> IF n < 1 THEN Failed ELSE Outcome("value", top, FALSE, fr, cf)
         [] op = 150 -> Ref(s, q, st, fr, cf)                                 \* nop
         [] OTHER    -> Failed

Reference(s) == Ref(s, 0, <<>>, FALSE, FALSE)

----------------------------------------------------------------------------
Init == outcome = Pending

Evaluate ==
    /\ outcome = Pending
    /\ outcome' = Reference(expr)
    /\ UNCHANGED expr

Spec == Init /\ [][Evaluate]_<<expr, outcome>>

=============================================================================
