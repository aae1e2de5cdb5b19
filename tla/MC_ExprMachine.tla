--------------------------- MODULE MC_ExprMachine ---------------------------
(***************************************************************************)
(* Stream sets for checking ExprMachine.  Every stream up to a length over *)
(* a small byte alphabet is given, so every interleaving of the chosen     *)
(* opcodes, operand bytes and truncations is run; bytes double as opcodes  *)
(* and operands (0x78 is breg8 and SLEB -8, 0x01 is an unknown opcode, a   *)
(* pick index and LEB 1), as they do in a real stream.                     *)
(***************************************************************************)
EXTENDS ExprMachine

LOCAL LEB == INSTANCE LEB128

Upto(alphabet, n) == UNION {[1..k -> alphabet] : k \in 0..n}

\* The spec's test vectors (section 8) and an addr operand.
SpecVectors ==
    { <<53, 112, 0, 34, 159>>,          \* lit5; breg0 0; plus; stack_value
      <<145, 120>>,                      \* fbreg -8
      <<156>>,                           \* call_frame_cfa
      <<3, 16, 32, 48, 64>>,             \* addr 0x40302010
      <<3, 16, 32>> }                    \* addr, truncated

\* Stack manipulation: three distinct values, every stack operator, plus,
\* the terminal stack_value, pick indexes 0 and 1 and an unknown opcode.
StackAlphabet == {49, 51, 156, 18, 19, 20, 21, 22, 23, 34, 159, 0, 1}
StackStreams  == Upto(StackAlphabet, 4) \cup SpecVectors

\* Operand decoding: breg0/bregx/fbreg/regx/constu/consts with one- and
\* two-byte LEB operands (0x81 continues), reg0, nop, deref (unsupported).
OperandAlphabet == {112, 120, 145, 146, 144, 80, 16, 17, 129, 1, 6, 150, 159, 127}
OperandStreams  == Upto(OperandAlphabet, 4) \cup SpecVectors

\* Both families together: the streams the refinement is checked on.
MainStreams == StackStreams \cup OperandStreams

\* As StackStreams, with DW_OP_minus (0x1c).
MinusStreams == Upto({49, 51, 156, 28, 22}, 3)

\* As OperandStreams, with DW_OP_const1u (0x08) followed by its operand.
ConstStreams == { <<8, b>> : b \in {0, 1, 120} } \cup {<<8, 1, 159>>}

(***************************************************************************)
(* The CFA rules of call frame information (CallFrameInfo in cfi.py): a    *)
(* register-plus-offset rule is stored as DW_OP_bregx with the register as *)
(* LEB and the offset as SLEB; the reader evaluates it with the machine.   *)
(* Registers up to one past a single LEB byte, offsets either side of the  *)
(* one-byte SLEB limits (-64 .. 63).                                       *)
(***************************************************************************)
CfiExpr(reg, offset) == <<146>> \o LEB!Encode(reg, FALSE) \o LEB!Encode(offset, TRUE)

CfiRules   == {0, 13, 127, 128} \X (-70..70)
CfiStreams == {CfiExpr(r[1], r[2]) : r \in CfiRules}

\* const1u .. const8s with the operand cut off: missing, or cut inside a
\* wider one.  constXX raises before it reads, and DWARF fails a cut-off
\* operand, so these fail both ways; a complete operand is expr_const's.
ConstCutStreams == {<<o>> : o \in 8..15} \cup {<<o, 1>> : o \in 10..15} \cup {<<49, 14, 1, 2>>}

\* Both stream families, the cut constants and the CFA rules: the streams
\* of the main run.
MainCfiStreams == MainStreams \cup ConstCutStreams \cup CfiStreams

(***************************************************************************)
(* A CFA rule register + offset, stored by cfi.py and evaluated by         *)
(* CallFrameAddress.get_expression, is the address get_reg(register) +    *)
(* offset and needs neither the frame base nor the CFA.                    *)
(***************************************************************************)
CfaRuleIsRegisterPlusOffset ==
    status # "running" =>
        \A r \in CfiRules :
            expr = CfiExpr(r[1], r[2]) =>
            /\ status = "returned"
            /\ result.is_address /\ ~result.uses_frame /\ ~result.uses_cfa
            /\ Meaning(result.expression) = LinPlus(<<"reg", r[1]>>, r[2])


(***************************************************************************)
(* LEB.encode / SLEB.encode against LEB.decode / SLEB.decode and against  *)
(* the definition of the shortest encoding, over values either side of   *)
(* every byte-count boundary (encode_iter raises ValueError for a         *)
(* negative unsigned value, which is not given).  The bytes encode_iter   *)
(* yields decode, with the same class, to the value and end exactly at    *)
(* its last byte, and there are no more of them than the value needs: the *)
(* DW_OP_bregx operands cfi.py writes mean what cfi.py meant them to.     *)
(* A constant: it is evaluated in the states of the empty stream only.   *)
(***************************************************************************)
LebValues == (-200..200) \cup {8191, 8192, -8192, -8193, 16383, 16384,
                                2^20 - 1, 2^20, -(2^20), -(2^20) - 1}

Fits(v, k, s) == IF s THEN -(2^(7 * k - 1)) <= v /\ v < 2^(7 * k - 1)
                 ELSE v < 2^(7 * k)
ShortestLength(v, s) == CHOOSE k \in 1..4 : Fits(v, k, s) /\ ~(k > 1 /\ Fits(v, k - 1, s))

EncodeInvertsDecode ==
    expr = << >> =>
        \A value \in LebValues, signed \in BOOLEAN :
            value >= 0 \/ signed =>
                LET bytes == LEB!Encode(value, signed)
                    back  == LEB!Decode(bytes, 0, signed)
                IN  /\ \A i \in 1..Len(bytes) : bytes[i] \in 0..255
                    /\ back.ok /\ back.val = value /\ back.pos = Len(bytes)
                    /\ Len(bytes) = ShortestLength(value, signed)

=============================================================================
