------------------------------ MODULE CallFrame ------------------------------
(***************************************************************************)
(* Call frame information from the FDE tables to the reader's answer:     *)
(* the builder's iter_entries (cachebuilder/cfi.py CallFrameInfo), which  *)
(* turns every row of every decoded FDE table into a (lo, hi, expr) row    *)
(* of the cfi table, and the reader's get_expression_code                  *)
(* (cachereader/cfa.py CallFrameAddress), which selects a row with         *)
(* lo <= addr < hi.                                                        *)
(*                                                                         *)
(* The build fixes these, so they are operators over:                     *)
(*   secs    the section table, as in VarScope;                            *)
(*   hasCfi  whether the ELF has call frame information;                   *)
(*   ents    CFI_entries() in order: [isFde, low, range, rows], rows the   *)
(*           decoded table, a sequence of [pc, cfa]; a CFA rule is         *)
(*           [expr |-> e] for a DWARF expression, or [reg, offset].        *)
(***************************************************************************)
EXTENDS VarScope

LOCAL LEB == INSTANCE LEB128
LOCAL INSTANCE SequencesExt

\* An answer of get_expression_code: the bytes, or KeyError (ok = FALSE).
Code(bytes) == [ok |-> TRUE, code |-> bytes]
KeyError    == [ok |-> FALSE, code |-> << >>]

\* b64encode and b64decode: the column holds the text of the bytes, and
\* decoding that text gives the bytes back.
B64Encode(bytes) == [b64 |-> bytes]
B64Decode(text)  == text.b64

\* A register + offset rule becomes DW_OP_bregx (0x92) with the register
\* as LEB and the offset as SLEB; an expression rule is kept as it is.
RuleExpr(rule) ==
    IF "expr" \in DOMAIN rule
    THEN rule.expr
    ELSE <<146>> \o LEB!Encode(rule.reg, FALSE) \o LEB!Encode(rule.offset, TRUE)

\* Mutant: every row of an FDE taken to run to the FDE's end.
RowEndAlwaysHigh(fde, n) == fde.low + fde.range

\* The end of row n: the next row's pc, or low + address_range for the
\* last row (n >= len(decoded) - 1, counting from 0).
RowEnd(fde, n) ==
    IF n >= Len(fde.rows) THEN fde.low + fde.range ELSE fde.rows[n + 1].pc

\* A row whose pc or end addr2fo rejects is skipped (invalid = True;
\* continue); the warning it leads to is only logged.
RowTranslates(secs, fde, n) ==
    /\ Addr2Fo(secs, fde.rows[n].pc) # Invalid
    /\ Addr2Fo(secs, RowEnd(fde, n)) # Invalid

\* The entries one FDE yields, in table order.
FdeEntries(secs, fde) ==
    LET kept == SelectSeq([n \in DOMAIN fde.rows |-> n],
                          LAMBDA n : RowTranslates(secs, fde, n))
    IN  [k \in DOMAIN kept |->
            [lo   |-> Addr2Fo(secs, fde.rows[kept[k]].pc),
             hi   |-> Addr2Fo(secs, RowEnd(fde, kept[k])),
             expr |-> B64Encode(RuleExpr(fde.rows[kept[k]].cfa))]]

\* self.entries = list(iter_entries()), stored as the rows of table cfi:
\* nothing without CFI, and CIEs skipped.
CfiEntries(secs, hasCfi, ents) ==
    IF ~hasCfi
    THEN << >>
    ELSE FlattenSeq([i \in DOMAIN ents |->
                        IF ents[i].isFde THEN FdeEntries(secs, ents[i]) ELSE << >>])

\* get_expression_code: "select expr from cfi where lo <= ? and ? < hi
\* limit 1" has no order, so it may answer any matching row; KeyError
\* when none matches.  The result is the set of answers it may give.
GetExpressionCode(cfi, addr) ==
    LET hits == {i \in DOMAIN cfi : cfi[i].lo <= addr /\ addr < cfi[i].hi}
    IN  IF hits = {} THEN {KeyError} ELSE {Code(B64Decode(cfi[i].expr)) : i \in hits}

(***************************************************************************)
(* An FDE that lies inside one allocated section, with its rows' pcs      *)
(* increasing from low and below low + address_range.                     *)
(***************************************************************************)
FdeWellFormed(secs, fde) ==
    /\ fde.isFde
    /\ fde.rows # << >> /\ fde.rows[1].pc = fde.low
    /\ \A n \in 1..(Len(fde.rows) - 1) : fde.rows[n].pc < fde.rows[n + 1].pc
    /\ Last(fde.rows).pc < fde.low + fde.range
    /\ \E s \in DOMAIN secs : /\ secs[s].alloc
                              /\ secs[s].addr <= fde.low
                              /\ fde.low + fde.range <= secs[s].addr + secs[s].size

(***************************************************************************)
(* Every instruction of a well-formed FDE gets its row's CFA rule from    *)
(* CallFrameAddress.get_expression_code, asked at the instruction's file  *)
(* offset (its place in the half-open section that holds it), and no      *)
(* other rule: not KeyError, and not a second row that limit 1 could pick *)
(* instead.  This composes the row ends of iter_entries, the closed       *)
(* interval of addr2fo at both ends of a row, the skipped rows of FDEs    *)
(* that run past their section, and the reader's half-open lookup.        *)
(***************************************************************************)
CfaOfEveryInstruction(secs, inputs) ==
    \A ents \in inputs :
      \A cfi \in {CfiEntries(secs, TRUE, ents)} :
        \A i \in DOMAIN ents :
          FdeWellFormed(secs, ents[i]) =>
            \A n \in DOMAIN ents[i].rows :
              \A a \in ents[i].rows[n].pc..(RowEnd(ents[i], n) - 1) :
                InstructionOffset(secs, a) # Invalid =>
                  GetExpressionCode(cfi, InstructionOffset(secs, a))
                    = {Code(RuleExpr(ents[i].rows[n].cfa))}

====
