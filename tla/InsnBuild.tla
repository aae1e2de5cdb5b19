------------------------------ MODULE InsnBuild ------------------------------
(***************************************************************************)
(* The builder's instruction-kind pass (cachebuilder/insnset.py InsnSet): *)
(* the mapping symbols of every symbol-table section become rows          *)
(* <<addr2fo(st_value), kind>> of table insnset, which the reader's       *)
(* get_kind_range (InsnSet.KindRange) answers from.                       *)
(*                                                                         *)
(* Symbols are as in AddrSpec: [name |-> <<lead, rest>>, value, type],     *)
(* lead the prefix startswith tests.                                       *)
(***************************************************************************)
EXTENDS AddrSpec, InsnSet

LOCAL INSTANCE SequencesExt

\* Mutant: get_kind without the linker's __dl_ forms.
KindOfNoDl(lead) ==
    CASE lead = "$x" -> "arm64"
      [] lead = "$a" -> "arm"
      [] lead = "$t" -> "thumb"
      [] OTHER       -> "nocode"

\* get_kind: the kind a mapping symbol's prefix names; $d (data) is nocode.
KindOf(lead) ==
    CASE lead \in {"$x", "__dl_$x"} -> "arm64"
      [] lead \in {"$a", "__dl_$a"} -> "arm"
      [] lead \in {"$t", "__dl_$t"} -> "thumb"
      [] OTHER                      -> "nocode"

\* mapsymbol_iter: the symbols of every symbol-table section whose name
\* starts with a mapping prefix, with or without __dl_.
IsMappingSymbol(s) == s.name[1] \in MappingLeads \cup DlMappingLeads

\* iter_mapping and store: a row per mapping symbol whose value addr2fo
\* translates; the others are dropped (except ValueError: pass).
BuildInsnSet(secs, symsects) ==
    LET maps == SelectSeq(FlattenSeq(symsects), IsMappingSymbol)
    IN  {<<Addr2Fo(secs, maps[i].value), KindOf(maps[i].name[1])>> :
            i \in {i \in DOMAIN maps : Addr2Fo(secs, maps[i].value) # Invalid}}

\* The ARM ELF ABI's mapping symbols, as the spec names their kinds: $a
\* ARM, $t Thumb, $x A64, $d data; the linker's __dl_ copies alike.
AbiKind == ("$a" :> "arm") @@ ("$t" :> "thumb") @@ ("$x" :> "arm64") @@ ("$d" :> "nocode") @@
           ("__dl_$a" :> "arm") @@ ("__dl_$t" :> "thumb") @@ ("__dl_$x" :> "arm64") @@
           ("__dl_$d" :> "nocode")

(***************************************************************************)
(* The spec's instruction-kind lookup (section 3), in the address space:  *)
(* the kind of the last mapping symbol at or before the address, nocode   *)
(* before the first.  Defined when the last one is unique in kind.        *)
(***************************************************************************)
LastMappingKinds(symsects, a) ==
    LET maps  == {s \in ToSet(FlattenSeq(symsects)) : IsMappingSymbol(s) /\ s.value <= a}
        last  == {s \in maps : \A t \in maps : t.value <= s.value}
    IN  IF maps = {} THEN {"nocode"} ELSE {AbiKind[s.name[1]] : s \in last}

(***************************************************************************)
(* An instruction at address a of a loaded section, asked at its file     *)
(* offset, gets from get_kind_range the kind of the last mapping symbol   *)
(* at or before a, and every row "order by addr desc limit 1" may pick    *)
(* there carries that kind: the builder's prefixes and its closed         *)
(* addr2fo, composed with the reader's greatest-row-below lookup, keep    *)
(* the order of the symbols.                                              *)
(***************************************************************************)
KindOfLastMappingSymbol(secs, symsects, addrs) ==
    \A t \in {BuildInsnSet(secs, symsects)} :
      \A a \in addrs :
        LET fo    == InstructionOffset(secs, a)
            below == {m \in t : m[1] <= fo}
            top   == {m \in below : \A n \in below : n[1] <= m[1]}
        IN  (fo # Invalid /\ Cardinality(LastMappingKinds(symsects, a)) = 1) =>
              /\ {KindRange(t, fo).kind} = LastMappingKinds(symsects, a)
              /\ \A m \in top : {m[2]} = LastMappingKinds(symsects, a)

====
