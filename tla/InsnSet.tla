------------------------------ MODULE InsnSet ------------------------------
(***************************************************************************)
(* The instruction-kind map of cachereader/insnset.py and the range memo  *)
(* of common/deco.py that InsnSet.get_kind_range is decorated with.       *)
(*                                                                         *)
(* The insnset table of a cache is a set of <<addr, kind>> rows, one per  *)
(* mapping symbol the builder kept (cachebuilder/insnset.py), at distinct *)
(* addresses.  memo is the part of rangecachedfn's dict whose keys carry  *)
(* the InsnSet of the reader session in use: addr -> kind.                *)
(***************************************************************************)
EXTENDS Integers, FiniteSets, TLC

CONSTANTS
    Addrs           \* the addresses get_kind is asked about

VARIABLE memo

Kinds == {"arm", "thumb", "arm64", "nocode"}

\* The "+ 32" get_kind_range adds past the last mapping symbol.
Slack == 32

EmptyMemo == [x \in {} |-> "nocode"]

(***************************************************************************)
(* get_kind_range(addr): the row with the greatest addr <= addr (its kind *)
(* and address, or nocode from 0), and the least row address above addr  *)
(* (or addr + 32).                                                         *)
(***************************************************************************)
KindRange(table, a) ==
    LET below == {m \in table : m[1] <= a}
        above == {m[1] : m \in {n \in table : a < n[1]}}
        res   == {m \in below : \A n \in below : n[1] <= m[1]}
    IN  [kind |-> IF res = {} THEN "nocode" ELSE (CHOOSE m \in res : TRUE)[2],
         lo   |-> IF res = {} THEN 0 ELSE (CHOOSE m \in res : TRUE)[1],
         hi   |-> IF above = {} THEN a + Slack
                  ELSE CHOOSE h \in above : \A x \in above : h <= x]

(***************************************************************************)
(* rangecachedfn's wrapper around get_kind_range, called by get_kind: a   *)
(* hit returns the memoized kind; a miss calls get_kind_range and, as hi  *)
(* is set, stores its kind for every address of range(lo, hi), replacing  *)
(* what was there.                                                         *)
(***************************************************************************)
Memoize(table, a) ==
    IF a \in DOMAIN memo THEN UNCHANGED memo
    ELSE LET r == KindRange(table, a) IN
         memo' = IF r.hi # 0 THEN [i \in r.lo..(r.hi - 1) |-> r.kind] @@ memo
                 ELSE (a :> r.kind) @@ memo

\* The spec's lookup (section 3): the kind of the last range whose low is
\* <= the address, no code before the first.
KindAt(table, a) ==
    IF \A m \in table : m[1] > a THEN "nocode"
    ELSE CHOOSE k \in Kinds : \E m \in table :
            /\ m = <<m[1], k>> /\ m[1] <= a
            /\ \A n \in table : n[1] <= a => n[1] <= m[1]

====
