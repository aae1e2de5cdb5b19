----------------------------- MODULE LinearForm -----------------------------
(***************************************************************************)
(* What a generated C location expression computes: an integer linear     *)
(* combination of the run-time symbols it mentions plus a constant.  A     *)
(* form is a function from atoms to non-zero coefficients, so two forms    *)
(* are equal exactly when the expressions compute the same byte address   *)
(* or value.  Atoms: <<"one", 0>> (the constant), <<"reg", n>>             *)
(* (get_reg(n)), <<"frame", 0>> (__adbi_frame__), <<"cfa", 0>>             *)
(* (__adbi_cfa__).                                                         *)
(***************************************************************************)
EXTENDS Integers, TLC

One  == <<"one", 0>>
Zero == [a \in {} |-> 0]

Coef(f, a) == IF a \in DOMAIN f THEN f[a] ELSE 0

LinAdd(f, g) ==
    LET sum(a) == Coef(f, a) + Coef(g, a)
    IN  [a \in {x \in DOMAIN f \cup DOMAIN g : sum(x) # 0} |-> sum(a)]

LinNeg(f)     == [a \in DOMAIN f |-> - f[a]]
LinConst(c)   == IF c = 0 THEN Zero ELSE One :> c
LinAtom(a)    == a :> 1
LinPlus(a, c) == LinAdd(LinAtom(a), LinConst(c))

=============================================================================
