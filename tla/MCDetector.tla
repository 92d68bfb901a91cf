---------------------------- MODULE MCDetector ----------------------------
(***************************************************************************)
(* Rules of each kind over every log of up to MaxEvents of these events,   *)
(* in every input order.                                                   *)
(***************************************************************************)
EXTENDS Detector

Absent == "none"
E(ts, is, user) == [ts |-> ts, is |-> is, user |-> user]

MCEvents == {E(1, {"fail"}, "u"), E(1, {"fail"}, "v"), E(2, {"fail"}, "u"),
             E(3, {"fail"}, "u"), E(4, {"fail"}, "u"), E(3, {"ok", "fail"}, "u"),
             E(4, {"ok"}, "u"), E(2, {"fail"}, Absent), E(4, {"ok"}, Absent)}

MCMatches(f, e) == f \in e.is
MCField(name, e) == e.user

Rule(id, kind, steps, n, by) ==
    [id |-> id, kind |-> kind, steps |-> steps, threshold |-> n, window |-> 2, by |-> by]
MCRules == <<Rule("A", "atomic", <<"ok">>, 0, Absent),
             Rule("T0", "threshold", <<"ok">>, 0, "user"),
             Rule("T2", "threshold", <<"fail">>, 2, "user"),
             Rule("T3", "threshold", <<"fail">>, 3, Absent),
             Rule("C", "chain", <<"fail", "ok">>, 0, "user")>>
=============================================================================
