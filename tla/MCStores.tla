------------------------------- MODULE MCStores -------------------------------
(***************************************************************************)
(* Two modules and a plate or two of each class.                            *)
(***************************************************************************)
EXTENDS Stores

CONSTANTS m1, m2, two, four, out, bank, k1, k2

Rec(p, k, c, mode) == [plate |-> p, key |-> k, chan |-> c, mode |-> mode]
MCMods == {m1, m2}
MCPlates == {two, four, out, bank, k1, k2}
MCClass == [p \in MCPlates |->
    CASE p = two -> "two" [] p = four -> "four" [] p = out -> "logic"
      [] p = bank -> "bank" [] OTHER -> "code"]
MCTables == [m \in MCMods |->
    IF m = m1
    THEN {<<Rec(two, 0, 1, "pair"), Rec(four, 1, 1, "single")>>,
          <<Rec(four, 1, 2, "group"), Rec(two, 2, 1, "single")>>}
    ELSE {<<Rec(out, 1, 1, "single"), Rec(k1, 0, 1, "single"), Rec(k2, 1, 1, "single")>>,
          <<Rec(bank, 2, 1, "pair"), Rec(k1, 1, 2, "single")>>}]
Copy(p, k, c, mode, m) == [plate |-> p, key |-> k, chan |-> c, mode |-> mode, mod |-> m]
MCCopies == <<Copy(four, 0, 1, "single", m1), Copy(two, 1, 1, "pair", m1)>>
MCFound == {{two, four}, {two}}
MCCounts == {[m \in MCMods |-> 2], [m \in MCMods |-> IF m = m1 THEN 1 ELSE 0]}
MCOrder == <<"pc_link", m1, m2, "pc_logic">>
MCEditable == {<<m1, 2>>, <<two, 0>>}
=============================================================================
