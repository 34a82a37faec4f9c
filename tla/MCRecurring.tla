----------------------------- MODULE MCRecurring -----------------------------
(* One supplier and one cost center that templates refer to, one supplier   *)
(* more; two templates, both of the last day of January.                    *)
EXTENDS Recurring, TLC

CONSTANTS c1, c2, s1, s2, k1, t1, t2, n1, n2, e1

MCCaller == {c1, c2}
MCEntity == {s1, s2, k1}
MCKindOf == [x \in MCEntity |-> IF x = k1 THEN "costCenter" ELSE "supplier"]
MCInitially == {s1, k1}
MCNameOf == [x \in MCInitially |-> n1]
MCFile == {<<[name |-> n2, email |-> Missing]>>,
           <<[name |-> n2, email |-> e1], [name |-> n2, email |-> None]>>}
MCRefs == [t \in {t1, t2} |-> {s1, k1}]
MCCadence == [t \in {t1, t2} |-> IF t = t1 THEN "MONTHLY" ELSE "QUARTERLY"]
January == 2026 * 12
MCStarts == {[month |-> January, day |-> 31]}
MCCalendar == <<[month |-> January, day |-> 31], [month |-> January + 1, day |-> 28]>>
MCSymmetry == Permutations(MCCaller)
=============================================================================
