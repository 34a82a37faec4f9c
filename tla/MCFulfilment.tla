---------------------------- MODULE MCFulfilment ----------------------------
(***************************************************************************)
(* One order with a goods line g (three ordered) and a service line s, and *)
(* a second order with a goods line h.                                     *)
(***************************************************************************)
EXTENDS Fulfilment, TLC

MCPO == {"p", "q"}
MCLine == {"g", "s", "h"}
MCPoOf == "g" :> "p" @@ "s" :> "p" @@ "h" :> "q"
MCPoLine == "g" :> [kind |-> "GOODS", ordered |-> 3, price |-> 5]
         @@ "s" :> [kind |-> "SERVICE", ordered |-> 1, price |-> 2]
         @@ "h" :> [kind |-> "GOODS", ordered |-> 1, price |-> 1]

Bill(g, s, h) == "g" :> g @@ "s" :> s @@ "h" :> h

Invoice(p, n, ls, b, c) ==
  [po |-> p, number |-> n, lines |-> ls, billed |-> b, clean |-> c, safe |-> TRUE]

(* Two invoices whose goods may both be covered but whose services cannot, *)
(* one that reuses a number and may be matched instead of the second, and  *)
(* one on the other order that also bills a line of the first.             *)
MCDoc ==
     "i1" :> Invoice("p", "n1", {"g", "s"}, Bill(2, 1, 0), TRUE)
  @@ "i2" :> Invoice("p", "n2", {"g", "s"}, Bill(1, 2, 0), TRUE)
  @@ "i3" :> Invoice("p", "n2", {"g"}, Bill(1, 0, 0), FALSE)
  @@ "i4" :> Invoice("q", "n3", {"h", "g"}, Bill(1, 0, 1), TRUE)
MCInv == DOMAIN MCDoc

Receipt(p, ls, g, h, acc) ==
  [po |-> p, lines |-> ls, qty |-> Bill(g, 0, h), accepted |-> acc]

MCDelivery == {Receipt("p", {"g"}, 1, 0, {}), Receipt("q", {"h"}, 0, 1, {}),
               Receipt("p", {"g", "s"}, 2, 0, {"s"}), Receipt("p", {"s"}, 0, 0, {"s"}),
               Receipt("p", {"s"}, 0, 0, {})}

(* Calls differ in nothing but their name; the checked properties are safety. *)
TxSymmetry == Permutations(Tx)

MCUser == {"fay", "meg"}
MCRole == "fay" :> "FINANCE" @@ "meg" :> "MANAGER"
=============================================================================
