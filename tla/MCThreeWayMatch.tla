-------------------------- MODULE MCThreeWayMatch ---------------------------
(* Two orders, two uploads in flight, every posted invoice of at most      *)
(* MaxLines lines.                                                         *)
EXTENDS InvoiceIntake, TLC

CONSTANTS MaxLines,    \* the longest posted invoice
          Ordered,     \* the quantity ordered on the lines of order "a"
          UnitPrices,  \* unit prices a posted line may state
          ServicePrice \* unit price of the service line

MCPO(o) ==
  IF o = "a" THEN "g" :> [kind |-> "GOODS", ordered |-> Ordered, price |-> 50, name |-> "paper"]
                  @@ "s" :> [kind |-> "SERVICE", ordered |-> Ordered, price |-> ServicePrice, name |-> "help"]
             ELSE "h" :> [kind |-> "GOODS", ordered |-> 2, price |-> 49, name |-> "paper"]

MCSeen(o) ==
  LET lines == DOMAIN PoLines(o)
      amount == [l \in lines |-> OrderedAmount(PoLines(o)[l])] IN
  {[received |-> [l \in lines |-> r], accepted |-> IF a THEN amount ELSE [l \in lines |-> 0],
    prior |-> [l \in lines |-> IF PoLines(o)[l].kind = "GOODS" THEN p ELSE q]] :
     r \in 0 .. Ordered, a \in BOOLEAN, p \in 0 .. 1, q \in {0, ServicePrice}}

PostedLines ==
  [ref : {"g", "h", NoLine}, qty : {1, 2}, unit : UnitPrices, amount : {NoAmount}]
    \cup [ref : {"s"}, qty : {0, 1, 2}, unit : {ServicePrice},
          amount : {NoAmount, 0, ServicePrice, 2 * ServicePrice}]

MCPosted == UNION {[1 .. n -> PostedLines] : n \in 0 .. MaxLines}

(* Raw lines: named, found by description, found by size, rounded,         *)
(* unreadable, with a total that disagrees, naming no line of the order.   *)
Raw(name, halves, price, total, ref) ==
  [name |-> name, halves |-> halves, price |-> price, total |-> total, ref |-> ref]

RawLines == {Raw("paper", 3, 51, NoAmount, NoLine), Raw("paper", 4, 50, 100, "s"),
             Raw("x", 2 * Ordered, 50, Unreadable, "unknown"), Raw("x", 2, 60, 70, "g"),
             Raw("help", 1, 50, 50, NoLine), Raw("vat", 2, 9, 9, NoLine),
             Raw(Blank, 2, 50, 50, "g"), Raw("help", 2, Unreadable, 50, "s")}

MCAnswers == {<<a, b>> : a, b \in RawLines} \cup {<<a, a, b>> : a, b \in RawLines} \cup {<<>>}

MCEdits == {[qty |-> 0, unit |-> 50], [qty |-> 3, unit |-> 70]}
=============================================================================
