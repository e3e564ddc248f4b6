----------------------------- MODULE MCReading -----------------------------
(* Small readings: unsure, nearly sure and sure models, amounts spelt in several ways. *)
EXTENDS Reading

D(n, p) == [digits |-> n, places |-> p]

Amounts == {D(15, 1), D(150, 2), D(1, 0), D(-1, 0), D(505, 3)}
Totals == {D(15, 1), D(1500, 3), D(2, 0), D(200, 2), D(0, 0), D(1010, 3)}
Confident(x, y) == [f \in Critical |-> IF f = "currency" THEN Absent ELSE IF f = "total" THEN x ELSE y]
Line == [amount : Amounts, confidence : {3}]
Lines == {<<>>} \cup {<<l>> : l \in Line} \cup {<<l, m>> : l, m \in Line}

\* Sure of everything, whatever it adds up to; or one line, and sure of less.
Readings ==
  [currency : {"JPY", "USD", "KWD"}, number : {1}, total : Totals, tax : {Absent, D(5, 1)},
   lines : Lines, confidence : {Confident(3, 3)}]
  \cup
  [currency : {"USD", "KWD"}, number : {1, 2}, total : {D(15, 1), D(1500, 3), D(150, 2)}, tax : {Absent},
   lines : {<<[amount |-> D(15, 1), confidence |-> c]>> : c \in {1, 2, 3}},
   confidence : {Confident(x, y) : x, y \in {Absent, 3}} \cup {Confident(2, 3), Confident(3, 1)}]
=============================================================================
