----------------------------- MODULE MCPayments -----------------------------
(* Small instances of Payments: four payments of two accounts. *)
EXTENDS Payments, TLC

CONSTANTS alice, bob, s1, s2, y1, y2, natal, month, year, legacy

MCDays == month :> 1 @@ year :> 2
\* bob pays y2, alice the others.
MCBuyer == [p \in Payments |-> IF p = y2 THEN bob ELSE alice]
\* y1 buys a reading, s2 a product that has left the catalogue, the others a month.
MCProduct ==
  [p \in Payments |-> CASE p = y1 -> natal [] p = s2 -> legacy [] OTHER -> month]
=============================================================================
