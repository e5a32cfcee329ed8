-------------------------------- MODULE Prices --------------------------------
(* What a product costs: overrides in Redis over the catalogue
   (services/payments/pricing.py), the list, the invoice, the payment and its
   receipt (stars.py, yukassa.py), the row, the refund and the revocation
   (admin.py) and the operator's ledger of stars (admin_stars.py), for one
   product. Who may be granted what and when is Payments. *)
EXTENDS Integers, Sequences, Functions

CONSTANTS
  PrCatalogues,   \* [xtr, rub, type]: PRODUCTS; no rubles is 0
  PrAmounts,      \* what operators type into the form
  PrOperators,
  StarsLimit,     \* transactions Telegram is asked for
  MaxInvoices, MaxPriceEdits   \* bounds

ASSUME PricesAssumption ==
  /\ \A c \in PrCatalogues : c \in [xtr : Nat, rub : Nat, type : {"subscription", "one_time"}]
  /\ PrAmounts \subseteq Nat /\ StarsLimit \in Nat

Currencies == {"xtr", "rub"}

VARIABLES
  prCatalogue,
  prOverride,   \* currency -> <<shape, amount>> in Redis
  prEdits,      \* changes of price so far
  prList,       \* the list the buyer looks at and the edits it has seen
  prInvoices,   \* created at Telegram or YooKassa, which know what was returned
  prRows,       \* invoice -> its row: amount recorded, status
  prRefunds,    \* accepted by YooKassa
  prStars,      \* Telegram's transactions: of which invoice, in or out
  prOps         \* operator -> the row he has asked a refund for
prVars == <<prCatalogue, prOverride, prEdits, prList, prInvoices, prRows, prRefunds, prStars, prOps>>

-----------------------------------------------------------------------------
(* Prices *)

(* A number, text that reads as one, or the older record; at least 1. *)
Override(c) ==
  IF prOverride[c][1] # "none" /\ prOverride[c][2] >= 1 THEN prOverride[c][2] ELSE 0
Price(c) == IF Override(c) > 0 THEN Override(c) ELSE prCatalogue[c]
PrPrices == [c \in Currencies |-> Price(c)]

PrInit ==
  /\ prCatalogue \in PrCatalogues
  /\ prOverride \in [xtr : {<<"none", 0>>, <<"stars", 2>>}, rub : {<<"none", 0>>, <<"text", 0>>}]
  /\ prEdits = 0 /\ prList = [prices |-> PrPrices, edits |-> 0]
  /\ prInvoices = <<>> /\ prRows = <<>> /\ prRefunds = <<>> /\ prStars = <<>>
  /\ prOps = [o \in PrOperators |-> 0]

(* The form and the handler refuse less than 1. *)
Typed(n) == n >= 1
Edit(c, value) ==
  /\ prEdits < MaxPriceEdits /\ prEdits' = prEdits + 1
  /\ prOverride' = [prOverride EXCEPT ![c] = value]
  /\ UNCHANGED <<prCatalogue, prList, prInvoices, prRows, prRefunds, prStars, prOps>>
SetPrice(c, n) == Typed(n) /\ Edit(c, <<"int", n>>)
ClearPrice(c) == Edit(c, <<"none", 0>>)   \* by an operator, or after a year

(* list_products *)
ListProducts ==
  /\ prList' = [prices |-> PrPrices, edits |-> prEdits]
  /\ UNCHANGED <<prCatalogue, prOverride, prEdits, prInvoices, prRows, prRefunds, prStars, prOps>>

-----------------------------------------------------------------------------
(* Paying: the buyer names the product, never the price. An answer that is lost
   leaves a payment nobody has the address of. *)
AskedFor_Catalogue(c) == prCatalogue[c]
AskedFor(c) == Price(c)
Receipt(amount) == [items |-> <<amount>>, mode |-> "full_prepayment"]
Invoice(c) ==
  [currency |-> c, asked |-> AskedFor(c), receipt |-> Receipt(AskedFor(c)), listed |-> prList.prices[c],
   changed |-> prEdits # prList.edits, paid |-> FALSE, returned |-> 0]
CreateAt(c) ==
  /\ Len(prInvoices) < MaxInvoices /\ AskedFor(c) > 0
  /\ prInvoices' = Append(prInvoices, Invoice(c)) /\ prRows' = Append(prRows, {})
  /\ UNCHANGED <<prCatalogue, prOverride, prEdits, prList, prRefunds, prStars, prOps>>
CreateInvoice == CreateAt("xtr")
CreateYukassaPayment == CreateAt("rub")

PayInvoice(i) ==
  /\ i \in DOMAIN prInvoices /\ ~prInvoices[i].paid
  /\ prInvoices' = [prInvoices EXCEPT ![i].paid = TRUE]
  /\ prStars' = IF prInvoices[i].currency = "xtr" THEN Append(prStars, i) ELSE prStars
  /\ UNCHANGED <<prCatalogue, prOverride, prEdits, prList, prRows, prRefunds, prOps>>

(* The webhooks: rubles as the provider tells them, in hundredths; stars as the
   catalogue has them. *)
Recorded(i) == IF prInvoices[i].currency = "rub" THEN prInvoices[i].asked * 100 ELSE prCatalogue["xtr"]
GrantRow(i) ==
  /\ i \in DOMAIN prInvoices /\ prInvoices[i].paid /\ prRows[i] = {}
  /\ prRows' = [prRows EXCEPT ![i] = {[amount |-> Recorded(i), status |-> "live"]}]
  /\ UNCHANGED <<prCatalogue, prOverride, prEdits, prList, prInvoices, prRefunds, prStars, prOps>>

-----------------------------------------------------------------------------
(* Refunds *)

Returned(i) == prInvoices[i].returned
GatewayReturns(i, amount) ==
  /\ amount > 0 /\ Returned(i) + amount <= prInvoices[i].asked
  /\ prInvoices' = [prInvoices EXCEPT ![i].returned = @ + amount]
  /\ prRefunds' = Append(prRefunds, [invoice |-> i, amount |-> amount, receipt |-> Receipt(amount)])
(* Stars go back whole, by Telegram's method and outside this program. *)
StarsReturned(i) ==
  /\ i \in DOMAIN prInvoices /\ prInvoices[i].paid /\ prInvoices[i].currency = "xtr" /\ Returned(i) = 0
  /\ prInvoices' = [prInvoices EXCEPT ![i].returned = prInvoices[i].asked] /\ prStars' = Append(prStars, i)
  /\ UNCHANGED <<prCatalogue, prOverride, prEdits, prList, prRows, prRefunds, prOps>>
CabinetReturns(i, amount) ==
  /\ i \in DOMAIN prInvoices /\ prInvoices[i].paid /\ prInvoices[i].currency = "rub"
  /\ GatewayReturns(i, amount)
  /\ UNCHANGED <<prCatalogue, prOverride, prEdits, prList, prRows, prStars, prOps>>

(* refund_yukassa: the row's rubles. What is refused is skipped; so is a refund
   whose answer is lost. *)
Due_Today(row) == Price("rub")
Due(row) == row.amount \div 100
AskRefund(o, i) ==
  /\ prOps[o] = 0 /\ i \in DOMAIN prInvoices /\ prInvoices[i].currency = "rub"
  /\ \E row \in prRows[i] :
       /\ row.status = "live" /\ Due(row) > 0 /\ GatewayReturns(i, Due(row))
       /\ prOps' \in {[prOps EXCEPT ![o] = i], prOps}
  /\ UNCHANGED <<prCatalogue, prOverride, prEdits, prList, prRows, prStars>>
(* A purchase is REFUNDED. A subscription is CANCELLED, and its time is cut if
   that is for a refund. *)
Ended(rows, from, how) == {[row EXCEPT !.status = IF @ \in from THEN how ELSE @] : row \in rows}
Statuses == {"live", "refunded", "revoked"}
CommitRefund(o) ==
  /\ prOps[o] # 0 /\ prOps' = [prOps EXCEPT ![o] = 0]
  /\ prRows' = [prRows EXCEPT ![prOps[o]] = Ended(@, Statuses, "refunded")]
  /\ UNCHANGED <<prCatalogue, prOverride, prEdits, prList, prInvoices, prRefunds, prStars>>
(* refund.succeeded, whatever part it was. *)
RefundNotice(i) ==
  /\ i \in DOMAIN prInvoices /\ Returned(i) > 0
  /\ prRows' = [prRows EXCEPT ![i] = Ended(@, {"live"}, "refunded")]
  /\ UNCHANGED <<prCatalogue, prOverride, prEdits, prList, prInvoices, prRefunds, prStars, prOps>>

(* revoke_premium: every active subscription of the users picked; nothing is
   paid back. *)
RevokePremium(picked) ==
  /\ prCatalogue.type = "subscription"
  /\ prRows' = [i \in DOMAIN prRows |-> IF i \in picked THEN Ended(prRows[i], {"live"}, "revoked") ELSE prRows[i]]
  /\ UNCHANGED <<prCatalogue, prOverride, prEdits, prList, prInvoices, prRefunds, prStars, prOps>>

PrNext ==
  \/ \E c \in Currencies, n \in PrAmounts : SetPrice(c, n)
  \/ \E c \in Currencies : ClearPrice(c)
  \/ ListProducts \/ CreateInvoice \/ CreateYukassaPayment
  \/ \E i \in 1..MaxInvoices :
       \/ PayInvoice(i) \/ GrantRow(i) \/ RefundNotice(i) \/ StarsReturned(i)
       \/ \E n \in PrAmounts : CabinetReturns(i, n)
       \/ \E o \in PrOperators : AskRefund(o, i)
  \/ \E o \in PrOperators : CommitRefund(o)
  \/ \E picked \in SUBSET (1..MaxInvoices) : RevokePremium(picked)
PrSpec == PrInit /\ [][PrNext]_prVars

-----------------------------------------------------------------------------
(* stars_overview: what Telegram answers when it is asked for StarsLimit
   transactions, of one end or the other. Whether stars came or went is not
   looked at; a refund has the charge id of its payment. *)
StarsAnswers ==
  {{k \in DOMAIN prStars : k <= StarsLimit}, {k \in DOMAIN prStars : k > Len(prStars) - StarsLimit}}
StarsTotal(shown) == SumFunction([k \in shown |-> prInvoices[prStars[k]].asked])
Unmatched(shown) == {k \in shown : prRows[prStars[k]] = {}}
RowStars(i) == IF prRows[i] = {} THEN prCatalogue["xtr"] ELSE (CHOOSE row \in prRows[i] : TRUE).amount

(* Between the list, the invoice, the payment, the row and the refund any price
   may change, and yet: the buyer is asked the listed price unless it was changed
   since he listed it; receipts say what is charged; a refund by an operator is
   of the whole payment, so that with the cabinet's no payment is returned more
   than once; a row is refunded only if money went back, and else ended only by
   an operator who revokes a subscription. The ledger of stars leaves no row out
   until there are more transactions than it asks for; what it shows without a
   row has not been granted; and its total, in which a refund counts the payment
   again, is that of the rows but for the overrides of the day. *)
AmountsAgree ==
  /\ \A i \in DOMAIN prInvoices :
       LET inv == prInvoices[i] IN
       /\ ~inv.changed => inv.asked = inv.listed
       /\ inv.receipt.items = <<inv.asked>>
       /\ Returned(i) <= inv.asked
       /\ \A row \in prRows[i] :
            /\ inv.currency = "rub" => row.amount = inv.asked * 100 /\ Due(row) = inv.asked
            /\ row.status = "refunded" => Returned(i) > 0
            /\ row.status = "revoked" => prCatalogue.type = "subscription"
  /\ \A o \in PrOperators : prOps[o] # 0 => Returned(prOps[o]) = prInvoices[prOps[o]].asked
  /\ \A k \in DOMAIN prRefunds : prRefunds[k].receipt.items = <<prRefunds[k].amount>>
  /\ \A shown \in StarsAnswers :
       /\ Len(prStars) <= StarsLimit =>
            \A i \in DOMAIN prInvoices :
              prInvoices[i].currency = "xtr" /\ prRows[i] # {} => \E k \in shown \ Unmatched(shown) : prStars[k] = i
       /\ \A k \in Unmatched(shown) : prInvoices[prStars[k]].paid
       /\ (\A k \in shown : prInvoices[prStars[k]].asked = prCatalogue["xtr"]) =>
            StarsTotal(shown) = SumFunction([k \in shown |-> RowStars(prStars[k])])
=============================================================================
