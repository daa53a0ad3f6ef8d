------------------------------ MODULE SapPrices -------------------------------
(***************************************************************************)
(* The one SQL statement of sap/price_stock.go, common table expression by *)
(* common table expression, over an SAP Business One database db:          *)
(*   customers  OCRD: records [card, list, group, mode], one per card      *)
(*   items      OITM: a function from item codes to [firm, group]          *)
(*   prices     ITM1: a function from <<item, list>> to a price or Null    *)
(*   specials   OSPP: records [item, card, valid, from, to, list, price,   *)
(*              discount]                                                  *)
(*   rules      OEDG joined with EDG1: records [id, type, holder,          *)
(*              everyone, dated, from, to, on, key, pct]                   *)
(*   kits       OITT of type 'S' with ITT1: from item codes to children    *)
(*   stock      OITW: a function from <<item, warehouse>> to OnHand        *)
(* An item code is a number, so that it sorts as ORDER BY sorts it; prices *)
(* and percentages are whole numbers, and what a discount leaves is rounded *)
(* down. Null is a constant, so that it can be compared with anything.     *)
(***************************************************************************)
EXTENDS Integers, Sequences, FiniteSets, FiniteSetsExt, SequencesExt

CONSTANT Null

Known(values) == values \ {Null}

RuleTypes == <<"A", "C", "S">>

\* What SAP's tables are: finite, with a number or NULL in a numeric column and
\* a card code for each customer.
IsSapDatabase(db) ==
  /\ \A c, d \in db.customers : c.card = d.card => c = d
  /\ DOMAIN db.items \subseteq Int /\ IsFiniteSet(DOMAIN db.items)
  /\ IsFiniteSet(db.specials)
  /\ \A s \in db.specials : {s.price, s.discount} \subseteq Int \cup {Null}
  /\ IsFiniteSet(db.rules)
  /\ \A e \in db.rules : e.type \in Range(RuleTypes) /\ e.pct \in Int \cup {Null}
  /\ IsFiniteSet(DOMAIN db.stock)
  /\ \A w \in DOMAIN db.stock : db.stock[w] \in Int \cup {Null}

\* The comparisons of a validity period, where NULL is an open end.
InForce(asOf, from, to) ==
  /\ from = Null \/ from <= asOf
  /\ to = Null \/ to >= asOf

\* Cust and CustGroup: a request for an unknown card finds none.
Customers(db, q) == {c \in db.customers : c.card = q.card}
Customer(db, q) == CHOOSE c \in Customers(db, q) : TRUE

BasePrice(db, q) ==
  [i \in {i \in q.skus \cap DOMAIN db.items :
            \E c \in Customers(db, q) : <<i, c.list>> \in DOMAIN db.prices}
     |-> db.prices[<<i, Customer(db, q).list>>]]

\* SpecialPrice with its join condition.
SpecialPrice(db, q, i) ==
  {s \in db.specials :
     /\ s.item = i
     /\ s.card = q.card
     /\ s.valid
     /\ InForce(q.asOf, s.from, s.to)
     /\ s.list = Null \/ s.list = Customer(db, q).list}

RuleInForce(e, asOf) == e.dated => InForce(asOf, e.from, e.to)

AllDiscountRules(db, q, i) ==
  {e \in db.rules :
     /\ \/ e.type = "S" /\ e.holder = q.card
        \/ e.type = "C" /\ e.holder = Customer(db, q).group
        \/ e.everyone
     /\ RuleInForce(e, q.asOf)
     /\ \/ e.on = "item" /\ e.key = i
        \/ e.on = "manufacturer" /\ e.key = db.items[i].firm
        \/ e.on = "item_group" /\ e.key = db.items[i].group}

BpDiscountMode(db, q) ==
  LET mode == Customer(db, q).mode
  IN  IF mode \in {Null, ""} THEN "H" ELSE mode

-----------------------------------------------------------------------------
(* BestDiscountPerItem.                                                    *)

\* The rows of a table, in some order.
Listed(S) == CHOOSE l \in Bijection(1..Cardinality(S), S) : TRUE

SumOf(R) ==
  LET sum[n \in 0..Cardinality(R)] ==
        IF n = 0 THEN 0 ELSE sum[n - 1] + Listed(R)[n].pct
  IN  sum[Cardinality(R)]

\* 1 - EXP(SUM(LOG(...))): what is left after taking one discount off what
\* the others leave.
Mixed(R) ==
  LET left[n \in 0..Cardinality(R)] ==
        IF n = 0 THEN 100 ELSE (left[n - 1] * (100 - Listed(R)[n].pct)) \div 100
  IN  IF \E e \in R : e.pct >= 100 THEN 100 ELSE 100 - left[Cardinality(R)]

BestDiscount(mode, rules) ==
  LET R == {e \in rules : e.pct # Null}
      P == {e.pct : e \in R}
  IN  IF rules = {} \/ (R = {} /\ mode # "M") THEN Null
      ELSE CASE mode = "L" -> Min(P)
             [] mode = "A" -> SumOf(R) \div Cardinality(R)
             [] mode = "S" -> Min({100, SumOf(R)})
             [] mode = "M" -> Mixed(R)
             [] OTHER      -> Max(P)

\* DiscountRuleType: the type of the row that sorts first, NULL before all.
Rank(e) == CHOOSE k \in DOMAIN RuleTypes : RuleTypes[k] = e.type
Sorts(mode, e, o) ==
  \/ e.pct = Null /\ o.pct # Null
  \/ /\ Null \notin {e.pct, o.pct}
     /\ IF mode = "L" THEN e.pct < o.pct ELSE e.pct > o.pct
  \/ e.pct = o.pct /\ Rank(e) <= Rank(o)

DiscountRuleType(mode, rules) ==
  IF rules = {} THEN Null
  ELSE (CHOOSE e \in rules : \A o \in rules : Sorts(mode, e, o)).type

PromoDiscount(db, q, i) ==
  {e \in db.rules :
     /\ e.type = "A"
     /\ e.on = "item" /\ e.key = i
     /\ RuleInForce(e, q.asOf)}

-----------------------------------------------------------------------------
(* Stock: a kit has the stock of the scarcest child that has any on record *)
(* in the warehouse. NULL sorts last.                                      *)

AllItemsForStock(db, i) == IF i \in DOMAIN db.kits THEN db.kits[i] ELSE {i}

\* Mutant: NULL sorts first.
StockNullFirst(db, q, i) ==
  LET held == {db.stock[c] : c \in (AllItemsForStock(db, i) \X {q.warehouse})
                                     \cap DOMAIN db.stock}
  IN  IF Known(held) # held \/ held = {} THEN Null ELSE Min(held)

Stock(db, q, i) ==
  LET held == {db.stock[c] : c \in (AllItemsForStock(db, i) \X {q.warehouse})
                                     \cap DOMAIN db.stock}
  IN  IF Known(held) = {} THEN Null ELSE Min(Known(held))

-----------------------------------------------------------------------------
(* The final SELECT.                                                       *)

NoSpecial == [price |-> Null, discount |-> Null]
NoPromo == [pct |-> Null, type |-> Null]

\* The order in which PriceSource, OedgType and FinalPrice ask.
Sources == <<"special_price", "special_discount", "discount_groups", "promo",
             "base_price_list">>

Offers(source, special, best, promo) ==
  CASE source = "special_price"    -> special.price # Null /\ special.price > 0
    [] source = "special_discount" -> special.discount # Null
    [] source = "discount_groups"  -> best # Null
    [] source = "promo"            -> promo.pct # Null
    [] source = "base_price_list"  -> TRUE

PriceSource(special, best, promo) ==
  Sources[Min({k \in DOMAIN Sources : Offers(Sources[k], special, best, promo)})]

Off(price, pct) == IF price = Null THEN Null ELSE (price * (100 - pct)) \div 100

FinalPrice(source, price, special, best, promo) ==
  CASE source = "special_price"    -> special.price
    [] source = "special_discount" -> Off(price, special.discount)
    [] source = "discount_groups"  -> Off(price, best)
    [] source = "promo"            -> Off(price, promo.pct)
    [] source = "base_price_list"  -> price

Row(db, q, i, special, promo) ==
  LET mode   == BpDiscountMode(db, q)
      rules  == AllDiscountRules(db, q, i)
      best   == BestDiscount(mode, rules)
      price  == BasePrice(db, q)[i]
      source == PriceSource(special, best, promo)
  IN  [sku |-> i, listPrice |-> price,
       osppPrice |-> special.price, osppDiscount |-> special.discount,
       bpGroupDiscount |-> best, promoDiscount |-> promo.pct,
       source |-> source,
       oedgType |-> CASE source = "discount_groups" -> DiscountRuleType(mode, rules)
                      [] source = "promo"           -> promo.type
                      [] OTHER                      -> Null,
       final |-> FinalPrice(source, price, special, best, promo),
       stock |-> Stock(db, q, i)]

\* Every left join keeps the item when it finds nothing, and repeats it when it
\* finds several rows.
LeftJoined(found, none) == IF found = {} THEN {none} ELSE found

Joined(db, q) ==
  UNION {{i} \X LeftJoined(SpecialPrice(db, q, i), NoSpecial)
             \X LeftJoined(PromoDiscount(db, q, i), NoPromo) : i \in DOMAIN BasePrice(db, q)}

\* ORDER BY ItemCode.
Ordered(l) == \A j, k \in DOMAIN l : j < k => l[j][1] <= l[k][1]

SapRows(db, q) ==
  LET J == Joined(db, q)
      l == CHOOSE l \in Bijection(1..Cardinality(J), J) : Ordered(l)
  IN  [k \in 1..Cardinality(J) |-> Row(db, q, l[k][1], l[k][2], l[k][3])]

-----------------------------------------------------------------------------
(* What a reader of the answer relies on, said without the cascade.        *)

\* A rule counts for a customer when it names the customer, the customer's
\* group or everyone, on a day of its period.
CountsFor(db, q, i, e) ==
  /\ e \in AllDiscountRules(db, q, i)
  /\ e.pct # Null

\* What the discount mode promises of the discount it arrives at, if no rule
\* is a surcharge in the modes that take several together.
Promised(mode, R, pct) ==
  CASE mode = "L" -> \A e \in R : pct <= e.pct
    [] mode = "A" -> (\E e \in R : pct <= e.pct) /\ (\E e \in R : pct >= e.pct)
    [] mode \in {"S", "M"} ->
         /\ pct <= 100
         /\ (\A e \in R : e.pct >= 0) => \A e \in R : e.pct <= 100 => pct >= e.pct
    [] OTHER -> \A e \in R : pct >= e.pct

\* The final price can be worked out again from the fields of the answer.
Explained(row) ==
  CASE row.source = "special_price"    -> row.final = row.osppPrice /\ row.final > 0
    [] row.source = "special_discount" -> row.final = Off(row.listPrice, row.osppDiscount)
    [] row.source = "discount_groups"  -> row.final = Off(row.listPrice, row.bpGroupDiscount)
    [] row.source = "promo"            -> row.final = Off(row.listPrice, row.promoDiscount)
    [] row.source = "base_price_list"  -> row.final = row.listPrice

\* The source of a price applies, and none that comes before it: a special
\* price before the rules R, these before a promotion, the list last.
InTurn(db, q, R, row) ==
  LET specials == SpecialPrice(db, q, row.sku)
      promos   == PromoDiscount(db, q, row.sku)
  IN  /\ row.source \in {"special_price", "special_discount"} =>
           \E s \in specials : s.price = row.osppPrice /\ s.discount = row.osppDiscount
      /\ row.source \in {"discount_groups", "promo", "base_price_list"} /\ specials # {} =>
           \E s \in specials : s.discount = Null /\ (s.price = Null \/ s.price <= 0)
      /\ row.source \in {"promo", "base_price_list"} => R = {}
      /\ row.source = "promo" =>
           \E e \in promos : e.pct = row.promoDiscount /\ e.type = row.oedgType
      /\ row.source = "base_price_list" /\ promos # {} => \E e \in promos : e.pct = Null

\* What the price list of the customer says of an item: a price or NULL, or
\* nothing where the item is not on it or the card is unknown.
ListPrices(db, q, i) ==
  {db.prices[<<i, c.list>>] :
     c \in {d \in db.customers : d.card = q.card /\ <<i, d.list>> \in DOMAIN db.prices}}

ListPriced(db, q) == {i \in q.skus \cap DOMAIN db.items : ListPrices(db, q, i) # {}}

\* The stock of an item is that of the scarcest of its parts that have a number
\* on record in the warehouse. A part with no row there, or NULL in it, does not
\* limit the item, and an item with no other part has none.
StockOwed(db, q, row) ==
  LET Has(c) == <<c, q.warehouse>> \in DOMAIN db.stock /\ db.stock[<<c, q.warehouse>>] # Null
      held   == {c \in AllItemsForStock(db, row.sku) : Has(c)}
  IN  IF held = {} THEN row.stock = Null
      ELSE /\ \E c \in held : row.stock = db.stock[<<c, q.warehouse>>]
           /\ \A c \in held : row.stock <= db.stock[<<c, q.warehouse>>]

\* What an item of the answer owes its reader: the price of the customer's list,
\* a final price explained by its own fields, from the source whose turn it is, a
\* discount the mode promises, attained by a rule of the type reported (in the
\* modes that take one rule's discount, if no rule is without one), and the stock
\* of its scarcest part.
Owed(db, q, row) ==
  LET R    == {e \in db.rules : CountsFor(db, q, row.sku, e)}
      mode == BpDiscountMode(db, q)
  IN  /\ row.sku \in ListPriced(db, q)
      /\ row.listPrice \in ListPrices(db, q, row.sku)
      /\ Explained(row)
      /\ InTurn(db, q, R, row)
      /\ row.source = "discount_groups" /\ R # {} =>
           /\ Promised(mode, R, row.bpGroupDiscount)
           /\ mode \in {"H", "L"} /\ R = AllDiscountRules(db, q, row.sku) =>
                \E e \in R : e.type = row.oedgType /\ e.pct = row.bpGroupDiscount
      /\ StockOwed(db, q, row)
=============================================================================
