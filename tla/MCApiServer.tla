----------------------------- MODULE MCApiServer ------------------------------
(* ApiServer with the daemons, requests, orders and SAP databases of Loads. *)
EXTENDS ApiServer

CONSTANTS r1, r2

NoSap == [customers |-> {}, items |-> <<>>, prices |-> <<>>, specials |-> {},
          rules |-> {}, kits |-> <<>>, stock |-> <<>>]

Price1 == [kind |-> "price", card |-> "C1", skus |-> <<2, Blank, 1, 2>>,
           warehouses |-> <<"w1">>, date |-> Blank]
Price2 == [Price1 EXCEPT !.warehouses = <<>>]
NoItems == [Price1 EXCEPT !.skus = <<Blank>>]
NoCard == [Price1 EXCEPT !.card = Blank]
Dated == [Price1 EXCEPT !.date = 3]

Sql(q, sets) == [kind |-> "sql", query |-> q, sets |-> sets]
\* A keyword in a literal, and one behind a literal with doubled quotes.
TwoSets == Sql(<<"select", "space", "'", "update", "'", "'", "'", "newline", "c">>, <<1, 1>>)
TooMany == Sql(<<"tab", "with", "newline", "c", "space", "select", "tab">>, <<2, 1>>)
Writing == Sql(<<"select", "space", "'", "'", "c", "space", "update">>, <<1>>)
Empty == Sql(<<"space", "return">>, <<1>>)
Remark == Sql(<<"select", "space", "c", "-", "-">>, <<1>>)
Twice == Sql(<<"select", "space", "c", ";", "select">>, <<1>>)
Semicolon == Sql(<<"select", "space", "'", ";", "'">>, <<1>>)
Quoted == Sql(<<"'", "select", "'", "space", "c">>, <<1>>)
\* A column of the name of a keyword, and white space of its own kind.
Bracketed == Sql(<<"select", "space", "[", "update", "]">>, <<1>>)
Windows == Sql(<<"select", "return", "newline", "c">>, <<1>>)
Starred == Sql(<<"select", "*">>, <<1>>)
Garbled == [kind |-> "garbled"]

OrderOf(type, currency, discount) ==
  [type |-> type, currency |-> Text(currency, 3), discount |-> discount,
   created |-> "23/02/2026", known |-> TRUE, number |-> 1000295,
   comment |-> [text |-> "two lines", len |-> 260, breaks |-> TRUE],
   account |-> [key |-> Text("CUST001", 7), name |-> Text("Customer", 8),
                address |-> [Text("Street", 12) EXCEPT !.breaks = TRUE],
                city |-> Text("City", 4), phone |-> Text("Phone", 11),
                agent |-> [Text("Agent", 9) EXCEPT !.breaks = TRUE],
                hprotect |-> Text("Protect", 7)],
   details |-> << [sku |-> Text("SKU-001", 7), title |-> [Text("Item", 4) EXCEPT !.breaks = TRUE],
                   quantity |-> 1100, packs |-> 100, price |-> 5100, discount |-> 0],
                  [sku |-> Text("SKU-002", 7), title |-> Text("Item", 4),
                   quantity |-> 250, packs |-> 0, price |-> 7550, discount |-> 10000] >>]
\* A return of goods whose key is longer than line 22 has room for.
Returned ==
  [OrderOf("RETURN", "EUR", 9999) EXCEPT
     !.details[1].sku = Text("SKU-001-of-another-catalogue", 28),
     !.details[1].quantity = -1100]
Unknown == [OrderOf("ORDER", "USD", 0) EXCEPT !.known = FALSE]

HasavshevetLoads ==
  {[erp |-> "HASAVSHEVET", database |-> "Hash", ask |-> (r1 :> a) @@ (r2 :> b), order |-> o,
    sap |-> NoSap] :
     <<a, b, o>> \in {
       <<Price1, Price2, NoOrder>>,
       <<Price1, TwoSets, NoOrder>>,
       <<TwoSets, TooMany, OrderOf("ORDER", "USD", 0)>>,
       <<Writing, Empty, OrderOf("ORDER", Shekel, 10000)>>,
       <<Remark, Twice, OrderOf("QUOATE", "USD", 1250)>>,
       <<NoItems, Garbled, Returned>>,
       <<NoItems, Garbled, Unknown>>,
       <<Semicolon, Quoted, NoOrder>>,
       <<Bracketed, Starred, NoOrder>>,
       <<Windows, Price1, NoOrder>>}}
  \cup {[erp |-> "HASAVSHEVET", database |-> Blank, ask |-> (r1 :> Price1) @@ (r2 :> NoItems),
         order |-> NoOrder, sap |-> NoSap]}

\* SAP: an item sold alone and a kit, of one manufacturer and two item groups.
Rule(id, type, holder, everyone, on, key, pct) ==
  [id |-> id, type |-> type, holder |-> holder, everyone |-> everyone, dated |-> FALSE,
   from |-> Null, to |-> Null, on |-> on, key |-> key, pct |-> pct]
Expired(e) == [e EXCEPT !.dated = TRUE, !.to = 4]

GroupRules == {
  Rule(1, "S", "C1", FALSE, "item", 1, 20),
  Rule(2, "C", "G1", FALSE, "manufacturer", 91, 50),
  Rule(3, "A", "0", TRUE, "item_group", 93, 60),
  Expired(Rule(4, "S", "C1", FALSE, "item", 1, 80)),
  Rule(5, "S", "C2", FALSE, "item", 1, 90)}
Promos == {
  Rule(6, "A", "P", FALSE, "item", 1, 10), Rule(7, "A", "P", FALSE, "item", 1, 30)}
\* Rules without a percentage, beside one that has one.
Unrated == {
  Rule(1, "S", "C1", FALSE, "item", 1, Null), Rule(2, "C", "G1", FALSE, "item", 1, 20),
  Rule(6, "A", "P", FALSE, "item", 2, Null)}

Special(price, discount, to) ==
  [item |-> 1, card |-> "C1", valid |-> TRUE, from |-> 2, to |-> to, list |-> Null,
   price |-> price, discount |-> discount]

SapDatabase(mode, rules, specials) ==
  [customers |-> {[card |-> "C1", list |-> 1, group |-> "G1", mode |-> mode]},
   items |-> <<[firm |-> 91, group |-> 92], [firm |-> 91, group |-> 93],
               [firm |-> 90, group |-> 92]>>,
   prices |-> (<<1, 1>> :> 1000) @@ (<<2, 1>> :> 500) @@ (<<1, 2>> :> 1),
   specials |-> specials, rules |-> rules,
   kits |-> (2 :> {1, 3, 4}),
   stock |-> (<<1, "w1">> :> 7) @@ (<<3, "w1">> :> 4) @@ (<<3, "w2">> :> 1)
               @@ (<<4, "w1">> :> Null)]

SapDatabases ==
  {SapDatabase(mode, rules, specials) :
     mode \in {Null, "H", "L", "A", "S", "M"},
     rules \in {{}, GroupRules, Promos, GroupRules \cup Promos, Unrated,
                {Rule(1, "S", "C1", FALSE, "item", 1, 100), Rule(2, "C", "G1", FALSE, "item", 1, 20)}},
     specials \in {{}, {Special(900, 5, Null)}, {Special(0, 25, Null)}, {Special(900, 5, 4)}}}

SapLoads ==
  {[erp |-> "SAP", database |-> "SBO", ask |-> (r1 :> a) @@ (r2 :> NoCard), order |-> NoOrder,
    sap |-> db] :
     a \in {Price1, Dated}, db \in SapDatabases}
  \cup {[erp |-> "SAP", database |-> "SBO", ask |-> (r1 :> Price2) @@ (r2 :> Price1),
         order |-> NoOrder, sap |-> NoSap]}

\* An ERP the connector can be set to but has no prices of.
PriorityLoads ==
  {[erp |-> "PRIORITY", database |-> "PRI", ask |-> (r1 :> Price1) @@ (r2 :> TwoSets),
    order |-> NoOrder, sap |-> NoSap]}

MCLoads == HasavshevetLoads \cup SapLoads \cup PriorityLoads
MCRequests == {r1, r2}
=============================================================================
