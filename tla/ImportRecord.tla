----------------------------- MODULE ImportRecord -----------------------------
(***************************************************************************)
(* IMOVEIN.doc and IMOVEIN.prm (imovein.go) and what buildIMOVEIN          *)
(* (send_order.go) puts into them. A record is its fields in the order     *)
(* they are written, each padded or cut to its width; the PRM says at      *)
(* which bytes the importer finds each line. A text is a record [text,     *)
(* len, breaks]: what it says, its characters (one byte each in            *)
(* Windows-1255), and whether it holds a newline, one at most; a carriage  *)
(* return, which the code leaves where it is, is a character like others.  *)
(***************************************************************************)
EXTENDS Integers, Sequences, FiniteSets, FiniteSetsExt, SequencesExt

CONSTANT Shekel     \* the currency of the document type 30

Lines == 2..87

WidthOfLines == <<
  15, 9, 2, 50, 50, 50, 9, 10, 10, 9, 9, 250, 9, 9, 1, 5, 5, 2, 4, 10,
  20, 10, 10, 4, 5, 10, 100, 5, 6, 20, 5, 10, 1, 30, 10, 250, 9, 8, 10, 20,
  20, 10, 20, 50, 50, 50, 50, 50, 13, 13, 13, 9, 9, 9, 50, 50, 13, 13, 9, 9,
  50, 0, 100, 100, 50, 8, 100, 15, 10, 20, 9, 5, 250, 250, 3, 3, 5, 10, 10, 13,
  13, 10, 10, 13, 13, 250 >>

imoveInFieldLengths == [l \in Lines |-> WidthOfLines[l - 1]]

prmTotalRecordLength == 2891

-----------------------------------------------------------------------------
(* Texts.                                                                  *)

Text(what, len) == [text |-> what, len |-> len, breaks |-> FALSE]
NoText == Text("", 0)

\* TenTo[d] has one digit more than d; ten digits stand for ten or more.
TenTo == <<10, 100, 1000, 10000, 100000, 1000000, 10000000, 100000000, 1000000000>>
Digits(n) ==
  CHOOSE d \in 1..10 : (d = 1 \/ TenTo[d - 1] <= n) /\ (d = 10 \/ n < TenTo[d])

\* %d, and %.2f and %.4f, where the number is given in hundredths.
Decimal(n) == Text(ToString(n), Digits(n))
Fixed(hundredths, places) ==
  LET size == IF hundredths < 0 THEN -hundredths ELSE hundredths
      sign == IF hundredths < 0 THEN 1 ELSE 0
  IN  Text(ToString(hundredths), sign + Digits(size \div 100) + 1 + places)

\* A newline becomes ". ". (Apostrophes are taken out too: no text has one.)
sanitizeField(t) ==
  Text(t.text, IF t.breaks THEN t.len + 1 ELSE t.len)

sanitizeComment(t, maxLen) ==
  [sanitizeField(t) EXCEPT !.len = Min({@, maxLen})]

padW1255(t, width) ==
  [text |-> t.text, kept |-> Min({t.len, width}), cut |-> t.len > width,
   breaks |-> t.breaks]

-----------------------------------------------------------------------------
(* buildIMOVEIN: a validated order becomes a header and its moves.         *)

HeaderDocID(order) ==
  CASE order.type = "ORDER" /\ order.currency.text = Shekel -> 30
    [] order.type = "ORDER" /\ order.currency.text # Shekel -> 32
    [] order.type = "QUOATE"                                -> 40
    [] order.type = "RETURN"                                -> 74

\* A discount of 100 or more becomes 99.99.
HeaderDiscount(order) == IF order.discount >= 10000 THEN 9999 ELSE order.discount

Header(number, account, order, rate) == [
  AccountKey   |-> account.key,
  MyID         |-> number,
  DocumentID   |-> HeaderDocID(order),
  AccountName  |-> sanitizeField(account.name),
  Address      |-> sanitizeField(account.address),
  City         |-> sanitizeField(account.city),
  Phone        |-> sanitizeField(account.phone),
  Asmahta2     |-> number,
  ShortDate    |-> Text(order.created, 10),
  Agent        |-> account.agent,
  WareHouse    |-> 1,
  DiscountPrcR |-> Fixed(HeaderDiscount(order), 2),
  Currency     |-> order.currency,
  Rate         |-> Fixed(rate, 4),
  Remarks      |-> sanitizeComment(order.comment, 250),
  HProtect     |-> account.hprotect]

Moves(order) ==
  [k \in DOMAIN order.details |-> LET d == order.details[k] IN [
     ItemKey     |-> d.sku,
     ItemName    |-> sanitizeField(d.title),
     Quantity    |-> Fixed(d.quantity, 2),
     Packs       |-> IF d.packs > 0 THEN Fixed(d.packs, 2) ELSE NoText,
     Price       |-> Fixed(d.price, 2),
     DiscountPrc |-> Fixed(d.discount, 2)]]

-----------------------------------------------------------------------------
(* generateDOC and generatePRM.                                            *)

\* The fields that are not always blank; VAT, copies and unit are fixed texts.
\* The Extra fields of the header are never set.
Fields(h, m) ==
  [l \in Lines |->
     CASE l = 2              -> h.AccountKey
       [] l = 3              -> Decimal(h.MyID)
       [] l = 4              -> Decimal(h.DocumentID)
       [] l = 5              -> h.AccountName
       [] l = 6              -> h.Address
       [] l = 7              -> h.City
       [] l = 8              -> Decimal(h.Asmahta2)
       [] l \in {9, 10, 36}  -> h.ShortDate
       [] l = 11             -> h.Agent
       [] l = 12             -> Decimal(h.WareHouse)
       [] l = 17             -> h.DiscountPrcR
       [] l = 18             -> Text("18.00", 5)
       [] l \in {20, 25}     -> h.Currency
       [] l \in {21, 27}     -> h.Rate
       [] l = 22             -> m.ItemKey
       [] l = 23             -> m.Quantity
       [] l = 24             -> m.Price
       [] l = 26             -> m.DiscountPrc
       [] l = 28             -> m.ItemName
       [] l = 29             -> Text("unit", 3)
       [] l = 33             -> m.Packs
       [] l \in {19, 34}     -> Text(IF l = 19 THEN "1" ELSE "0", 1)
       [] l = 35             -> h.Phone
       [] l = 37             -> h.Remarks
       [] l = 60             -> h.HProtect
       [] OTHER              -> NoText]

\* Mutant: the blank line next to the unused one is left out in its place.
WrittenWithout62 == [k \in 1..85 |-> IF k < 61 THEN k + 1 ELSE k + 2]

\* The order in which buildDOCRecord writes the lines: line 63 is left out.
Written == [k \in 1..85 |-> IF k < 62 THEN k + 1 ELSE k + 2]

buildDOCRecord(h, m) ==
  LET f == Fields(h, m)
  IN  [k \in DOMAIN Written |-> padW1255(f[Written[k]], imoveInFieldLengths[Written[k]])]

generateDOC(h, moves) == [k \in DOMAIN moves |-> buildDOCRecord(h, moves[k])]

\* The byte after line l, as generatePRM counts.
PrmPosition[l \in 1..87] ==
  IF l = 1 THEN 1 ELSE PrmPosition[l - 1] + imoveInFieldLengths[l]

\* <<start, end>> of every line, and <<0, 0>> for a line without width.
generatePRM ==
  [l \in Lines |->
     IF imoveInFieldLengths[l] = 0 THEN <<0, 0>>
     ELSE <<PrmPosition[l - 1], PrmPosition[l] - 1>>]

-----------------------------------------------------------------------------
(* The importer, outside the repository: it cuts a record where the PRM    *)
(* says.                                                                   *)

\* The last byte of the k-th field of a record.
DocPosition[k \in 0..85] ==
  IF k = 0 THEN 0 ELSE DocPosition[k - 1] + imoveInFieldLengths[Written[k]]

\* The fields that fill exactly the bytes the PRM gives for a line.
FieldsAt == [l \in Lines |->
  {k \in 1..85 : <<DocPosition[k - 1] + 1, DocPosition[k]>> = generatePRM[l]}]

\* The importer reads t at line l, and all of it.
Reads(record, l, t) == \E k \in FieldsAt[l] : record[k].text = t
Whole(record, l) == \A k \in FieldsAt[l] : ~record[k].cut

\* The numbers of at most d digits, and the hundredths that have room in ten
\* characters with two decimals, the sign included.
OfDigits(d) == 0..(TenTo[d] - 1)
Amounts == (1 - TenTo[8])..(TenTo[9] - 1)

\* The keys and codes of the ERP and of the request, which are copied as they
\* stand, by the lines they go to.
KeysCopied(account, order, d) ==
  [l \in {2, 11, 20, 22, 25, 60} |->
     CASE l = 2          -> account.key
       [] l = 11         -> account.agent
       [] l \in {20, 25} -> order.currency
       [] l = 22         -> d.sku
       [] l = 60         -> account.hprotect]

\* A row says what the order and its line d say: the importer finds the order's
\* number, customer, agent, document type and discount, and the line's item,
\* quantity, price, discount and packs, whole unless they are longer than the
\* import's document allows. A newline gets into a row only with a key or code
\* that has one, and only in its field: the free texts and the rest bring none.
RowSays(row, number, account, order, d) ==
  /\ \A f \in DOMAIN row : row[f].breaks =>
       \E l \in DOMAIN KeysCopied(account, order, d) :
         f \in FieldsAt[l] /\ KeysCopied(account, order, d)[l].breaks
  /\ Reads(row, 2, account.key.text) /\ (account.key.len \in 0..15 => Whole(row, 2))
  /\ Reads(row, 11, account.agent.text) /\ (account.agent.len \in 0..9 => Whole(row, 11))
  /\ Reads(row, 60, account.hprotect.text) /\ (account.hprotect.len \in 0..9 => Whole(row, 60))
  /\ Reads(row, 3, ToString(number)) /\ Reads(row, 8, ToString(number))
  /\ number \in OfDigits(9) => Whole(row, 3) /\ Whole(row, 8)
  /\ \E code \in {30, 32, 40, 74} :
       /\ Reads(row, 4, ToString(code)) /\ Whole(row, 4)
       /\ (code \in {30, 32}) = (order.type = "ORDER")
       /\ order.type = "ORDER" => ((code = 30) = Reads(row, 20, Shekel))
  /\ order.currency.len \in 0..4 => Whole(row, 20)
  /\ order.discount \in OfDigits(4) => Reads(row, 17, ToString(order.discount)) /\ Whole(row, 17)
  /\ Reads(row, 22, d.sku.text) /\ (d.sku.len \in 0..20 => Whole(row, 22))
  /\ Reads(row, 23, ToString(d.quantity)) /\ (d.quantity \in Amounts => Whole(row, 23))
  /\ Reads(row, 24, ToString(d.price)) /\ (d.price \in Amounts => Whole(row, 24))
  /\ Reads(row, 26, ToString(d.discount)) /\ (d.discount \in OfDigits(4) => Whole(row, 26))
  /\ d.packs > 0 =>
       Reads(row, 33, ToString(d.packs)) /\ (d.packs \in Amounts => Whole(row, 33))

\* A DOC says what was ordered: a row for every line, of the documented length,
\* and every line of the PRM at exactly one place in it.
SaysWhatWasOrdered(doc, number, account, order) ==
  /\ Len(doc) = Len(order.details)
  /\ DocPosition[85] = prmTotalRecordLength
  /\ \A l \in Lines \ {63} : Cardinality(FieldsAt[l]) = 1
  /\ \A k \in DOMAIN doc : RowSays(doc[k], number, account, order, order.details[k])
=============================================================================
