------------------------------ MODULE PriceMerge ------------------------------
(***************************************************************************)
(* How hasavshevet/price_stock.go puts the answers of the two stored       *)
(* procedures together. A string stands for its trimmed text.              *)
(***************************************************************************)
EXTENDS Integers, Sequences, SequencesExt

CONSTANT Blank      \* a text of spaces

\* Blank strings are dropped, repeated ones kept where they came first: out[n]
\* is the result so far after n rounds of the loop.
Kept(out, v) == IF v = Blank \/ Contains(out, v) THEN out ELSE Append(out, v)

uniqueStrings(values) ==
  LET out[n \in 0..Len(values)] ==
        IF n = 0 THEN <<>> ELSE Kept(out[n - 1], values[n])
  IN  out[Len(values)]

\* The first string that is not blank, or Blank (sap/price_stock.go).
firstNonEmpty(values) ==
  IF uniqueStrings(values) = <<>> THEN Blank ELSE Head(uniqueStrings(values))

\* No warehouse at all means warehouse 10.
stockWarehouses(warehouses) ==
  IF uniqueStrings(warehouses) = <<>> THEN <<"10">> ELSE uniqueStrings(warehouses)

\* An item for every SKU asked for, in the order asked, with the price under
\* its SKU if there is one and the total of every warehouse that has one.
mergedItems(skus, priceBySKU, totals) ==
  [k \in DOMAIN skus |->
     [sku    |-> skus[k],
      prices |-> {priceBySKU[s] : s \in {skus[k]} \cap DOMAIN priceBySKU},
      stockByWarehouse |->
        {<<totals[n].warehouse, totals[n].total[skus[k]]>> :
           n \in {n \in DOMAIN totals : skus[k] \in DOMAIN totals[n].total}}]]
=============================================================================
