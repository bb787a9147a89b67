------------------------------- MODULE Fills -------------------------------
(***************************************************************************)
(* Reconcile (reconcile.go): the trades a user's trade events settle to,   *)
(* each execution counted once however many documents report it. A row is  *)
(*   [line, day, account, side, qty, price, amount, fees, refs]            *)
(* with None for what it does not give; fees stands for its charges and    *)
(* tax, refs for its order and trade numbers. A source, [family, doc, id], *)
(* is the document the row is of; ids order as the sources' names do. The  *)
(* instrument is left out: Reconcile and Ledger treat each on its own.     *)
(***************************************************************************)
EXTENDS Decimals

Sides == {"buy", "dividend", "espp", "sell", "transfer_in", "transfer_out", "vest"}

TradeEvent ==
    [line : Int, day : Int, account : Int, side : Sides, qty : Decimal, price : Decimal, amount : Decimal,
     fees : Decimal, refs : SUBSET STRING, of : SUBSET STRING]

TradeSource == [family : STRING, doc : STRING, id : Int]

(* How far a document is trusted: an upload before mail before chat.       *)
DocOrder(doc) ==
    CASE doc = "tradebook" -> 0 [] doc = "contract_note" -> 1 [] doc = "statement" -> 2
      [] doc = "confirmation" -> 3 [] OTHER -> 5

DocRank(s) ==
    CASE s.family = "upload" -> DocOrder(s.doc) [] s.family = "mail" -> 10 + DocOrder(s.doc)
      [] s.family = "chat" -> 20 [] OTHER -> 30

TrustedMore(s, t) == DocRank(s) < DocRank(t) \/ (DocRank(s) = DocRank(t) /\ s.id < t.id)

Gross(e) == IF e.amount # None THEN e.amount ELSE Mul(e.qty, e.price)

(* A fill: the row of the copy kept, the sources that report it, and their *)
(* order and trade numbers.                                                *)
NewFill(src, e) == [row |-> e, src |-> src, sources |-> {src}, refs |-> e.refs]

ChatOnly(f) == \A s \in f.sources : s.family = "chat"

SharesRef(f, e) == e.refs \cap f.refs # {}

RefsDiffer(f, e) == f.refs # {} /\ e.refs # {} /\ ~SharesRef(f, e)

SameFill(e, f) ==
    /\ None \notin {e.qty, f.qty} => e.qty = f.qty
    /\ IF None \in {e.qty, f.qty, e.price, f.price} THEN Near(Gross(e), Gross(f)) ELSE Near(e.price, f.price)

(* How far apart the prices (else the amounts) are, as a fraction.         *)
Distance(e, f) ==
    LET x == IF None \in {e.price, f.price} THEN Gross(e) ELSE e.price
        y == IF None \in {e.price, f.price} THEN Gross(f) ELSE f.price
    IN IF None \in {x, y} \/ y = 0 THEN <<0, 1>> ELSE <<Abs(x - y), y>>

FillIn(row, e) ==
    LET Given(own, copied) == IF own = None THEN copied ELSE own
    IN [row EXCEPT !.fees = Given(@, e.fees), !.price = Given(@, e.price), !.amount = Given(@, e.amount)]

(* f with the rows of es as copies of it, each alone when one holds.       *)
CopyOf(f, src, es, one) ==
    [row |-> IF one THEN FillIn(f.row, CHOOSE e \in es : TRUE) ELSE f.row,
     src |-> f.src, sources |-> f.sources \cup {src}, refs |-> f.refs \cup UNION {e.refs : e \in es}]

(* The charges of the rows es go on the first of the fills at is, when     *)
(* none of them has any.                                                   *)
AddFees(fills, is, es) ==
    IF \E i \in is : fills[i].row.fees # None THEN fills
    ELSE LET Fees(e) == e.fees
         IN [fills EXCEPT ![CHOOSE i \in is : \A j \in is : i <= j].row.fees = AddUp(Fees, es)]

(* matchSource in its three steps, which pass on the fills, the rows left  *)
(* and the fills still open to the source.                                 *)
Start(fills, src, rows) ==
    [fills |-> fills, left |-> DOMAIN rows,
     open |-> {i \in DOMAIN fills : src \notin fills[i].sources
                                    /\ ~(src.family = "chat" /\ ChatOnly(fills[i]))}]

(* 1. By order and trade numbers.                                          *)
ByRef(st, src, rows) ==
    LET Shared(r) == {i \in st.open : SharesRef(st.fills[i], rows[r])}
        Rows(i) == {r \in DOMAIN rows : i \in Shared(r)}
        Copied(i) ==
            LET es == {rows[r] : r \in Rows(i)}
                f == CopyOf(st.fills[i], src, es, \E r \in Rows(i) : Rows(i) = {r} /\ Shared(r) = {i})
            IN IF Cardinality(es) > 1 THEN AddFees(<<f>>, {1}, es)[1] ELSE f
    IN [fills |-> [i \in DOMAIN st.fills |-> IF Rows(i) = {} THEN st.fills[i] ELSE Copied(i)],
        left |-> {r \in DOMAIN rows : Shared(r) = {}},
        open |-> {i \in st.open : Rows(i) = {}}]

(* 2. One to one, the nearest prices first.                                *)
Pairs(st, rows) ==
    {p \in st.left \X st.open :
        LET f == st.fills[p[2]] e == rows[p[1]] IN ~RefsDiffer(f, e) /\ SameFill(e, f.row)}

Nearer(st, rows, p, q) ==
    LET d == Distance(rows[p[1]], st.fills[p[2]].row)
        c == Distance(rows[q[1]], st.fills[q[2]].row)
    IN \/ d[1] * c[2] < c[1] * d[2]
       \/ /\ d[1] * c[2] = c[1] * d[2]
          /\ (p[2] < q[2] \/ (p[2] = q[2] /\ p[1] <= q[1]))

NearestOf(st, rows, ps) == {p \in ps : \A q \in ps : Nearer(st, rows, p, q)}

StillOpen(ps, taken) == {p \in ps : \A q \in taken : q[1] # p[1] /\ q[2] # p[2]}

ByPrice(st, src, rows) ==
    LET pairs == Pairs(st, rows)
        paired[ps \in SUBSET pairs] ==
            LET first == NearestOf(st, rows, ps)
            IN IF first = {} THEN {} ELSE first \cup paired[StillOpen(ps, first)]
        taken == paired[pairs]
    IN [fills |-> [i \in DOMAIN st.fills |->
                     IF \E p \in taken : p[2] = i
                     THEN CopyOf(st.fills[i], src, {rows[p[1]] : p \in {q \in taken : q[2] = i}}, TRUE)
                     ELSE st.fills[i]],
        left |-> st.left \ {p[1] : p \in taken},
        open |-> st.open \ {p[2] : p \in taken}]

(* Faulty variant: with the fills that other rows are copies of.           *)
SameTotalOfAll(st, rows) ==
    LET Qty(r) == rows[r].qty
        Amount(r) == Gross(rows[r])
        FillQty(i) == st.fills[i].row.qty
        FillAmount(i) == Gross(st.fills[i].row)
    IN /\ Eq(Total(Qty, st.left), Total(FillQty, DOMAIN st.fills))
       /\ Total(Qty, st.left) > 0
       /\ Near(Total(Amount, st.left), Total(FillAmount, DOMAIN st.fills))

(* 3. What is left, as one set listed in parts, else as fills of its own.  *)
SameTotal(st, rows) ==
    LET Qty(r) == rows[r].qty
        Amount(r) == Gross(rows[r])
        FillQty(i) == st.fills[i].row.qty
        FillAmount(i) == Gross(st.fills[i].row)
    IN /\ Eq(Total(Qty, st.left), Total(FillQty, st.open))
       /\ Total(Qty, st.left) > 0
       /\ Near(Total(Amount, st.left), Total(FillAmount, st.open))

InParts(st, src, rows) ==
    LET es == {rows[r] : r \in st.left}
        copied == [i \in DOMAIN st.fills |->
                     IF i \in st.open THEN CopyOf(st.fills[i], src, es, FALSE) ELSE st.fills[i]]
        new == InOrder(st.left, LAMBDA r, q : r < q)
    IN IF /\ st.left # {} /\ st.open # {} /\ Cardinality(st.left) + Cardinality(st.open) > 2
          /\ SameTotal(st, rows)
       THEN AddFees(copied, st.open, es)
       ELSE st.fills \o [n \in DOMAIN new |-> NewFill(src, rows[new[n]])]

MatchSource(fills, src, rows) ==
    InParts(ByPrice(ByRef(Start(fills, src, rows), src, rows), src, rows), src, rows)

(* One day-group's fills: its sources from the most trusted.               *)
MergeFills(rowsOf) ==
    LET sources == InOrder(DOMAIN rowsOf, TrustedMore)
        merged[n \in 0..Len(sources)] ==
            IF n = 0 THEN <<>> ELSE MatchSource(merged[n - 1], sources[n], rowsOf[sources[n]])
    IN merged[Len(sources)]

(* What a fill of the sequence counts for, summed; the amount is None when *)
(* one fill's is.                                                          *)
Settle(k, fills) ==
    LET Qty(i) == fills[i].row.qty
        Amount(i) == Gross(fills[i].row)
        Fees(i) == fills[i].row.fees
    IN [day |-> k.day, account |-> k.account, side |-> k.side,
        qty |-> AddUp(Qty, DOMAIN fills), amount |-> Total(Amount, DOMAIN fills),
        fees |-> AddUp(Fees, DOMAIN fills),
        record |-> fills[1].src]

(* The day-group of a row, and the rows of it a source has, by line.       *)
Group(e) == [day |-> e.day, account |-> e.account, side |-> e.side]

GroupRows(rows, k) == InOrder({e \in rows : Group(e) = k}, LAMBDA e, g : e.line < g.line)

(* The trades of a book, a function from sources to the rows they have.    *)
Reconcile(book) ==
    LET groups == {Group(e) : e \in UNION {book[s] : s \in DOMAIN book}}
        RowsOf(k) == [s \in {t \in DOMAIN book : \E e \in book[t] : Group(e) = k} |-> GroupRows(book[s], k)]
    IN {Settle(k, MergeFills(RowsOf(k))) : k \in groups}
=============================================================================
