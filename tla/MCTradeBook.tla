---------------------------- MODULE MCTradeBook ----------------------------
EXTENDS TradeBook

Source(family, doc, id) == [family |-> family, doc |-> doc, id |-> id]

Row(line, day, account, side, qty, price, fees) ==
    [line |-> line, day |-> day, account |-> account, side |-> side, qty |-> qty, price |-> price,
     amount |-> None, fees |-> fees, refs |-> {}, of |-> {}]

Document(src, rows) == [src |-> src, rows |-> rows]

(* One day's executions x1 and x2 of one order and x3, like x1, of another *)
(* and what documents list of them; a mail of two more orders, x4 and x5,  *)
(* which come to what x1 and x2 do.                                        *)
MCExecuted == [x1 |-> 4, x2 |-> 6, x3 |-> 4, x4 |-> 4, x5 |-> 6]

Bought(line, qty, price, fees, refs, of) ==
    [Row(line, 1, 3, "buy", qty, price, fees) EXCEPT !.refs = refs, !.of = of]

Tradebook(t1, t2, t3) ==
    Document(Source("upload", "tradebook", 1),
        {Bought(1, 4, 1000, None, t1, {"x1"}), Bought(2, 6, 1001, None, t2, {"x2"}),
         Bought(3, 4, 1000, None, t3, {"x3"})})

Note(o1, o2) ==
    Document(Source("mail", "contract_note", 1),
        {Bought(1, 4, 1000, 1, o1, {"x1"}), Bought(2, 6, 1001, 2, o1, {"x2"}),
         Bought(3, 4, 1000, 1, o2, {"x3"})})

Told(id, qty, of) == Document(Source("chat", "chat", id), {Bought(1, qty, 1000, None, {}, of)})

FillOffers ==
    {Tradebook({}, {}, {}), Tradebook({"T1", "O1"}, {"T2", "O1"}, {"T3", "O2"}),
     Note({}, {}), Note({"O1"}, {"O2"}),
     Document(Source("upload", "statement", 2),
        {Bought(1, 10, 1001, 3, {}, {"x1", "x2"}), Bought(2, 4, 1000, 1, {}, {"x3"})})}
    \cup {Document(Source("mail", "confirmation", 2),
                   {Bought(1, 10, 1001, None, r, {"x1", "x2"})}) : r \in {{}, {"O1"}}}
    \cup {Document(Source("mail", "confirmation", 3),
                   {Bought(1, 4, 1000, None, r, {"x3"})}) : r \in {{}, {"O2"}}}
    \cup {Document(Source("mail", "confirmation", 4),
                   {Bought(1, 4, 1001, None, {"O3"}, {"x4"}), Bought(2, 6, 1000, None, {"O4"}, {"x5"})})}
    \cup {Document(Source("mail", "contract_note", 6),
                   {Bought(1, 4, 1000, None, r, {"x1"}), Bought(2, 6, 1001, None, r, {"x2"})}) : r \in {{}, {"O1"}}}
    \cup {Told(4, 4, {"x1"}), Told(5, 4, {"x3"}), Told(6, 10, {"x1", "x2"})}

(* Four days of two accounts, a split on the third, which has no rate. A   *)
(* sell is read again on other days; a mail has a row that is not right.   *)
Upload(id, row) == Document(Source("upload", "tradebook", id), {row})

LotOffers ==
    {Upload(1, Row(1, 1, 1, "buy", 4, 60, 8)), Upload(2, Row(1, 1, 2, "vest", 4, 120, None)),
     Upload(3, Row(1, 2, 1, "espp", 2, 120, None)), Upload(4, Row(1, 2, 1, "sell", 3, 180, 3)),
     Upload(4, Row(1, 4, 1, "sell", 4, 180, None)), Upload(4, Row(1, 1, 1, "sell", 4, 180, 4)), Upload(5, Row(1, 2, 2, "transfer_out", 4, None, None)),
     Upload(5, Row(1, 4, 2, "transfer_out", 4, None, None)),
     Upload(6, Row(1, 2, 1, "transfer_in", 4, 60, None)),
     Upload(6, Row(1, 3, 1, "transfer_in", 4, 60, None)),
     Upload(6, Row(1, 1, 1, "transfer_in", 4, 60, None)),
     Upload(7, Row(1, 3, 1, "transfer_out", 4, None, None)),
     Upload(8, Row(1, 2, 2, "sell", 2, 240, None)),
     Document(Source("mail", "statement", 9),
        {Row(1, 2, 1, "dividend", None, None, None), Row(2, 3, 2, "sell", 2, 60, None),
         [Row(3, 3, 1, "dividend", None, None, None) EXCEPT !.amount = 12]})}

MCOffers == FillOffers \cup LotOffers

MCSplits == {[day |-> 3, factor |-> 2]}

MCQuotes == {[day |-> 1, rate |-> 2], [day |-> 4, rate |-> 3]}

(* A behaviour has the documents of one day, or the trades of four.        *)
Apart ==
    \/ \A s \in DOMAIN book' : \A e \in book'[s] : e.of = {}
    \/ today' = 1 /\ \A s \in DOMAIN book' : \A e \in book'[s] : e.of # {}
=============================================================================
