----------------------------- MODULE Portfolio -----------------------------
(***************************************************************************)
(* What a user is shown of one instrument (portfolio.go): their positions  *)
(* added up across accounts at the latest close and today's rate, and the  *)
(* profit by stock and by year. Figures are in the base currency, None     *)
(* where one could not be computed; missing says why.                      *)
(***************************************************************************)
EXTENDS Lots

CONSTANTS
    Close,         \* the latest close, or None
    DaysOfYear     \* how many days of the model make a year

ASSUME CloseAssumption == Close \in Int \cup {None}
ASSUME YearAssumption == DaysOfYear \in Nat \ {0}

Year(d) == (d - 1) \div DaysOfYear

Gains(sales) == LET GainOf(s) == s.gainBase IN TotalSeq(GainOf, sales)

Received(income) == LET AmountOf(i) == i.base IN TotalSeq(AmountOf, income)

(* Why a figure in the base currency is missing: its own is, or the rate.  *)
Why(own, account) == <<IF own = None THEN "price of a trade" ELSE "rate", account>>

(* Faulty variant: only what is held is looked at.                         *)
MissingOfHeld(p, account) ==
    (IF CostBase(p.lots) = None THEN {Why(Cost(p.lots), account)} ELSE {})
    \cup (IF p.over > 0 THEN {<<"buy", account>>} ELSE {})

MissingOf(p, account) ==
    (IF CostBase(p.lots) = None THEN {Why(Cost(p.lots), account)} ELSE {})
    \cup {Why(p.sales[n].gain, account) : n \in {m \in DOMAIN p.sales : p.sales[m].gainBase = None}}
    \cup {Why(p.income[n].amount, account) : n \in {m \in DOMAIN p.income : p.income[m].base = None}}
    \cup (IF p.over > 0 THEN {<<"buy", account>>} ELSE {})

Value(qty, now) == Convert(Mul(qty, Close), now)

MissingValue(qty, now) ==
    IF qty = 0 \/ Value(qty, now) # None THEN {}
    ELSE {<<IF Close = None THEN "price" ELSE "rate", None>>}

Shown(qty, cost, realized, dividends, now) ==
    [qty |-> qty, cost |-> cost, realized |-> realized, dividends |-> dividends,
     value |-> IF qty > 0 THEN Value(qty, now) ELSE 0,
     unrealized |-> IF qty > 0 THEN Diff(Value(qty, now), cost) ELSE 0,
     missing |-> MissingValue(qty, now)]

PortfolioOf(positions, now) ==
    LET QtyOf(a) == Held(positions[a].lots)
        CostOf(a) == CostBase(positions[a].lots)
        RealizedOf(a) == Gains(positions[a].sales)
        DividendsOf(a) == Received(positions[a].income)
        accounts == DOMAIN positions
    IN [Shown(Total(QtyOf, accounts), Total(CostOf, accounts), Total(RealizedOf, accounts),
              Total(DividendsOf, accounts), now)
        EXCEPT !.missing = @ \cup UNION {MissingOf(positions[a], a) : a \in accounts}]

BuildPortfolio(trades, now) == PortfolioOf(Ledger(trades, now), now)

(* Profit by year: what each year's sales realized and its dividends.      *)
OfYear(made, year) == {n \in DOMAIN made : Year(made[n].day) = year}

ProfitOfYear(positions, year) ==
    LET RealizedOf(a) ==
            LET GainOf(n) == positions[a].sales[n].gainBase IN Total(GainOf, OfYear(positions[a].sales, year))
        DividendsOf(a) ==
            LET AmountOf(n) == positions[a].income[n].base IN Total(AmountOf, OfYear(positions[a].income, year))
    IN [realized |-> Total(RealizedOf, DOMAIN positions), dividends |-> Total(DividendsOf, DOMAIN positions)]
=============================================================================
