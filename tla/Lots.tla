-------------------------------- MODULE Lots --------------------------------
(***************************************************************************)
(* The ledger of one instrument (ledger.go): each account's position from  *)
(* the trades up to a day: the lots it holds, its sales and its income. A  *)
(* trade is what Fills settles a day-group to. Costs are in the trades'    *)
(* currency and in the base currency, None where a price or a rate is not  *)
(* known.                                                                  *)
(***************************************************************************)
EXTENDS Decimals

CONSTANTS
    Splits,          \* corporate actions: [day, factor]
    Quotes,          \* the rates known: [day, rate]
    RateWindow,      \* how old a rate may be to stand in for a day's
    TransferWindow   \* how far apart a transfer's out and in may be dated

ASSUME SplitsAssumption == IsFiniteSet(Splits) /\ Splits \subseteq [day : Int, factor : Nat \ {0}]
ASSUME QuotesAssumption == Quotes \subseteq [day : Int, rate : Int]
ASSUME WindowsAssumption == RateWindow \in Nat /\ TransferWindow \in Nat

(* The last rate on or before a day, if it is not too old.                 *)
Rate(d) ==
    LET fit == {q \in Quotes : q.day <= d /\ d - q.day <= RateWindow}
    IN IF fit = {} THEN None ELSE (CHOOSE q \in fit : \A o \in fit : o.day <= q.day).rate

Convert(amount, d) == Mul(amount, Rate(d))

Acquires(side) == side \in {"buy", "vest", "espp", "transfer_in"}

Disposes(side) == side \in {"sell", "transfer_out"}

(* A day's trades: what adds shares, then dividends, then what takes them, *)
(* by account; one account's as the trades table lists their sides.        *)
SideOrder(side) == IF Acquires(side) THEN 0 ELSE IF Disposes(side) THEN 2 ELSE 1

SideNames == <<"buy", "dividend", "espp", "sell", "transfer_in", "transfer_out", "vest">>

NameOrder(side) == CHOOSE n \in DOMAIN SideNames : SideNames[n] = side

Earlier(t, u) ==
    \/ t.day < u.day
    \/ /\ t.day = u.day
       /\ \/ SideOrder(t.side) < SideOrder(u.side)
          \/ /\ SideOrder(t.side) = SideOrder(u.side)
             /\ \/ t.account < u.account
                \/ t.account = u.account /\ NameOrder(t.side) < NameOrder(u.side)

(* Each transfer out that has one, with the transfer in of another account *)
(* nearest in date, of those not taken yet.                                *)
Gap(t, u) == Abs(t.day - u.day)

(* Faulty variant: a transfer's two sides may be any time apart.           *)
FitsAnyDay(in, out) == in.side = "transfer_in" /\ in.account # out.account /\ Eq(in.qty, out.qty)

Fits(in, out) ==
    /\ in.side = "transfer_in" /\ in.account # out.account /\ Eq(in.qty, out.qty)
    /\ Gap(in, out) <= TransferWindow

Nearest(ts, out, fit) ==
    CHOOSE j \in fit : \A k \in fit :
        Gap(ts[j], out) < Gap(ts[k], out) \/ (Gap(ts[j], out) = Gap(ts[k], out) /\ j <= k)

Pair(ts, into, n, fit) ==
    IF ts[n].side = "transfer_out" /\ fit # {} THEN into \cup {<<n, Nearest(ts, ts[n], fit)>>} ELSE into

PairNext(ts, into, n) ==
    Pair(ts, into, n, {j \in DOMAIN ts : Fits(ts[j], ts[n]) /\ \A p \in into : p[2] # j})

PairTransfers(ts) ==
    LET into[n \in 0..Len(ts)] == IF n = 0 THEN {} ELSE PairNext(ts, into[n - 1], n)
    IN into[Len(ts)]

NoPosition == [lots |-> <<>>, sales |-> <<>>, income |-> <<>>, over |-> 0]

(* Quantity, Cost and CostBase of lots.                                    *)
Held(lots) == LET QtyOf(l) == l.qty IN TotalSeq(QtyOf, lots)

Cost(lots) == LET CostOf(l) == l.cost IN TotalSeq(CostOf, lots)

CostBase(lots) == LET BaseOf(l) == l.base IN TotalSeq(BaseOf, lots)

Acquire(p, t, qty, cost) ==
    [p EXCEPT !.lots = Append(@, [day |-> t.day, qty |-> qty, cost |-> cost, base |-> Convert(cost, t.day)])]

(* Faulty variant: part of a lot takes the whole lot's cost.               *)
PartAtCost(l, qty) == [l EXCEPT !.qty = qty]

Part(l, qty) == [l EXCEPT !.qty = qty, !.cost = Share(@, qty, l.qty), !.base = Share(@, qty, l.qty)]

Rest(l, part) == [l EXCEPT !.qty = @ - part.qty, !.cost = Diff(@, part.cost), !.base = Diff(@, part.base)]

(* What is left to take once a lot is taken, or a part of it; the lots     *)
(* moved, and those that stay.                                             *)
TakePart(st, l, part) ==
    [left |-> st.left - part.qty,
     moved |-> IF part.qty > 0 THEN Append(st.moved, part) ELSE st.moved,
     kept |-> IF part.qty < l.qty THEN Append(st.kept, Rest(l, part)) ELSE st.kept]

Take(st, l) == TakePart(st, l, Part(l, IF l.qty > st.left THEN st.left ELSE l.qty))

TakeOldest(lots, qty) ==
    LET taken[n \in 0..Len(lots)] ==
            IF n = 0 THEN [left |-> qty, moved |-> <<>>, kept |-> <<>>] ELSE Take(taken[n - 1], lots[n])
    IN taken[Len(lots)]

(* A sell realizes what the lots held; the rest of it is oversold.         *)
Realized(t, lots, proceeds) ==
    [day |-> t.day, qty |-> Held(lots), gain |-> Diff(proceeds, Cost(lots)),
     gainBase |-> Diff(Convert(proceeds, t.day), CostBase(lots))]

Sale(t, moved) == Realized(t, moved, Share(Diff(t.amount, OrZero(t.fees)), Held(moved), t.qty))

Give(p, t, taken) ==
    [p EXCEPT !.lots = taken.kept, !.over = @ + taken.left,
              !.sales = IF t.side = "sell" /\ Held(taken.moved) > 0 THEN Append(@, Sale(t, taken.moved)) ELSE @]

Dispose(p, t) == Give(p, t, TakeOldest(p.lots, t.qty))

(* The transfer in gets the lots moved, by date, and what the out did not  *)
(* have at its own price.                                                  *)
ByDay(lots) ==
    LET order == InOrder(DOMAIN lots, LAMBDA i, j :
                     lots[i].day < lots[j].day \/ (lots[i].day = lots[j].day /\ i < j))
    IN [n \in DOMAIN lots |-> lots[order[n]]]

(* Faulty variant: what a transfer out did not have does not arrive.       *)
AcquireNone(p, in, rest) == p

AcquireRest(p, in, rest) ==
    IF rest <= 0 THEN p
    ELSE Acquire(p, in, rest, Share(SumOf(in.amount, OrZero(in.fees)), rest, in.qty))

Arrive(p, in, moved) ==
    AcquireRest([p EXCEPT !.lots = ByDay(@ \o moved)], in, in.qty - Held(moved))

Receive(p, t) ==
    [p EXCEPT !.income = Append(@, [day |-> t.day, amount |-> t.amount, base |-> Convert(t.amount, t.day)])]

(* applyUpTo: the splits after day from, up to day to.                     *)
Due(from, to) == {s \in Splits : from < s.day /\ s.day <= to}

Factor(splits) ==
    LET by[R \in SUBSET splits] ==
            IF R = {} THEN 1 ELSE LET s == CHOOSE x \in R : TRUE IN s.factor * by[R \ {s}]
    IN by[splits]

Scaled(lots, factor) == [i \in DOMAIN lots |-> [lots[i] EXCEPT !.qty = @ * factor]]

Scale(positions, from, to) ==
    [a \in DOMAIN positions |-> [positions[a] EXCEPT !.lots = Scaled(@, Factor(Due(from, to)))]]

(* A trade by itself, and a transfer out with the in that takes its lots.  *)
HasQty(t) == t.qty # None /\ t.qty > 0

Apply(positions, t) ==
    [positions EXCEPT ![t.account] =
        CASE Acquires(t.side) /\ HasQty(t) -> Acquire(@, t, t.qty, SumOf(t.amount, OrZero(t.fees)))
          [] Disposes(t.side) /\ HasQty(t) -> Dispose(@, t)
          [] t.side = "dividend" -> Receive(@, t)
          [] OTHER -> @]

Transfer(positions, out, in) ==
    [Apply(positions, out) EXCEPT
        ![in.account] = IF HasQty(out) THEN Arrive(@, in, TakeOldest(positions[out.account].lots, out.qty).moved)
                        ELSE @]

(* The n-th trade, once the splits up to its day are applied. A transfer   *)
(* in that is paired is taken with its out.                                *)
Step(positions, ts, into, n) ==
    IF \E p \in into : p[1] = n THEN Transfer(positions, ts[n], ts[(CHOOSE p \in into : p[1] = n)[2]])
    ELSE Apply(positions, ts[n])

Pass(st, ts, into, n) ==
    IF \E p \in into : p[2] = n THEN st
    ELSE [day |-> ts[n].day, positions |-> Step(Scale(st.positions, st.day, ts[n].day), ts, into, n)]

Walk(ts, into) ==
    LET start == [day |-> 0, positions |-> [a \in {ts[n].account : n \in DOMAIN ts} |-> NoPosition]]
        at[n \in 0..Len(ts)] == IF n = 0 THEN start ELSE Pass(at[n - 1], ts, into, n)
    IN at[Len(ts)]

(* Every account's position from the trades up to and including a day.     *)
Until(st, until) == Scale(st.positions, st.day, until)

LedgerOf(ts, until) == Until(Walk(ts, PairTransfers(ts)), until)

Ledger(trades, until) == LedgerOf(InOrder({t \in trades : t.day <= until}, Earlier), until)
=============================================================================
