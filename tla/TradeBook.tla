----------------------------- MODULE TradeBook -----------------------------
(***************************************************************************)
(* A user's trades in one instrument as documents of them come in: reports *)
(* imported, broker mails read and trades told in chat, each source written*)
(* whole, in any order and again when it is read again; the trades they    *)
(* settle to (Fills), the positions these make (Lots) and what is shown of *)
(* them (Portfolio). FinanceReconcile has when a reconcile runs; here each *)
(* write's has.                                                            *)
(***************************************************************************)
EXTENDS Fills, Portfolio

CONSTANTS
    Offers,      \* what documents say: [src, rows]
    Executed,    \* the executions of the documents, by name: their quantities
    MaxDay,      \* bound: the days that pass
    MaxSources   \* bound: how many sources the book has

(* A document's rows are some, each on a line of its own, and no two       *)
(* sources have one name.                                                  *)
RankedOnce(sources) == \A s, t \in sources : DocRank(s) = DocRank(t) /\ s.id = t.id => s = t

IsRows(rows) ==
    /\ IsFiniteSet(rows) /\ rows \subseteq TradeEvent
    /\ \A e, g \in rows : e.line = g.line => e = g

ASSUME OffersAssumption ==
    /\ \A o \in Offers : o.src \in TradeSource /\ IsRows(o.rows)
    /\ RankedOnce({o.src : o \in Offers})

ASSUME BookAssumption == MaxDay \in Nat /\ MaxSources \in Nat

VARIABLES
    book,      \* trade_events: the rows of each source that has any
    trades,    \* the trades table
    today

vars == <<book, trades, today>>

Init == book = <<>> /\ trades = {} /\ today = 1

(* What is right with a row, for it to be written.                         *)
CheckRow(e) ==
    /\ e.day <= today + 1
    /\ IF e.side = "dividend" THEN e.amount # None /\ e.amount > 0
       ELSE /\ e.qty # None /\ e.qty > 0
            /\ {e.price, e.amount} = {None} => e.side = "transfer_out"
            /\ None \notin {e.price, e.amount} => Abs(e.qty * e.price - e.amount) * 100 <= e.amount

(* A document's rows replace what its source had. A report or a trade told *)
(* in chat is refused for one bad row; of a mail, the good ones are taken. *)
AddTradeEvents(s, rows) ==
    /\ Cardinality(DOMAIN book \cup {s}) <= MaxSources
    /\ LET good == {e \in rows : CheckRow(e)}
       IN /\ good # {}
          /\ s.family # "mail" => good = rows
          /\ book' = [t \in DOMAIN book \cup {s} |-> IF t = s THEN good ELSE book[t]]
    /\ trades' = Reconcile(book')
    /\ UNCHANGED today

NewDay ==
    /\ today < MaxDay
    /\ today' = today + 1
    /\ UNCHANGED <<book, trades>>

Next ==
    \/ \E o \in Offers : AddTradeEvents(o.src, o.rows)
    \/ NewDay

Spec == Init /\ [][Next]_vars
-----------------------------------------------------------------------------
(* Two rows of different sources can be told to be copies: by a number, or *)
(* as the same executions; or not to be: by their numbers, as different    *)
(* fills, as two trades told in chat, or because each source lists both.   *)
Lists(s, of) == \E e \in book[s] : e.of = of

Linked(s, e, t, g) ==
    IF e.of \cap g.of # {} THEN e.refs \cap g.refs # {} \/ (e.of = g.of /\ SameFill(e, g))
    ELSE \/ e.refs # {} /\ g.refs # {} /\ e.refs \cap g.refs = {}
         \/ ~SameFill(e, g)
         \/ s.family = "chat" /\ t.family = "chat"
         \/ Lists(s, g.of) /\ Lists(t, e.of)

RowsOf(s, k) == {e \in book[s] : Group(e) = k}

(* Two sources each list all that was executed, in parts of their own: a   *)
(* tradebook's fills, a statement's orders. At most one has numbers, and   *)
(* they are not both of trades told in chat. Step 3 of matchSource takes   *)
(* what is left for one set, so a third's execution would stand between.   *)
ListedBy(s, k) == UNION {e.of : e \in RowsOf(s, k)}

AllListed(k) == UNION {ListedBy(s, k) : s \in DOMAIN book}

ListInParts(s, t, k) ==
    /\ ListedBy(s, k) = AllListed(k) /\ ListedBy(t, k) = AllListed(k)
    /\ {s.family, t.family} # {"chat"}
    /\ \E u \in {s, t} : \A e \in RowsOf(u, k) : e.refs = {}

CanTell(k) ==
    \A s, t \in DOMAIN book : s # t =>
        \/ ListInParts(s, t, k)
        \/ \A e \in RowsOf(s, k), g \in RowsOf(t, k) : Linked(s, e, t, g)

(* Some of a source's rows come by chance to the quantity and amount that  *)
(* rows of others, of other executions, do: step 3 of matchSource looks at *)
(* no more, whatever their numbers.                                        *)
Disjoint(rows) == \A e, g \in rows : e = g \/ e.of \cap g.of = {}

Coincide(k) ==
    LET Qty(e) == e.qty
        Amount(rows) == Total(Gross, rows)
        Others(s, R) ==
            {g \in UNION {RowsOf(t, k) : t \in DOMAIN book \ {s}} : \A e \in R : e.of \cap g.of = {}}
    IN \E s \in DOMAIN book : \E R \in SUBSET RowsOf(s, k) : \E G \in SUBSET Others(s, R) :
          /\ {} \notin {R, G} /\ Cardinality(R) + Cardinality(G) > 2 /\ Disjoint(G)
          /\ Total(Qty, R) = Total(Qty, G) /\ Near(Amount(R), Amount(G))

(* reconcile.go, mergeFills: "counting each execution once however many    *)
(* sources report it", in whatever order they came in and were written     *)
(* again, as long as their rows can be told to be copies or not, by their  *)
(* numbers, as rows or in parts, and no others come to the same by chance. *)
CountedOnce ==
    \A t \in trades :
        LET k == Group(t) Qty(x) == Executed[x]
        IN AllListed(k) # {} /\ CanTell(k) /\ ~Coincide(k) => t.qty = Total(Qty, AllListed(k))

(* The trades the ledger has got to, and the pairs it makes of them.       *)
Done == {t \in trades : t.day <= today}

Into ==
    LET ts == InOrder(Done, Earlier)
    IN {<<ts[p[1]], ts[p[2]]>> : p \in PairTransfers(ts)}

(* Through sales across lots, transfers and splits, an account holds what  *)
(* it got less what it gave, what it gave and did not have being oversold: *)
(* no share is lost between two accounts, or arrives twice.                *)
Growth(d) == Factor(Due(d, today))

TakenOn(t, into) == IF \E p \in into : p[2] = t THEN (CHOOSE p \in into : p[2] = t)[1].day ELSE t.day

HeldIs(positions, into) ==
    \A a \in DOMAIN positions :
        LET Qty(t) == t.qty * Growth(TakenOn(t, into))
            mine == {t \in Done : t.account = a}
        IN positions[a].over = 0 \/ (\A s \in Splits : s.day > today) =>
               Held(positions[a].lots) - positions[a].over =
                   Total(Qty, {t \in mine : Acquires(t.side)}) - Total(Qty, {t \in mine : Disposes(t.side)})

SharesConserved == HeldIs(Ledger(trades, today), Into)

(* What a user is shown is the cash: when nothing is missing and every     *)
(* transfer out arrived, what is held cost, less the gains shown by stock  *)
(* or by year, what was paid for shares less what was got for them.        *)
Paid(t) == Convert(SumOf(t.amount, OrZero(t.fees)), t.day)

Got(t) == Convert(Diff(t.amount, OrZero(t.fees)), t.day)

GainedInYears(positions) ==
    LET GainOf(y) == ProfitOfYear(positions, y).realized
    IN Total(GainOf, {Year(t.day) : t \in Done})

IsTheCash(p, byYear, into) ==
    p.missing = {} /\ (\A t \in Done : t.side = "transfer_out" => \E q \in into : q[1] = t) =>
        /\ p.realized = byYear
        /\ p.cost - byYear = Total(Paid, {t \in Done : Acquires(t.side)} \ {q[2] : q \in into})
                                 - Total(Got, {t \in Done : t.side = "sell"})

CashAddsUp == IsTheCash(BuildPortfolio(trades, today), GainedInYears(Ledger(trades, today)), Into)

(* portfolio.go: a figure that could not be computed has its reason in     *)
(* Missing, wherever the price or rate it lacks was needed: at a buy whose *)
(* lot a later sell or another account's transfer took, or only now.       *)
HasReasons(p) == None \in {p.cost, p.realized, p.dividends, p.value, p.unrealized} => p.missing # {}

MissingSaysWhy == HasReasons(BuildPortfolio(trades, today))

(* What a sale realized stays, whatever is recorded later, but for trades  *)
(* dated before it or so near it that a transfer could pair: one that is   *)
(* dated before it may pair with an out within the window, and that one    *)
(* with a nearer in within the window of it. No document of another month  *)
(* changes the gains a user was shown.                                     *)
SoldBefore(p, d) == {<<n, p.sales[n]>> : n \in {m \in DOMAIN p.sales : p.sales[m].day < d}}

InReach(ts, d) == {t \in ts : t.day < d + 2 * TransferWindow}

SalesStay(before, after) ==
    \A d \in 1..MaxDay : InReach(trades, d) = InReach(trades', d) =>
        \A a \in DOMAIN before \cap DOMAIN after : SoldBefore(before[a], d) = SoldBefore(after[a], d)

PastStays == [][SalesStay(Ledger(trades, MaxDay), Ledger(trades', MaxDay))]_vars
-----------------------------------------------------------------------------
(* What the documentation and the comments say that the code does not do.  *)

(* docs/architecture.md:247 "Rows of one source are never copies of each   *)
(* other, nor are two chat rows": two trades told in chat are two.         *)
ChatsAreTwo ==
    \A t \in trades :
        LET Told(s) == LET Qty(e) == e.qty IN Total(Qty, RowsOf(s, Group(t)))
        IN t.side # "dividend" => t.qty >= Total(Told, {s \in DOMAIN book : s.family = "chat"})

(* reconcile.go:142 "Rows with order or trade numbers none of a fill's are *)
(* never copies of it": where only two documents list a day's trades, each *)
(* with numbers that the other hasn't, both count.                         *)
OrdersApart ==
    \A t \in trades :
        LET lists == {s \in DOMAIN book : RowsOf(s, Group(t)) # {}}
            rows == UNION {RowsOf(s, Group(t)) : s \in lists}
            Listed(s) == LET Qty(e) == e.qty IN Total(Qty, RowsOf(s, Group(t)))
            Other(s, u) ==
                \A e \in RowsOf(s, Group(t)), g \in RowsOf(u, Group(t)) : e.refs \cap g.refs = {}
        IN /\ t.side # "dividend" /\ Cardinality(lists) = 2
           /\ {} \notin {e.refs : e \in rows} /\ \A s, u \in lists : s = u \/ Other(s, u)
           => t.qty >= Total(Listed, lists)

(* reconcile.go:289 "They go on the first fill, as one charge of the set": *)
(* a trade's fees are no more than its documents charge together.          *)
FeesOnce ==
    \A t \in trades :
        LET Charged(s) == LET Fees(e) == OrZero(e.fees) IN Total(Fees, RowsOf(s, Group(t)))
        IN OrZero(t.fees) <= Total(Charged, DOMAIN book)

(* ledger.go:11 "the open lots, oldest first".                             *)
LotsInOrder ==
    LET positions == Ledger(trades, today)
    IN \A a \in DOMAIN positions :
          \A i, j \in DOMAIN positions[a].lots : i < j => positions[a].lots[i].day <= positions[a].lots[j].day

(* ledger.go:124 "Within a day, what was bought is there to sell": an      *)
(* account that never gave more than it got, day by day, is not oversold,  *)
(* at least when transfers arrive on the day they leave.                   *)
NeverShort(positions, into) ==
    LET Qty(t) == IF Acquires(t.side) THEN t.qty ELSE IF Disposes(t.side) THEN -t.qty ELSE 0
        Net(a, d) == Total(Qty, {t \in trades : t.account = a /\ t.day <= d})
    IN (\A q \in into : q[1].day = q[2].day) /\ (\A s \in Splits : s.day > today) =>
           \A a \in DOMAIN positions : (\A d \in 1..today : Net(a, d) >= 0) => positions[a].over = 0

SoldWhatWasThere == NeverShort(Ledger(trades, today), Into)
=============================================================================
