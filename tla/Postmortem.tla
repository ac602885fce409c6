------------------------------ MODULE Postmortem ------------------------------
(***************************************************************************)
(* The trade history of a Portfolio and the daily postmortem made from it: *)
(* the list that buy and sell append to and save_state cuts to its last    *)
(* fifty (core/data.py), the hour at which _postmortem_loop runs the       *)
(* report (runtime/controller.py), and the entry price that                *)
(* _reconstruct_avg_entry recomputes for every sale from the rounded       *)
(* figures of the history (agents/multi.py), since the position itself,    *)
(* with its average price, is gone by then.  The caller is any caller, as  *)
(* in Portfolio, whose methods all appear here, those that trade with the  *)
(* record they append.                                                     *)
(***************************************************************************)
EXTENDS Portfolio, SequencesExt

CONSTANTS
  MaxHistory,   \* trades save_state and load_state keep
  RoundTo,      \* share quanta in one unit of a rounded share count
  MaxTrades,    \* bound on the orders of one behaviour
  MaxReboots,   \* bound on the process stops of one behaviour
  LastDate      \* bound on the dates of one behaviour

ASSUME PostmortemAssumption ==
  /\ MaxHistory \in Nat \ {0} /\ RoundTo \in Nat \ {0}
  /\ MaxTrades \in Nat /\ MaxReboots \in Nat /\ LastDate \in Nat
  /\ 0..MaxTrades \subseteq Days

VARIABLES
  history,         \* trade_history
  savedHistory,    \* its copy in the state file
  clock,           \* orders executed so far: the time of a trade
  date, hour,      \* the hour: before, at or after POSTMORTEM_HOUR
  lastPostmortem,  \* _last_postmortem_date
  reboots,
  rows             \* the postmortem table: sale time -> [times, entry, since]

hvars == <<history, savedHistory, clock, date, hour, lastPostmortem, reboots, rows>>
postvars == <<pvars, hvars>>

Never == -1
Unreported == [times |-> 0, entry |-> 0, since |-> 0]

-----------------------------------------------------------------------------
(* The history. *)

Rounded(n) == ((n + RoundTo \div 2) \div RoundTo) * RoundTo

\* `basis` and `opened` are not in the record: what the position knew at the time
\* of a sale, for the properties to compare with.
Entry(action, s, shares, px) ==
  [action |-> action, symbol |-> s, shares |-> Rounded(shares), price |-> px,
   time |-> clock, date |-> date,
   basis |-> positions[s].avgPrice, opened |-> positions[s].openedAt]

Cut(seq) == SubSeq(seq, IF Len(seq) > MaxHistory THEN Len(seq) - MaxHistory + 1 ELSE 1, Len(seq))

\* The order itself, its record, and the save that ends it.
RecordTrade(entry) ==
  /\ clock < MaxTrades
  /\ clock' = clock + 1
  /\ history' = Append(history, entry)
  /\ savedHistory' = IF saved' # saved THEN Cut(history') ELSE savedHistory
  /\ UNCHANGED <<date, hour, lastPostmortem, reboots, rows>>

BuyRecorded(s, amount, px) ==
  /\ Buy(s, amount, px, clock)
  /\ RecordTrade(Entry("BUY", s, SharesFor(Spend(amount), px), px))

SellRecorded(s, pct, px) ==
  /\ Sell(s, pct, px)
  /\ RecordTrade(Entry("SELL", s, SharesSold(s, pct), px))

\* The methods that record nothing.
Marked(s) == MarkTakeProfit(s) /\ UNCHANGED hvars

Quoted ==
  /\ \E prices \in PriceTables :
       UpdateWatermarks(prices) \/ RecordValue(prices) \/ CheckDeath(prices)
  /\ UNCHANGED hvars

-----------------------------------------------------------------------------
(* _reconstruct_avg_entry: the BUYs of the symbol before the sale, since    *)
(* the position was last flat, each earlier SELL taking its share of the    *)
(* cost.                                                                    *)

Flat == [shares |-> 0, cost |-> 0, since |-> 0]

Bought(acc, t) ==
  [shares |-> acc.shares + t.shares,
   cost   |-> acc.cost + t.shares * t.price,
   since  |-> IF acc.shares <= 0 THEN t.time ELSE acc.since]

SoldAtCost(acc, t) == acc
Sold(acc, t) ==
  IF acc.shares <= 0 THEN acc
  ELSE IF t.shares >= acc.shares THEN Flat
  ELSE [acc EXCEPT !.shares = @ - t.shares,
                   !.cost = (@ * (acc.shares - t.shares)) \div acc.shares]

Walk(acc, t) == IF t.action = "BUY" THEN Bought(acc, t) ELSE Sold(acc, t)

Before(sale) ==
  SelectSeq(history, LAMBDA t : t.symbol = sale.symbol /\ t.time < sale.time)

OpenBefore(sale) == FoldLeft(Walk, Flat, Before(sale))

-----------------------------------------------------------------------------
(* _postmortem_loop. *)

SalesToday == {t \in Range(history) : t.action = "SELL" /\ t.date = date}

\* The row of a sale, or none when the history has no open position before it.
Reported(sale) ==
  LET open == OpenBefore(sale)
  IN IF open.shares <= 0 THEN rows[sale.time]
     ELSE [times |-> rows[sale.time].times + 1,
           entry |-> open.cost \div open.shares, since |-> open.since]

DateIfComplete(complete) == IF complete THEN date ELSE lastPostmortem
DateInAnyCase(complete) == date

\* The hour matches and this date has not been done by this process.  The sales
\* are reported in the order of their times; an error ends the report after any
\* number of its rows, and the date is set all the same.
DailyPostmortem ==
  /\ hour = "at" /\ lastPostmortem # date
  /\ \E end \in 0..MaxTrades :
       LET done == {t \in SalesToday : t.time < end}
       IN /\ rows' = [i \in DOMAIN rows |->
                        IF \E t \in done : t.time = i
                        THEN Reported(CHOOSE t \in done : t.time = i)
                        ELSE rows[i]]
          /\ lastPostmortem' = DateInAnyCase(done = SalesToday)
  /\ UNCHANGED <<pvars, history, savedHistory, clock, date, hour, reboots>>

HourPasses ==
  /\ \/ hour = "before" /\ hour' = "at" /\ UNCHANGED date
     \/ hour = "at" /\ hour' = "after" /\ UNCHANGED date
     \/ hour = "after" /\ date < LastDate /\ hour' = "before" /\ date' = date + 1
  /\ UNCHANGED <<pvars, history, savedHistory, clock, lastPostmortem, reboots, rows>>

\* load_state brings the last saved trades back; the date of the last report is
\* forgotten.
Rebooted ==
  /\ reboots < MaxReboots
  /\ reboots' = reboots + 1
  /\ Restart
  /\ history' = savedHistory
  /\ lastPostmortem' = Never
  /\ UNCHANGED <<savedHistory, clock, date, hour, rows>>

PostmortemInit ==
  /\ Init
  /\ history = <<>> /\ savedHistory = <<>>
  /\ clock = 0
  /\ date = 0 /\ hour = "before"
  /\ lastPostmortem = Never
  /\ reboots = 0
  /\ rows = [i \in 0..(MaxTrades - 1) |-> Unreported]

Trades ==
  \E s \in Symbols, px \in Fills :
    \/ \E a \in Amounts : BuyRecorded(s, a, px)
    \/ \E pct \in SellPcts : SellRecorded(s, pct, px)

PostmortemNext ==
  \/ Trades
  \/ \E s \in Symbols : Marked(s)
  \/ Quoted
  \/ DailyPostmortem
  \/ HourPasses
  \/ Rebooted

PostmortemSpec == PostmortemInit /\ [][PostmortemNext]_postvars

-----------------------------------------------------------------------------
(* Properties. *)

\* A sale is reported at most once by each process, even when a report fails
\* half-way: it is never repeated for the sales it had written.
ReportedOncePerStart == \A i \in DOMAIN rows : rows[i].times <= 1 + reboots

\* The history still has every layer of the position a sale closes or reduces.
Untruncated(sale) ==
  \E t \in Range(history) : t.action = "BUY" /\ t.symbol = sale.symbol /\ t.time = sale.opened

\* The entry price of a report, rebuilt from rounded trades after the position is
\* gone, is the one the position had: with the buyer's slippage added it is its
\* average price (up to rounding), blended over its layers, with no part of an
\* earlier position on the symbol, and the holding time is at least as long.
ReportedEntryIsBasis ==
  [][\A i \in DOMAIN rows : rows'[i].times > rows[i].times =>
       \A sale \in Range(history) : sale.time = i /\ Untruncated(sale) =>
         /\ BuyPx(rows'[i].entry) - sale.basis \in -2..2
         /\ rows'[i].since <= sale.opened]_postvars
=============================================================================
