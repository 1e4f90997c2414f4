------------------------------- MODULE MCDesk -------------------------------
(* Instance of Desk for TLC: two strategies on two or three symbols; what   *)
(* may happen is cut into scenarios.                                        *)
EXTENDS Desk, TLC

CONSTANTS s1, s2, s3, y1, y2

MCPreferred == [s \in Strategies |-> IF s = s1 THEN {"trend_up"} ELSE {}]
MCCurrencies == (y1 :> {"EUR", "USD"} @@ y2 :> {"USD"})

Release(title, ccy, at, high) == [title |-> title, ccy |-> ccy, at |-> at, high |-> high]
MCFeeds == {{}, {Release("CPI", "EUR", 2, TRUE)}, {Release("CPI", "EUR", 3, TRUE)},
            {Release("NFP", "USD", 3, TRUE), Release("PMI", "USD", 1, FALSE)}}

\* Nothing known, moving together, moving against each other.
MCTables == {<<>>, {y1, y2} :> 2, {y1, y2} :> -2}

Scenario(what, n, strats, syms, sides) ==
  [events |-> what, orders |-> n, signals |-> strats \X syms \X sides]
MCScenarios ==
  {Scenario({"prices"}, 1, {s2}, {y1}, Sides),
   Scenario({"results", "allocator", "restart"}, 3, {s1, s2}, {y1}, {"BUY"}),
   Scenario({"guard", "results", "time", "unread", "unwritten", "restart"}, 3, {s2}, {y1}, {"SELL"}),
   Scenario({"news", "time"}, 1, {s2}, {y1, y2}, {"BUY"}),
   Scenario({"matrix", "blind", "results"}, 3, {s2}, {y1, y2}, Sides),
   Scenario({"switches"}, 2, {s1, s2}, {y1}, Sides),
   Scenario({"alerts", "time", "restart"}, 0, {s1, s2}, {y1}, {"BUY"}),
   Scenario({"noPips", "allocator", "restart"}, 2, {s1, s2}, {y1}, {"SELL"})}

\* Setups of several strategies are refused, minute by minute.
MCRefusals == {Scenario({"alerts", "time"}, 0, Strategies, {y1}, {"BUY"})}

MCExits == {-2, 2}
MCUnknownCorr == 0
MCFloorAvg == -1
=============================================================================
