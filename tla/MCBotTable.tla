------------------------------ MODULE MCBotTable ------------------------------
(* One bot and one client that does what it likes, at one table.              *)
EXTENDS BotTable

AmountsSent == {0, 2}

\* last is history that neither a guard nor a property here reads.
BotView == <<table, timers, toPlayer, toSession, link, crashed, bots, channels>>

\* Ids in no map and at no seat are interchangeable: each session has one that its
\* connections are given, and another only while that one still has a seat.
OwnId == CHOOSE id \in [Sessions -> Players] : \A s, r \in Sessions : id[s] = id[r] => s = r
Fresh == {p \in Players : toSession[p] = NoSession /\ p \notin table.roster}
Given(s) == IF OwnId[s] \in Fresh THEN {OwnId[s]} ELSE Fresh \ {OwnId[r] : r \in Sessions}
OneFreshId ==
  \A s \in Sessions : link[s] = "closed" /\ link'[s] = "open" => toPlayer'[s] \in Given(s)

=============================================================================
