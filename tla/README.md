# Verification of the heads-up hold'em server

TLA+ models, model-checking runs and machine-checked proofs for the C++ server
in `src/src`: a two-seat no-limit hold'em table that bots join over WebSockets.
The models are translated from the code; where a document or a comment says
something else, the difference is recorded as a finding.

## 1. The system

### Components, their state, and how they interact

| component | code | state | operations | called by |
|---|---|---|---|---|
| table manager | `server/table_manager.*` | seats, players, the running hand, pot, dealer button | assign seat, remove player, start hand, end hand, process action | game session |
| player actions | `server/player_action.*` | none (works on `Hand`, `Player`) | validate, apply, can-act | table manager |
| core hand machinery | `core/hand.*`, `core/pot.*` | none (works on `Hand`) | start, deal, act, advance, is-complete, winners, side pots, pot distribution, reset | table manager and game session (is-complete, winners, distribution); tests (all) |
| disconnection timers | `server/connection_manager.*` | one grace and one removal timer per player | start, cancel, has-active | player state manager, game session |
| player state manager | `server/player_state.*` | `connection_status`, `is_sitting_out` of the players it is given | on disconnect, on reconnect, grace expiry, removal expiry | game session, timers |
| game session | `server/game_session.*` | the two session maps, and all of the above | one handler per message type, socket loss, removal callback | sockets, timers |
| WebSocket session | `server/websocket_session.*` | write queue, `is_writing_`, ping and pong timers, `pong_pending_` | accept, read, send, write completion, ping, pong, pong timeout | I/O context, game session |
| bot client | `client/*` | its player id, the answer it is thinking about, the messages it has not read | connect, join, answer requests after a delay, top up, quit | server messages |
| hand ranking | `core/hand_ranking.*` | none | evaluate, compare | core machinery, tests |
| betting rules, cards, deck | `core/*` | the deck's next card | pure functions, deal | core machinery, tests |
| start-up, serialization, ids, logging | `server/main.cpp`, `server/server.cpp`, `common/*` | none that handlers read back | | |

`main` runs the `io_context` on one thread, so every handler is atomic: nothing
interleaves inside one. What interleaves is what a handler leaves behind and the
next one finds: messages of several sessions, sockets lost at any time, pings
that time out while the socket still reads, posted sends, and timer handlers
that are already queued when somebody cancels their timer. `Player` objects are
shared: the table seats them, the player state manager changes their connection,
a hand keeps raw pointers to them.

### What is hard, and what makes each component correct

* **Table.** Money is kept in the stacks, the bets of a hand, the hand's pot and
  the table's pot. Correct: no chip appears or vanishes (except by buying in or
  leaving), the copies agree, only the player to act pays, the pot goes to an
  unfolded player, seats and player list agree, the opener alternates. Hard:
  players removed and readmitted while a hand points to them, a vector of folds
  grown on demand, hands that cannot be ended because a showdown throws.
* **Disconnections.** Correct: who is away always has the timer that takes him
  further, a return leaves no timer behind, the life cycle of `data-model.md` is
  followed, who stays away is announced. Hard: a timer handler that is queued
  when `cancelTimers` runs.
* **Game session.** Correct: the session maps are inverse, a lost session can do
  nothing for its player, every message is answered, and the composition of the
  two components above keeps their promises. Hard: a session that rejoins under
  another id, a session reported lost that goes on reading.
* **WebSocket session.** Correct: messages arrive in order, each at most once; a
  message never waits without a write in progress; a client that answers is not
  lost, one that does not is. Hard: writes that fail, the lock taken twice, the
  buffer that is gone before it is written, the pong that races its timeout.

* **Bot client.** Correct: an action it was asked for is always answered, and
  what it decided on is still true when the answer is served. Hard: the bot
  thinks on numbers that are some time old while others join, leave, return and
  top up, and messages wait in order behind each other.
* **Core hand machinery, pots, hand ranking.** Correct: no card is dealt twice,
  every pot is paid to the last chip to the right players, side pots come to what
  was bet, the winner has the best hand by the rules. Hard: one `Hand` is used
  again with or without a reset, odd chips, the ace that is low in one straight,
  the best of twenty-one five-card hands.

The hazards with their lines, and the properties that cover each, are listed in
`PROJECT.json`.

## 2. The modules

    ChipLedger <---- TableManager ----+                  BotClient
                         |            |                      |
                 TableManagerProofs   +---> GameSession ---> BotTable ---> MCBotTable
                         |            |      |     |             |
                         |            |      |     +---> MCGameSession
                         |            |      |                   |
                         +------------------ GameSessionProofs ---> BotTableProofs
                                      |                                  |
    ConnectionHistory <- PlayerConnection                          BotTurnProofs
           |
    ConnectionProofs

    WriteChannel <---- WebSocketSession <--- WebSocketSessionProofs

    HandRanking ----------> CoreHand ----> MCCoreHand
         |                     |
    HandRankingProofs ---> CoreHandProofs

**`TableManager`** models the table as one record and every operation of the
class as an operator from a table to a table, so that the handlers of
`GameSession` compose several calls in one step. As a component of its own any
public operation may be called at any time, which is more than the server does
and includes removing a player in the middle of a hand.

| TLA+ | code |
|---|---|
| `seat`, `roster`, `stack`, `status`, `sitting_out` | `seat_1`/`seat_2`, `players_`, and the fields of `Player` |
| `hand.players` | the raw pointers of `Hand::players`; `Freed` is one whose object is gone, and `Reused` lets a new `Player` be allocated at that address |
| `hand.folded`, `hand.sized` | the true entries and the size of `std::vector<bool> folded` |
| `hand.turn` | `current_player_to_act`, as an index into the hand's players |
| `hand.bets`, `hand.pot`, `pot` | `player_bets`, `Hand::pot`, `Table::pot` |
| `bank`, `burned` | history: chips bought in and not cashed out; chips of pots nobody received |
| `AssignSeat`, `RemovePlayer`, `StartHand`, `EndHand`, `ProcessPlayerAction`, `TopUp`, `ConnectionChange` | the public operations, `Player::topUp`, and the changes `PlayerStateManager` makes to a `Player` |

Cards are left out. The server deals two hole cards to each player and never a
community card, because `dealCommunityCards` has no caller, so a hand can end
only by a fold: with both players in, `determineWinners` passes two cards to
`HandRanking::evaluate`, which throws for fewer than five (`ShowdownThrows`).
A pot paid to a destroyed player is written to freed memory; the model takes the
outcome in which no living stack receives it and counts it as burned.

**`ChipLedger`** is what the table promises about money without turns or hands:
buy in, leave, bet, settle whole and once, or burn. `TableManager` implements it.

**`PlayerConnection`** models `PlayerStateManager` over the timers of
`ConnectionManager`. A timer is `held` (the map owns it), `armed` (its wait is
pending) and `queued` (the wait expired, the handler has not run): `cancel()`
reaches an armed wait and never a queued handler. The actions are the
disconnection, the return, the expiry of a wait and the two handlers.
Durations are abstracted to a wait that may expire at any time, which includes
every pair of values the command line accepts. A handler is queued at most once
per kind: the `io_context` runs what is queued before it looks for the next
expiry.

**`ConnectionHistory`** adds two history variables: who was announced as removed
since he last came or went, and who returned over a queued handler of his own.

**`GameSession`** composes `TableManager` and `PlayerConnection` (by `INSTANCE`,
sharing the status and sitting-out fields) with the session maps. Each handler is
an action: `Welcome` (`sendWelcome`), `ReadFailed` and `PingFailed` (the two ways
into `onDisconnect`), `Rejoin`, `TakeSeat` and `JoinAnswered` (`handleJoin`),
`ActionRefused` and `ActionApplied` (`handleAction`), `TopUp`, `Ping`, and the
timers. `last` records whose message was handled and which messages were sent to
whom, with the fields of a payload that a bot reads: the player id of a welcome, the
hand, call amount and raise limits of a request, and the stacks of a completed hand,
which `broadcastHandCompleted` takes before `endHand` pays the pot. A session id stands for the
next `WebSocketSession` object once its read loop has ended, and a player id in
no map and at no seat is as good as a fresh UUID. Reading `folded` past its end
(`Missing`) is undefined: the step may end the process or see any value.

**`WebSocketSession`** models the write queue with the handlers posted by `send`,
the write in progress, the ping and pong timers, and whether the client counts as
lost. `Relock` is the set of outcomes of locking a `std::mutex` twice in one
thread, which the standard leaves undefined: the usual implementations block,
others go on. `StaleBuffer` is the set of outcomes of an `async_write` whose
buffer is destroyed while it is in progress. Both are constants so that a run
chooses the outcomes it considers; the theorems hold for every choice. `answered` is
history: whether a pong frame was read since the ping timer last fired. The code's
own record of that is `pong_pending_`, which the control callback has to clear because
the timeout's handler may be queued already when it cancels the timer.

**`WriteChannel`** is the first-in first-out channel that `send` promises.

**`BotClient`** models `Client::run` with `RandomStrategy` and the top-up rule: one
blocking thread that reads, handles, sometimes thinks, writes, and reads again.

| TLA+ | code |
|---|---|
| `bot[s].phase` | where `run` is: `off`, `welcoming` and `joining` (the two reads of the handshake), `playing` (the loop), `thinking` (in `randomDelay`), `gone` |
| `bot[s].answer` | the `action` and `amount` chosen before the delay |
| `inbox`, `outbox` | what the server sent and the bot has not read; what it wrote and the server has not handled |
| `Choices` | every result of `chooseAction`; that it throws when the minimum raise exceeds the stack is the second disjunct of `ReadRequest` |

**`BotTable`** composes `GameSession` with `BotClient`: the sessions in `Bots` are
read by bots, the others by any client at all. What a handler sent (`last`) is posted
in order, the pieces of it that are addressed to the session (`Addressed`; that no
handler sends more than three messages is part of `BTypeOK`). Between that and the
reader is the write path of `WebSocketSession`, reduced to what the composition can
tell apart:

| TLA+ | code |
|---|---|
| `inbox[s]`, `unwritten[s]` | the messages of a bot's session, posted, queued or received; how many of them, at the end, have not been written, which is all that is kept of another session |
| `Deliver` | `send` posts behind what is there |
| `WriteDone` | `on_write` after a success: the head is out, a bot may read it. When another message is unwritten, it may be in the queue, and `on_write` then calls `do_write` under the lock: `blocked`, after which the thread handles nothing more. When the other message is only posted yet, or the platform's mutex lets the thread go on, the next write follows: both outcomes are steps |
| `WriteFails`, `broken` | `on_write` after an error: the message stays, nothing more is written for the session |

The server handles the head of
an outbox with the action of `GameSession` for that message, `handleAction`'s check
of `hand_id` included; sockets may be lost and timers run. The other sessions have an
`unwritten` too, because two messages to one of them can block the thread that serves
the bots.

**`HandRanking`** models `evaluate` and `compare` over sets of cards: the category of
five cards as `evaluateFiveCards` finds it, the best of all five-card subsets, the
comparison keys. A sequence sorted by the code is the one of the first, second, ...
highest member (`Nth`), so a key of `getComparisonKey` is what comes four times,
three times, twice and once, the highest first (`Grouped`). Its second half states the rules of poker independently, of all
the cards at once and without going through five-card hands (`Category`,
`Strength`, `RuleOrder`): the reference the code is checked against.

**`CoreHand`** models a `Hand` as the integration tests use it: `startHand`,
`applyAction`, `advanceBettingRound`, `calculateSidePots`, `distributePot` with
winners the caller names, `resetHand`, in any order after the first start, out of
turn and after folds too, since `applyAction` checks neither. Nor does it check that a
hand is running and that the player is one of its two; no caller does otherwise, and
`Applied` and `Seat` assume both. The server uses only
`isHandComplete`, `determineWinners` and `distributePot`, which `TableManager` and
`GameSession` model in place. A shuffle is a choice among the decks in `Decks`.
`calculateSidePots` makes one pot for each level of the bets, of which two players
have two: the layer up to the lower bet, and the rest of the higher one (`Layers`); a
layer without chips or players is no element of the code's vector. `fresh` and
`paid` are history: whether the hand started from empty vectors, and what its pot
has paid.

## 3. The runs

Passing runs check every property listed; violation runs check one statement of
the documentation or a comment and end with a counterexample.

| run | instance | what it shows |
|---|---|---|
| `table` | 2 players, amounts -1..3, stack and target 3, threshold 2, big blind 2, 2 hands, bank 9 | invariants and action properties of the table; refinement of `ChipLedger` |
| `connection` | 2 players | timers and life cycle with every interleaving of queued handlers; liveness of the announcement |
| `server` | 3 ids, 2 sessions, amounts {0, 2}, 1 hand, bank 8 | the server's invariants, replies, and refinement of `PlayerConnection` and `ChipLedger` |
| `socket` | 3 messages, all outcomes of both undefined behaviours | queue, order, pong timeout, liveness; refinement of `WriteChannel` |
| `bots` | 3 ids, 2 sessions, one of them a bot, amounts {0, 2}, 1 hand, bank 8, inbox 3, 2 unwritten to the other client, 1 socket lost or write failed | a request about a running hand is still true when it is answered; a bot that was asked acts, unless a write to it fails or the thread blocks |
| `core_hand` | 2 players with stacks 2 and 4, amounts -1, 1, 2, 3, 2 hands, 2 actions, 12 chips, 34 decks on 3 boards | dealing, side pots and payments; category and comparison of hands against the rules |
| `sit_out_race` | 1 player | violated: sitting out only from disconnected |
| `seat_kept` | 2 ids, 1 session, fair timers | violated: who stays away frees his seat |
| `server_crash` | as `server` | violated: a client's message never ends the process |
| `write_blocked` | 3 messages | violated: the next queued message can be sent |
| `bots_starve` | 2 ids, 2 bots, no socket lost, no write failed, everything fair | violated: of a running hand somebody is asked to act |
| `chips_doubled` | as `core_hand`, without its constraint | violated: the chips in play remain constant |

### Bounds

Every bound is a named constant.

* `MaxHands` limits hands started. Two hands in `table` are the least that show
  the button moving and a hand after a hand. In `server` one is enough: there
  `startHand` runs only when a seat is filled, and no seat is ever freed, so a
  second hand is never started.
* `MaxBank` limits the chips bought in, which top-ups would otherwise grow for
  ever. 9 admits both buy-ins and a top-up on top of them.
* Stakes are scaled: threshold 2 below target 3 separates a stack that is topped
  up (0, 1) from one that is not (2, 3); big blind 2 separates a raise that is too
  small from one that is legal; amounts up to 3 include an all-in and one chip more
  than some stacks, and -1 the negative amount that is refused.
* Three ids and two sessions let a session rejoin under another id, a third player
  meet a full table, and an id whose session was lost return through another.
* `MaxInbox` 3 has a request in front of or behind two broadcasts.
  A step that would overfill an inbox waits; a bot reads without end as long as its
  messages are written and the thread works, so it is only delayed, and once they are
  not, `AskedBotActs` promises nothing. `MaxUnwritten` 2 is where counting the other
  client's unwritten messages stops: one, and one behind it, which is what `on_write`
  tells apart. `MaxLosses` 1 takes either socket away, or fails one write, at every
  moment.
* In `core_hand`, `MaxChips` stops the side pots from multiplying the stacks for
  ever: 12 is twice what the players bring. `MaxActions` 2 lets both bet unequal
  amounts in one hand, or one in each of two hands. The stacks 2 and 4 make an
  all-in that the other covers.
* The decks are chosen by their boards: one gives flushes, straight flushes and the
  royal flush, one full houses, fours and pairs with kickers, one the wheel and the
  straight above it. Only neighbouring pairs of hole cards meet. `DealOrBet` is a
  constraint that keeps the product small: every deck is dealt to the end of a first
  hand with one action, and the betting and paying of two hands, with and without a
  reset, goes as far as the bounds allow on one deck before the flop. No property
  relates the cards to the money, except through the folds, which the first part has.
* `MaxSends` 3 has one message in flight, one queued and one posted.

`MCBotTable` uses a view without `last`, which no guard reads there either:
delivery reads its new value only. Ids in no map and at no seat are interchangeable,
and its action constraint `OneFreshId` takes one of them for a new connection. It stands
for a symmetry, which a run with a liveness property cannot declare: any other choice
leads to the same behaviour under other names. `MCGameSession` uses a view that leaves out `last`, which no guard reads, and
merges crashed states, from which no step leads; the properties that mention
`last` are about steps and are evaluated on every step. Ids and sessions are
interchangeable, so are the players of `MCTableManager`; runs with liveness
properties use no symmetry. Deadlock is not checked where the system may stop: at
a bound, after a crash, or with the socket closed and its queue empty.

### Fairness

Only what `io_context::run` does is fair: an armed wait expires, a queued handler
runs, a posted handler runs, a write completes one way or the other. Clients owe
nothing: no message, answer or disconnection is assumed to come. In `BotTable` the
client of a bot is this program, a thread that runs: `FairBSpec` has a bot take its
steps (weak fairness of `BotStep`), what was sent to it be written or the write fail
(weak fairness of `WriteDone`, which a failed write disables for good), and
the server serve what a bot wrote (strong fairness of `Serve`, because the bound on
the inboxes disables it now and then, which the code's unbounded queues do not). All
of it holds as long as the one thread is not blocked: each of these actions has
`~blocked` as a guard, so that fairness asks nothing of a thread that waits for its
own mutex. Other clients, their writes, sockets and timers owe nothing there.

## 4. What is proved

The proof modules hold for every set of players, every stake, every set of
amounts, any number of messages and any value of the bounds, under the assumptions
the modules name: the null values are not players, stakes are naturals with the
top-up threshold at most the target, a positive big blind, bounds that are naturals,
sessions of bots that are sessions, decks of at least nine distinct cards.

**`TableManagerProofs`.** The inductive invariant is `Sound(table)`: the type, and
five parts that need each other. `Conserved` alone is not inductive: that removing
a player takes his stack out of the bank once needs `SeatsInStep` (he holds exactly
one seat), that a paid pot is counted once needs `HandLive` (a hand's two pointers
are different and registered or freed), that the pot of an ended hand is the one in
the books needs `PotInStep`, and `OpenerAlternates` needs `ButtonInStep`. One lemma
per operation shows that it keeps `Sound`; `Inductive` combines them, and
`AlwaysSound` follows. From it: type correctness, chip conservation, agreement of
seats and player list, of pot and bets, of the hand's pointers; the action
properties `OpenerAlternates`, `OnlyTurnPays`, `PotGoesToTheUnfolded`; and
`Refinement`, that the table implements `ChipLedger`.

**`ConnectionProofs`.** `AwayIsTimed` and `NoTimerNoWait` rest on the types and on
`ArmedIsHeld` (a pending wait belongs to a held timer). For the history,
`SitOutIsTimed` and `CleanReturn` are inductive given the types, and
`LifecycleUnlessRaced` follows from `CleanReturn`: a connected player without a
queued handler cannot be sat out, so the race of run `sit_out_race` is the only
way off the documented life cycle.

**`WebSocketSessionProofs`.** The invariant is the types, `WriteServesQueue` and
`NothingLostOrDoubled`, and one part for the pings. Of the first three, the last one needs the
middle one: popping the queue is right only because the write that completed was that of its head. The lemma `Shift`
(moving the head of one sequence to the end of another leaves their concatenation
alone) carries both the posted handler and the completed write. From the invariant,
`NextOnWire` identifies the message in flight as the next one of the channel, and
`ChannelTheorem` shows that the socket implements `WriteChannel`. `PongTheorem`, that
a client whose pong was read is not lost to the timeout, needs that part of the
invariant, `AnsweredIsNotPending`: once a pong was read, `pong_pending_` stays clear
until the ping timer fires again (`AnsweredStep`). A control callback that only
cancelled the timer would break it.

**`GameSessionProofs`.** The theorems of `TableManagerProofs` are used through an
instance of that module. The theorems here are stated for `AnySpec`, in which a client may send
any integer as an amount, and so hold for `Spec` too (`SpecIsAny`): `Amounts` are
only those TLC tries, while a bot computes its amounts. One lemma per operation says what it does to `Sound`, the
roster, the status, the hand and the burned pot. The inductive invariant is
`Server`: the types, the well-formedness of what is sent, `MapsInverse`,
`AwayHasNoSession`, `TableSound`, and `HandIsHeadsUp` with an empty `burned`. They need each
other. That a hand is never burned needs that nobody has folded between two
handlers (`HandIsHeadsUp`), which holds because a fold always completes the hand
(`FoldCompletes`). That two seats are still those of the running hand needs that
`TakeSeat` finds an empty seat, so no hand runs. `AwayHasNoSession` through a
rejoin under another id needs the inverse maps, and so do they its `link` part.
`AnswerTheorem` carries along that the receivers of a broadcast include the
sender. `ConnectionsTheorem` and `LedgerTheorem` are step simulations of whole
handlers: each handler is one step of `PlayerConnection`, of `ChipLedger`, or a
stutter; the second one shows that a fold with the payment of the pot it causes is
one settlement, because a fold pays nothing. `OneHandTheorem` and
`NoHandAfterTheFirst` settle what finding 5 leaves open, what happens after a hand
that does end: every handler leaves the seats and the number of hands alone, or
takes a free seat (`EveryStepSeats`), and with both seats taken, which a hand needs
and nothing undoes, only the former are left. So the server starts one hand and no
other, whatever its clients send.

**`BotTableProofs`.** A bot is one more client: every step of `BotTable` is a step
of the server with some amount, or one that the server does not see
(`BotTableIsServer`), the writes, their failures and the blocking included, which change no
state of the server. All of the server's theorems therefore hold at a table of bots
(`ServerPromises`), without a second proof of any of them. `BotTypesTheorem` goes
through every handler once and says what it sends: at most three messages, with the
fields their reader uses. Its last part shows that the player of a bot whose session
is mapped is connected, is not sitting out, and cannot be sat out by a grace timer of
an earlier loss (`BotsHere`): a bot never comes back under an id it has lost, unlike
the clients of run `sit_out_race`. The next module needs it.

**`BotTurnProofs`.** `RequestTheorem`: what a bot was asked is still true when its
answer is served. The property looks at the head of one outbox; its invariant must
follow the numbers all the way, from the handler that sent the request through the
inbox, the bot's delay and the outbox. `BotTurns` says of each bot and each hand:
nothing about a hand that has not started is on its way; of the running hand at
most one request *or* answer is (`OneAbout`), it belongs to the player to act, a
request has the call amount and minimum raise of the hand, and a raise is at most
the stack (`Timely`, `Fits`). Almost every step leaves this alone because it brings the
bot nothing about the hand and takes at most the head of a mailbox (`Quiet`, `Thins`)
while nobody at the table gets poorer (`HandKept`). What remains are the start of a
hand, a bot reading its request, a bot writing its answer, and an action: it consumes
the one thing on its way (`ActionConsumes`), or came from the client of another
session and so from the other player, to whom nothing was on its way; and then it
may ask the next player (`NextIsAsked`). For this the invariant `BotInv` also has the
server's `Server`, `BotsHere`, and `StrangersUntouched`: the player behind an id
without a seat is connected and has no timers.

**`HandRankingProofs`.** `EvaluateIsCategory`: of any five, six or seven cards, the
best category that `evaluate` finds among the five-card combinations is the one the
rules give all the cards at once. Three facts make it: the category is the best one
that is *made* (`CategoryIsTheBestMade`), what is made is still made with more cards
(`MadeGrows`), and for what is made five of the cards suffice (`FiveSuffice`). For
five cards, `FiveCards` compares the chain of tests in `evaluateFiveCards` with the
rules: five ranks four apart are a run, the ace makes the wheel, and the sorted counts
tell a full house from two pairs.

`CompareIsRuleOrder`: of any two hands of five to seven cards, `compare` returns
exactly the difference the rules find, in sign and size, unless both are flushes; of
two flushes it either agrees or calls a tie of two that share their top card. `compare`
looks for the greatest key among the combinations of the right category, and the
rules compare ranks of all the cards, so it is to be shown that this greatest key is
`Strength`. Both are put into one form: of the ranks that come at least so many times
the highest so many, `Tops`, and then the highest of the `Others`, with numbers that
depend on the category only (`Shape`; `KeyByGroups` for the key, `StrengthByGroups`
for the rules). With more cards every group only grows, so no key
of five cards is above `Strength` (`GroupsGrow`, with `AtLeast` the order of `compare`
without its choice of the first difference), and five cards attain it
(`GroupsAttained`): the tops with as many cards each as their group asks for, and one
card of each of the others. A key as great as all others is the only one, because
`compare` tells apart any two keys of one length (`DifferenceOrders`). Straights and flushes have keys
of one number, the top of the run or of the suit (`BestOfStraights`, `BestOfFlush`).
Sorted sequences need no induction over data: a key has at most five places, and what
is said of them is shown place by place (`OneHighest`, `AllHighest`).

**`CoreHandProofs`.** `DealtInOrder`: the hole cards and the board are consecutive
pieces of the hand's own deck, through `startHand` and every round, whatever is bet
or paid in between. A deck of distinct cards then deals none twice
(`CardsCounted` counts a piece by the bijection with its positions). The invariant
`CoreInv` adds the types and what the payments need: `PotsOwed` (a side pot has chips
exactly if somebody is eligible, else `distributePot` would pay or keep what it should
not), and `NothingLeft` with `BetsAccounted` (a hand started from empty vectors has
bets for all that its pot holds and has paid; after a reset the vectors are empty, so
the next hand starts that way). `SidePotsTheorem` adds up the two layers
(`LevelIsOwed`, `LayersOfBets`); `PayoutsTheorem` adds the shares and the odd chip
of one or both players (`OneOrBoth`, `AmountIsSplit`), pot by pot. `WinnerTheorem` is
`EvaluateIsCategory` for the seven cards of the players left, which are seven because
the board and the hole cards are disjoint pieces of the deck. `CompareTheorem` is
`CompareIsRuleOrder` for the same cards, on every board from the flop on.

**Only model-checked.** What the runs check under fairness: `AwayIsAnnounced`,
`SilentClientIsLost`, `EveryMessageArrives`, `AskedBotActs`. The last three except the blocked thread of finding 4, and the last two a failed
write: `BotTable` has both, so `AskedBotActs` promises an action only over a connection
and by a thread that work. Liveness is outside what the proof system handles here. Every invariant and every action property of a
passing run is a theorem.

## 5. Findings

1. **A returning player can be sat out** (`sit_out_race`). A grace timer that
   expires while the return is being handled sets `is_sitting_out` of a connected
   player, who can then not act; no message resets the flag.
2. **A seat is never freed** (`seat_kept`). The removal timer's callback only
   broadcasts; `onRemovalTimerExpired` has no caller.
3. **An out-of-range read ends the process or decides the hand**
   (`server_crash`). The first call or raise of a hand makes `isHandComplete` read
   an empty `vector<bool>`.
4. **The writer locks its own mutex** (`write_blocked`).
5. **Two bots wait for each other** (`bots_starve`). The handler that starts the
   hand asks nobody to act, a bot acts only when asked, and the next request follows
   an action.
6. **Side pots are paid twice** (`chips_doubled`). They are computed from all the
   bets and paid on top of the main pot that holds them, and can be computed again.

Seen while modelling and not the subject of a run:

* no second hand ever starts: `startHand` runs only when a seat is filled
  (`OneHandTheorem`, `NoHandAfterTheFirst`);
* after the fold that ends a hand the other player is asked to act in it, although
  `game_session.cpp:696` says "if hand not completed"; the answer is refused by its
  `hand_id`, and a bot quits over the error;
* a stack is topped up in the middle of the hand it was bet in, although
  `data-model.md:41` says between hands;
* a broadcast that overtakes `join_ack` makes a bot quit, while the server seats it;
* a bot with less than the minimum raise may draw a raise, throw and quit;
* a call is requested for more than the stack when a player cannot cover the bet,
  and refused: `RequestStillTrue` excepts it;
* a session that rejoins under another id leaves its own player connected and
  seated without a session;
* `hand_completed` carries the stacks from before the pot is paid;
* `action_timeout_ms` is never used: a player who does not act is never timed out,
  although `contracts/websocket-api.md:233` says "If no action, player is folded.";
* `hasActiveTimers` also answers true after the timers have fired, although
  `tests/unit/server/disconnection_timer_test.cpp:74` and
  `tests/integration/disconnection_test.cpp:95` expect false;
* `removePlayer` during a hand leaves a dangling pointer in it, although
  `core/models/table.hpp:26` promises validity while seated only;
* `determineWinners` compares categories only, so kickers never decide, and returns
  one winner, so ties are never split, although `spec.md:80` has them split;
* `compare` ties two flushes with the same top card;
* `startHand` on a hand that was not reset keeps its bets and folds, although the
  comment at `core/hand.cpp:15` says "Reset hand state".

The code does not build as it stands (`Deck::empty` is used and not declared,
`table_manager.cpp` uses the logger without including it, the destructor of
`ConnectionManager` is defined and not declared) and `GameSession`'s constructor
calls `shared_from_this()` before any `shared_ptr` owns the object, which throws.
The models assume the least repair: the missing declarations, and a removal
callback that reaches the session.

## 6. Not modelled

* `betting_rules`: five pure functions of one or two comparisons, without state and
  without a caller outside their unit test; the rules the server applies are those
  of `player_action`, in `TableManager`.
* Conversions of cards from and to text, the distribution of the shuffle.
* `getEligiblePlayersForPot`, `topUpAmount`, `topUp`: pure, without a caller.
* JSON, ids, logging, argument parsing, accepting sockets: formatting and I/O. A
  message that cannot be parsed is one of the refusals of `ActionRefused`.
* Crash recovery: nothing is persisted.

## 7. What could follow

* Two bots and a third client at one table.
