# TLA+ models of discord-bot

This directory holds TLA+ modules that model the bot's code, TLC
configurations that check them on small instances, and TLAPS proofs of what
matters most. File and line references are to the repository's root.

## The system

The repository builds two Discord bots on the sleepy-discord library.
**Qasino** (`QasinoBot.cpp`, `QasinoHeader.h`) keeps accounts of play money and
offers games, a stock market and transfers. **Labyrinth** (`LabyrinthBot.cpp`)
runs riddle servers: questions, answers that open channels and roles, hints.
The rest is vendored (SQLite, JsonCpp, dirent, CMake and its output).

Both are single-threaded: the library calls `onReady`, `onMessage`,
`onInteraction` and the timers set by `schedule` one after the other, and a
handler runs to its end before the next begins. The hard behaviours are
therefore not races inside a handler. They are

- **copies that go stale between handlers**: a game keeps a copy of its
  player's record from its first message to its last, and writes it back whole;
- **presses that arrive late, twice, or from the wrong person**, on messages
  that outlive the game and the process;
- **a flag on disk that stands for a fact in memory** (`SYS_IS_PLAYING`), which
  a crash or a stray press separates from it;
- **several writes in one handler**, of which a crash performs a prefix, and
  whose last one may be cut short;
- **undefined behaviour** that a build may resolve either way (`init` in `/gc`).

### Components

| Component | State | Operations | Interacts through | What makes it correct |
|---|---|---|---|---|
| Qambler records (`readQamblerInfo`, `writeQamblerInfo`) | one JSON file per user | read whole, write whole, make up a record for an unreadable file | the files, shared by all | a crash loses at most one record, nothing is half written unnoticed |
| Sessions and dispatcher (`onInteraction`, `SoloGame`) | `_sologames`, the messages' buttons, the playing flag | gates, `/solo-game`, `/gc`, presses, `OnStart`, `EndGame`, `Clear` | files; rounds by virtual calls | one game per channel and per user, settled once, on a fresh copy, for a stake that is covered; the flag comes back |
| Rounds: dice bet, blackjack, guessing game | dice table; cards and scores; answer and history | `Process` of each | call `EndGame` | the round ends, once, with the prize its rules give; what a message shows is what the game does |
| Bank: `/send`, `/chip`, `/nick`, `\|\|money` | the files | check, change, write | files | what is credited was debited |
| Beggars: `/beg`, `UpdNick`, the gate | two fields, the nick, a two-hour timer | beg, gate, restore, rename | the gate is in front of all interactions | the mark comes off, and nothing else with it; gifts are two hours apart |
| Market: `/stock`, `UpdStk` | `stocks`, their files, holdings | buy, sell, tick, READY | files, timer chain | no debt and no negative holding; no jump of a price; no gain without a move of the price |
| Text manager | ring of ten strings | `GetText` | returns pointers into the ring | no pointer outlives its slot |
| Labyrinth: questions, answers, hints, servers | one file each | edit, answer, hint, hide and release | files, roles, channels | answers open what they should; cooldown holds |
| Labyrinth: up-down games | none; each message is answered by itself | compare a number with 31/7 or √2 | | the answer is that of exact arithmetic |

`PROJECT.json` lists all components, the unmodelled ones with the reason, and
the hazards, each at its line.

## Modules

| Module | What it is |
|---|---|
| `QamblerStore` | the files, and the queue of outside effects of the running handler |
| `SoloSession` | sessions and dispatcher (the core) |
| `ChannelTable` | abstract: a channel is a table with one seat |
| `SoloSession_proofs` | theorems about `SoloSession` |
| `Bank` | the commands that move money |
| `Bank_proofs` | theorems about `Bank` |
| `Ledger` | abstract: accounts that change by whole operations |
| `Qasino` | `SoloSession` and `Bank` over the same files and thread |
| `Qasino_proofs` | theorems about `Qasino` |
| `SoloRound` | abstract: what a round may do to the session |
| `BlackJackRound` | a round of blackjack |
| `BlackJackRound_proofs` | theorems about `BlackJackRound` |
| `DiceRound` | a round of dice bet |
| `AacRound` | a round of anticipation and confirmation, the guessing game |
| `BeggarGate` | begging, its gate and its timer |
| `Market` | stocks, their files, the timer that moves them, trades |
| `Economy_proofs` | theorems about `BeggarGate` and `Market` |
| `CInt` | the builds' `int`: wrap-around, and division that truncates |
| `UpDown` | Labyrinth's up-down games |
| `Games_proofs` | theorems about `DiceRound`, `AacRound` and `UpDown` |
| `LabyrinthServer` | what the stores of one Labyrinth server have in common |
| `LabyrinthQuestions` | Labyrinth's question files, the commands that edit them, `/answer` |
| `LabyrinthQuestions_proofs` | theorems about `LabyrinthQuestions` |
| `HintCooldown` | Labyrinth's settings of a server and `/hint` |
| `HintCooldown_proofs` | theorems about `HintCooldown` |
| `MCSoloSession`, `MCBank`, `MCQasino`, `MCBlackJackRound` | values for TLC |
| `MCGames` | values for `DiceRound`, `AacRound` and `UpDown` |
| `MCEconomy` | values for `BeggarGate` and `Market` |
| `MCLabyrinth` | values for `LabyrinthQuestions` and `HintCooldown` |

### How a handler is modelled

A handler is one action on the memory (`solo`, `nextId`, ...), since nothing in
the process can see it half done. What it does outside the process is put in
`queue`, in the order of the code, and performed one effect at a time
(`PerformWrite`, `PerformMessage`); the next handler starts when the queue is
empty (`Idle`). A crash empties the queue at any point and may leave the file
under its first write unparsable (`NoRec`), because `writeQamblerInfo` opens
with truncation. So every prefix of a handler's effects is a possible remainder
of it, which is what the code allows.

A record is reduced to money, chips and the playing flag. The spam stamp, which
every accepted interaction writes first, is a rewrite of the record (`Stamp`):
its value is left out, its write is not, since a crash can tear it.

### SoloSession and the code

- `solo` is the vector `_sologames`. Interaction IDs grow and games are pushed
  at the end, so the vector's order is that of the IDs and a function on IDs
  represents it. `Found` is the search by `GetID()`: `Clear` overwrites
  `_gameID`, so a dead object is listed but not found.
- `SoloPush` is the whole of `/solo-game` in a free channel: the scan erases all
  dead objects, the constructor runs `Clear`, which resets the ID, and so the search
  for the new object by its ID runs off the end and stops at the last object,
  which is the new one. `SoloRefuse` and `SoloStart` are the two outcomes of
  `OnStart`. `SoloBusy` is the scan that meets a running game and returns,
  after erasing what it had passed.
- A press is put on the wire by `Press` while the message has buttons, and taken
  off by one of `PressGated` (beggar or spam gate), `PressPassed` (not the
  player, or the round goes on), `PressDouble`, `PressLoses`, `PressWins` and
  `PressUnknown` (no object has the ID: the message goes, and the presser's flag
  is cleared, whoever the presser is).
- `EndGame` writes the copy with the new chips and, in the `Clear` at its end,
  once more with the flag at 0 (`EndGameWrites`). `EndGame` calls the base
  class's `Clear`, which is not virtual there, so this is the same for all games.
- `/gc` leaves `init` unassigned when nothing is found. `GcNotFound` is the value
  false; `GcStrayHit` and `GcStrayDies` are the value true, with `soloGame`
  pointing at the last object visited or at nothing. `GcIndexesEmpty` is a guess
  sent to a game without guesses: `SplitID[2]` of an empty vector, taken to
  end the process.
- `Receive` is what others do to a player's file in mid-game: the credit of `/send` and
  `||money`, which look at no flag of the receiver (`SetMoney` of `QamblerStore`).
- `paid`, `wild` and `stray` are history: settlements of a game, games settled
  by a `/gc` that never found them, users whose flag was cleared in mid-game
  by something else than that game's end. They appear in no guard.

In `SoloSession` the rounds are abstracted to their effect on the session. This
is an over-approximation: any press of the player may win, lose, or go on.
`SoloRound` states that effect, and the round modules implement it.

### The rounds and the code

`BlackJackRound` is `BlackJack::Process`: one action per branch on the button,
each of which ends in `Table`, the code that all branches come to. `Endings` lists the
calls of `EndGame` that this code makes, in order, because a natural makes one
and goes on to the comparison for those who stand. The handler obeys presses on buttons that
its message no longer shows, and so does the model. The answer to an ace marks
the last card, whichever that is by then. `MaxFlight` bounds the presses in flight
together, `MaxPress` those of one button. The dealer's ace counts 1 always: the code
compares the mark where it means to assign it.

`DiceRound` is `DiceBet::Process`: `Start` (a choice, which falls through to the
roll), `Go`, `Stop`. `Increase` is the code's growth of the table, with its truncating
divisions; the handler and the message (`Forecast`) use it with different counts.
`_table` is unset until the first choice; 0 stands for that, and `TypeOK`'s
third conjunct says that no roll is made before.

`AacRound` is `AnticipationAndConfirmation`: the draw of the answer, `Guess` (what
`/gc` hands on once the game is found) and `Quit`. `Visited` is the array `visit[]`
in which the code marks the answer's digits, and `Strikes`, `Balls` and `Outs` ask it in
the code's way, so that the model would count a repeated digit as wrongly as the code.
`Accepted` is the sequence of checks on the text. The prize is `pow` of the
turn, cut to an int; `PayRate` holds its values in thousandths. A press of the quit button finds
the game by an ID that its end takes away (`Playing`), but `/gc` may come to a game that is over, by the
flag it has not assigned, and `Process` does not ask; so `Guess` has no such guard.

### Beggars and the code

`BeggarGate` uses the same queue of writes. `Beg` is the whole of `/beg`: the stamp,
time and flag, the money if there is any, the marked nick, and the timer. The timer
copies the nick as it was before, and its two hours begin when the handler is done: `lag`
stands for the seconds that takes, so the gate may open before the timer fires, and both
then restore. `Restore` is the gate's way, which takes seven bytes off the nick whatever
they are; on a name of less than seven bytes `substr` throws (`RestoreThrows`).
`UpdNickBeggar` is the nick and then the flag. A crash drops the timers. A file keeps 63 bytes
of a nick (`Kept`): a longer one is lost to the name on Discord, and `Room` says how many marks fit
beside a name. `LookUp` is a `/profile` of a member without a file, which writes a record that nobody asked for.
`gift` and `excused` are history.

### Market and the code

`quotes` is the vector `stocks`, of each the last of its hundred values. `UpdStk` reads
each file back, moves each price, mirrors the first stock in the second, and writes
the files in the vector's order; the writes are `pending`, as a death may come between two.
`OnReady` appends the stocks again each time: places `k` and `k + StockCount` are the
same stock in the same file. A handler finds the first listing. A file cut short gives an
`int` without a value, any of `Garbage`. Products and sums of a trade wrap (`CInt`), as the
builds do. `Buy` and `Sell` are the code's tests in their order; `odd` is history.

### Bank and the code

Each command reads what it needs, checks, and queues its writes in the code's
order. `/send` reads both records before it writes either, also when both are
the same. `/nick` compares and deducts nothing, and hands `UpdNick` the ID of
the command, so its write goes to a record of no user. `||money` comes from a
message and passes no gate. Sums, and the products of `/chip`, are those of the `int` (`CInt`): `CoversChips`
compares the money with the price as it comes out of the product. `Ledger` wraps as well.

### Labyrinth and the code

Labyrinth keeps nothing in memory that matters and every command writes at most one
file, so there is no queue and no crash action: a command either leaves its file as
it means to, or, if the process dies in the write, empty. `ReadQuestion` reads an
empty file as a question with nothing set (`Unset`); `ReadServerInfo` leaves `release`
and `ReadHintTime` the time unassigned, which are choices in the model.

`LabyrinthQuestions`: a setting is a text, a sequence of lines, and a file holds what was
printed. `Parsed` is the parser, which does not give back what was printed where the owner has
typed a line break: the lines of an answer come back as one (`Glue`), those of a hint as they were, of a
permission the first, and the lines of the multiple answers two by two (`Entries`), so that an entry of three lines
is read as one and a half and the last is dropped. `ChangeQuestion` reads, puts in the settings that are given
and writes; a command gives one (`Set`). Its removal is nested in a test that only an unknown question
passes, so `!!deleteQuestion` writes back what it has read (`deleteQuestion`). `Answer` is
the branch of a right answer, or of one that leads to another question, with the calls
that open the channel and give the role (`Rewards`), of which any prefix may
happen. `AnswerInVain` is every other answer. A question with the channel `KICKTHISUSER` can
only be written by hand (`Traps`), as `!!setChannel` takes 18 characters; its kick comes
after two messages, and not at all if one is refused (`KickMember`). `given` and `deleted` are history.

`HintCooldown`: `Hint` and `HintRefused` are the branches of `/hint` for a question that
has one, `TearHint` and `TearInfo` the crashes in a write. `Minute` stands for 60,
`DefaultWait` for 30. The number -1 given to `!!setHintTime` is the code's sign for no
change. The wait in seconds is a product of ints (`Wait`). `sent` and `told` are history.

`UpDown` answers one message: `Whole`, `Decimal` and `MultiplyAcross` are one step,
`Divide` is one round of the loop that divides by hand against the digits of √2. The
text is taken apart already: a number before the point, digits behind it, a denominator.

## Properties and runs

| Run | Properties | Instance | Distinct states |
|---|---|---|---|
| `SoloSession.cfg` | `ChannelExclusive`, `OneGamePerUser`, `NoLockout`, `SeatRefinement` | 2 users, 2 channels, 2 games, 1 press each, 1 crash, symmetry | 1.1 M |
| `SoloUnlock.cfg` | `CacheFresh`, `StakeCovered`, `SettledOnce`, `SettlementUnlocks` | 1 user, 2 channels, bets 15 and 20, 2 presses each, money set to 500 at any time, 1 crash | 0.6 M |
| `BlackJack.cfg` | `RoundSettledOnce`, `NextMeansStanding`, `DealerStands`, `RoundRefinement` | ranks ace, seven, ten; 3 chips; hands of 4; 2 presses of a button, 3 of all, in flight | 2.3 M |
| `Games.cfg` | `FloorKept`, `FitsInt`, `ForecastKept`, `WinsGrow`, `RoundRefinement` | dice: bets 10, 33, 4000; 7 rolls; 1 press each | 0.9 M |
| | `ResultIsRules`, `AllStrikesWin`, `AacRefinement` | guessing: 2 of 3 digits, 6 guesses, bet 20 | |
| | `VerdictIsExact` | up-down: numbers to 40, up to 3 decimals, an int of 600 values, 8 digits of the root | |
| `Bank.cfg` | `TypeOK`, `LedgerRefinement`, `DebtHasCause` | 2 users, 2 commands, an int of 2^18 values, 1 crash | 0.1 M |
| `Qasino.cfg` | `GameChipsFresh` | 2 users, 1 game, 2 commands, 1 crash, symmetry | 1.4 M |
| `Economy.cfg` | `MarkIsFlagged`, `StripsOnlyMarks`, `GiftsApart`, `MarkComesOff` | beggars: 1 member, a gate of 2, a lag of 1, clock to 12, 1 new name, 1 crash | 0.4 M |
| | `Solvent`, `JumpsBounded`, `TradesGainNothing` | market: 2 stocks, one the mirror, an int of 8000 values, 3 updates, 2 trades, 1 death | |
| `Labyrinth.cfg` | `ReadsAsGiven`, `LeadsAreFixed`, `ChannelComesFirst` | questions: 2, one a trap; answers of 1 and 2 lines, 1 member, 4 commands | 0.8 M |
| | `ToldEnough`, `HintsApart`, `SettingsKept` | hints: 2 members, waits 0, 2, 3, clock to 6, minutes of 2, an int of 10 values | |
| `BankSend.cfg` | `SendConserves` is violated | as `Bank.cfg` | |
| `BankNick.cfg` | `NickIsPaid` is violated | as `Bank.cfg` | |
| `QasinoMoney.cfg` | `GamesLeaveMoney` is violated | 2 users, 2 games, 1 command | |
| `LabyrinthDelete.cfg` | `DeleteRemoves` is violated | as `Labyrinth.cfg` | |

`Games.cfg`, `Economy.cfg` and `Labyrinth.cfg` run parts that share no state. A behaviour chooses one of
them at the start and keeps the others still (`played`, `scene`, `store`), so the states add up and do not multiply,
and each part behaves as under its own specification.

Every module with behaviours of its own states its type invariant, and all of them are
proved for all values of the constants. They are not repeated in the runs, but for
that of `Bank`.

What they show:

- `ChannelExclusive`, `SeatRefinement`: the scan that erases from the vector it
  walks keeps one game per channel; no game is ever replaced in its seat, and a
  stake only doubles.
- `OneGamePerUser`, `CacheFresh`: as long as nothing clears the flag in
  mid-game, a user has one game, and the copy that `EndGame` writes over the
  file is behind it in the money at most, which others may move in mid-game and `EndGame`
  then puts back (`GamesLeaveMoney` is the violation); chips and flag are the file's. The exception is real: a press on a dead message
  clears the presser's flag, after which a second game starts from the same chips
  and the later end overwrites the earlier one. The user is then in `stray`.
- `SettledOnce`: late and repeated presses find no object to settle again, also
  on the quit button that the guessing game never retires. Only `/gc` on an
  object it never found can settle twice (`wild`).
- `NoLockout`, `SettlementUnlocks`: a set flag belongs to a running game while no
  crash has happened, and a settled game gives the flag back if the
  process lives on. After a crash the flag stays until the old message is pressed.
- `StakeCovered`: a stake is covered by the chips of the copy; after
  doubling by twice the chips, no more, since the check compares the chips
  with the bet before it doubles. A lost doubled bet can therefore leave negative chips.
- `RoundSettledOnce`: in blackjack one handler could call `EndGame` twice after a
  natural; it takes a natural with a dealer who is done, and no order of
  presses gets there. `NextMeansStanding`, `DealerStands`: a stale `next` never draws
  for the dealer of a player who may still draw; it may draw on 17 and more
  only while an ace waits for its answer, when the handler looks at nothing else.
- `ForecastKept`, `WinsGrow`, `FloorKept`: the dice table becomes what the message
  promised, grows with every won roll, and is above seven tenths of the bet,
  also if late presses choose again. `FitsInt`: for bets up to 4000 the first eight
  rolls stay below 2^31. The code has no limit on either.
- `ResultIsRules`, `AllStrikesWin`: strikes and balls are those of the game's rules, although
  one array of marks stands for all digits of the answer, because neither an answer nor an accepted
  guess has a digit twice. The round pays for the guess that is shown as all strikes, for
  that one only, with the prize of its turn, also when the guess reaches a game that is over.
- `RoundRefinement` (both), `AacRefinement`: the rounds do what `SoloSession` lets them do. Dice and blackjack
  end once; a guessing game that is over can be won again by a late `/gc`, which is `wild` in `SoloSession`.
- `LedgerRefinement`: at every crash point the accounts have changed by one whole
  operation of `Ledger`: money may be lost in transit or an account reset, but is
  never credited without the debit, because the sender's file is written first.
- `MarkIsFlagged`: wherever a crash cuts `/beg` or a restoration, a marked nick has the
  flag that makes the gate restore it, and never two marks. `StripsOnlyMarks`: gate and timer may both
  restore, and the gate still never bites a name, unless a crash has separated flag and nick before,
  the administrator renamed a beggar, or the nick and its mark were more than the 63 bytes that a file keeps.
  The last needs no fault: who begs under a long nick loses it in the file and, if the gate
  comes before the timer, the start of the Discord name instead. `MarkComesOff`: without a crash the timer suffices. After a
  crash the mark stays until the member comes back and meets the gate.
- `GiftsApart`: two gifts of `/beg` to one member are more than two hours apart, also through crashes
  and a timer that clears the flag early: the time is on file before the money. Only a torn file
  forgets it, and the money with it.
- `JumpsBounded`: with one listing a price moves by `Dev` at most. A second READY in the process's life
  makes the stocks move twice on one file: what is offered may then jump by three times as much.
- `Solvent`, `TradesGainNothing`: no trade makes debts, negative holdings or a gain at the prices of the
  moment, except by a product that leaves the `int`, or by selling the mirror at a negative
  price (`Ceiling` bounds no stock). Both exceptions are reachable.
- `VerdictIsExact`: the answer is that of exact arithmetic, also of a long division that keeps only a
  rest, as long as the products are ints; and no number is taken for √2.
- `DebtHasCause`: three things take more money than there is: a negative count in `/chip sell`, a product or a
  sum that leaves the int (from 2147484 chips on `/chip buy` compares a negative price), and
  the administrator. All three are reachable, and nothing else is, wherever a crash cuts a command.
- `GameChipsFresh`: bank commands leave the chips of a running game's player
  alone, as `/chip` is closed by the flag and transfers write the chips back.

- `ReadsAsGiven`: what is read of a question is what was given for each setting, with line breaks as the
  parser takes them, however often the file was printed and read for the sake of other settings.
  A line break in one setting never reaches another, and an entry of an odd number of lines never shifts those before it or after it.
- `LeadsAreFixed`: where an answer leads is settled by the first command about it, for good.
- `ChannelComesFirst`: when the calls of a reward fail in the middle, the role is
  what is missing, and answering again completes it.
- `HintsApart`, `ToldEnough`: two hints are a wait apart whatever the owner and crashes do in between, and the announced
  minutes are enough. Only a torn record can cut a wait short, or a wait of more than 35791394 minutes, whose seconds
  do not fit the int (both properties say so).
- `SettingsKept`: the owner's changes of wait, log channel and release keep each other.

Three of the violated properties are statements of the repository's README that
the code breaks: a transfer to oneself makes money; `/nick` is free; money
sent to a player in mid-game is erased by `EndGame`'s write of its copy. The fourth is what
a command is named for and a call of `remove()` is there for: `!!deleteQuestion` deletes nothing.

Each property of a passing run has a mutant in the module of what it varies (an operator whose
comment starts with "Mutant"): with it in place of the definition it varies, TLC
finds the property violated in the same instance.

### Bounds

`MaxGames` bounds the game objects ever made, `MaxPress` the presses of one
button by one user in flight, `MaxCrash` the crashes, `MaxServed` the bank's commands.
Two games are enough for a second game in the same channel, of the same user,
or in the vector with a dead one; two presses for a repeat; one crash for every
prefix of every handler, followed by life after it. Bets of 20 meet the least
bets of all three games, bets of 15 those of two; payouts of 40
double the chips. A player has chips for one bet, so that the second bet tests the checks.
The money that somebody else leaves a player with (`Sums`) is one value in `SoloUnlock.cfg`, enough for a
copy that is behind; the other session run has none, and the theorems cover both. In `Bank.cfg` the int
has 2^18 values (`Half`): the price of 132 chips, one of the counts, is past it and comes out negative, and an account at the largest
int takes every sum over the edge; two commands are a cause and what follows from it.
In `BlackJack.cfg` three presses of different buttons, or two of one and one of another, may be late together.
Symmetry is used with invariants and with `SeatRefinement`, a property of single steps that names no user.
Deadlock is checked in the runs of sessions and bank, where an interaction with
no effect is always possible, and not in those of the rounds, which end, nor in `Economy.cfg`, whose
clock and updates are bounded.

In `Labyrinth.cfg` four commands are enough for two entries with the same answer on a question
with an answer, or an entry of three lines between two others and another setting after them. The answers
have one line or two, of which the first is a word that members answer with, and so is what `Glue` makes of both. The clock goes
past the longest wait twice over the default; minutes of two seconds tell rounding up from rounding down; the
longest wait does not fit the int of ten values.

In `Economy.cfg` the clock has room for two begs with their timers, one late and
one on time, and a gift before and after a crash; of the two names
one has room for a mark in the file (`Room`) and one has none. Three updates allow two listings that move
twice, or a restart after them; prices around `Ceiling` make the mirror 0 and negative; of the counts
one is negative, one affordable, one more than the int holds. In `Games.cfg` two of three digits make every mix of strikes, balls and
outs, and six guesses any history before the right one; an int of 600 values separates
fractions in and out of range, and eight digits of √2 separate every fraction with
terms up to 40 from it.

`MaxCards` bounds the hands: four cards make every ending, and a dealer who draws one
card too many. `MaxRolls` bounds the rolls: the table is past any small-number effect after
two, and seven rolls are those of `FitsInt`.

### Fairness

`Fairness` is weak fairness of `Perform`: a handler is straight-line code and gets
to its end unless the process dies (`Crash` disables `Perform` by emptying the
queue). Nothing is assumed of users, messages or crashes.

`BeggarGate` also assumes that time passes (`Tick`) and that a member's due timer fires. Both
are strong: they are possible only between two handlers, again and again, and the event loop
is a queue in which a due timer gets its turn however many interactions come.

## Proofs

Every property of the passing runs but the two of liveness is a theorem, for every value
of the constants that the named assumptions of its module, and the hypotheses that three of
the theorems state, allow. TLC says that the
property holds, and that a plausible bug breaks it, on a small instance; the theorem that
the instance hides nothing.

### Sessions (`SoloSession_proofs`)

| Theorem | Statement |
|---|---|
| `TypeCorrect` | `Spec => []TypeOK` |
| `IdsNotReused` | `Spec => []NextIsNew` |
| `OneGamePerChannel` | `Spec => []ChannelExclusive` |
| `BetsAreCovered` | `Spec => []StakeCovered` |
| `SessionIsTable` | `Spec => SeatRefinement` |
| `GamesAreSettledOnce` | `Spec => []SettledOnce` |
| `PlayersHaveOneGame` | `Spec => []OneGamePerUser` |
| `CopiesAreFresh` | `Spec => []CacheFresh` |
| `NobodyIsLockedOut` | `NobodyPlays /\ Spec => []NoLockout` |

`TypeCorrect` has one lemma per group of actions, on lemmas about
the operators (`EraseType`, `EndGameType`, ...). `LiveStep` then classifies what a
step can do to the running games: nothing, all gone, one gone, one doubled under its guard,
or one started in a channel that had none. The theorems
on channels, stakes and tables follow from this classification and not from
the actions again. `LiveStep` needs `NextIsNew` (the next ID names no object
yet), or a push could overwrite a running game.

`SettledOnce` is not inductive: it does not say that a running game has not been
paid. `SettleInv` adds that, and ties the second payment to `wild`; `PaidStep` and
`VectorStep` give its steps.

The three theorems on the flag and the copies have a classification of their own,
`FileChange`: what a step does to the running games together with what the queue will leave
in the files. None of the three properties is inductive, as each speaks of the file and only
between two handlers. `ComesTo(u, r)` says that the file of `u` will hold `r` when the
queue is empty: its last queued write has `r`, or there is none and the file has it. `CopyInv` says
that the file of every player with a running game who is not in `stray` will hold the set flag
and the chips of the game's copy. It says nothing of the money, which others move during a
game (`/send`, `||money`) and which the copy then writes over. `FlagInv` says that the
flag of a player without a game comes to 0. Performing an effect changes neither
(`PerformKeeps`), so all the work is in the handlers, one lemma for each group.

`NobodyPlays`, that no file has the flag set at the start, is a hypothesis about the first
start of the bot; with a flag already set the property is false from the first state, as
it should be: that is the state a crash leaves behind.

### Bank and whole bot (`Bank_proofs`, `Qasino_proofs`)

`TypeCorrect`, `BankIsLedger` (`Spec => LedgerRefinement`), `DebtsHaveCause`, for every width of the int. The last two
properties speak of what happens at the points where a command may be cut off. `JobInv` says
where a running command can be: it leaves all accounts as they are, or one write that orders
its operation is still queued, or a debit and a credit are, or the credit alone and the debit is in the file. `Moves` is the
operation of `Ledger` that a step makes of it; `Settles` shows that performing the last effect
makes the whole operation, `Dies` that a crash in between makes one
that `Ledger` has too (`Lose`, `LoseAndReset`, `Reset`) or none.

`TheBankLeavesPlayersTheirChips` (`BotSpec => []GameChipsFresh`) is about the
composition. Its invariant is `CopyInv` again, which holds with the bank in the room because it
speaks of the flag and the chips alone. The sessions' steps keep it by the same `FileChange` lemmas, cited and not proved
again. The bank's keep it because each of its effects is `Gentle`: it leaves a player the flag and
the chips, as `/chip` is refused while the flag is up and transfers write back the chips they read.

### Blackjack (`BlackJackRound_proofs`)

`RoundTypeCorrect`, `RoundsAreSettledOnce`, `NextFindsStanding`, `DealerDrawsBelow17`,
`BlackJackImplementsSoloRound`. `Score` sums by recursion, so nothing about it is there by definition: `ScoreIsSum`
shows that it is the last of the partial sums.
`RoundsAreSettledOnce` is the hard one: `Process` calls `EndGame` twice if a natural meets a dealer
who is done while the player stands. `OpenInv` says that a round that goes on has nothing
left to settle, and `FirstAce` covers the state where `Process` returns early and so leaves
something: the ace of the first two cards is in question, only its two buttons are shown or on
their way, and the player has not stood.

### Games (`Games_proofs`)

*Dice bet.* For every set of bets from 10 on (the least bet) and any number of rolls:
`TypeCorrect`, `TableAboveFloor`, `PromiseKept`, `EveryWinGrows`, `RoundImplementsSoloRound`.
`IncreasePositive` and `IncreaseAnyCount` carry it: the last term of the growth is 1 exactly when the
first is 0, and does not depend on the count. `Promised` is the inductive part: the message's
promise is the table after the next won roll. It needs `MenuFirst`: before the
first choice nothing but the menu can be pressed. `RollsFitTheInt` is `FitsInt` for any bets of 4000 at
most and up to seven rolls, with all late choices: `WithinMost` bounds the table after each
won roll by that of the largest bet and rate (`Most`), as the growth is monotone. Its two hypotheses are the
limits within which the property is true; beyond them the code does overflow.

*The guessing game.* For every set of digits, length of the answer, bet and table of
prizes: `AacTypeCorrect`, `ResultsAreRules`, `StrikesWin`, `AacImplementsSoloRound`. `ResultIsRules`
follows from distinct digits alone: `CommonDigits` is the bijection from
the places of a guess that are strikes or balls to the digits both texts hold, and three disjoint sets
that cover the places give the sum. `AllStrikes` says that a guess is all strikes if and only if it is the answer, so
`StrikesWin` and the refinement follow step by step from the types.

*Up-down.* `UpDownTypeCorrect`, and `VerdictsAreExact`: for every width of the int, every number and every
decimal text, of any length, what is answered is what exact arithmetic says. The parts:

- Decimals against 31/7 (`Decimal91`): `Weighed` says, digit by digit, that the number typed so far agrees with
  the period 4, 2, 8, 5, 7, 1 and the gap to 31/7 is the rest of the division of 31 by 7, or that a
  digit has decided and the gap is too large to be made up by those that follow.
- Decimals against √2 (`Decimal14`): however the digits go on, a number stays in the unit of any of its
  places (`DigitsGoOn`), and the first digit that differs is in a place whose unit lies on one side of the root.
- Fractions against 31/7 (`ProductIsExact`): the products are those of the int, where they fit.
- Fractions against √2: `DivisionInv` is the long division, *numerator · 10^k = digits so far · denominator + rest*,
  and that the digits so far are those of the root. A digit that differs puts the fraction on one side (`DivisionRound`, `AboveRoot`,
  `BelowRoot`). If none does, the fraction is closer to the root than 10^-k, which `DigitsDecide` refutes for
  a denominator *d* with 3·*d*² ≤ 10^k, because |*n*² - 2·*d*²| ≥ 1: the root of 2 is irrational (`RootIsIrrational`).

The theorem has two hypotheses. `RootIsRoot(r, p)`: the digits `Root` are those of the root of
2 (`r` are its first digits, read as a number, `p` the powers of ten; `WritesExists` shows that both are there for any
digits). `RootIsLong(p)`: no text typed goes on after all digits of `Root`, and 3·*d*² ≤ 10^(`Len(Root)` - 1) for
every denominator. The code's `r2` meets them: its 1276 digits are those of √2, the division
uses 1000 rounds, and a denominator has ten digits. The text that the first hypothesis leaves out has all
1276 digits right and more behind them; for it the code reads beyond the end of `r2`.

### Beggars and market (`Economy_proofs`)

*Beggars.* For all members, names, periods and lags: `BeggarTypeCorrect`,
`MarksAreFlagged`, `GiftsKeepApart`, `GateTakesOffMarks`. None of the three properties is
inductive, since each speaks of files and a running handler will still write. The
strengthenings say the same of every record on its way: `FlagInv` that each queued record is
flagged or unmarked, `GiftInv` that whoever has been given money carries a time at least as late in
the file, in each queued record, and that at most one queued write of a handler adds money, `CutInv` that no nick in the
file, the queue or a timer is cut, and that a nick without a mark has lost its flag by the end of
the queue.

*Market.* For any number of stocks, moves, counts and width of the int:
`MarketTypeCorrect`, `TradersStaySolvent`, `TradesDoNotGain`, `PricesJumpSoFar`. `MarketInv` adds that
the vector is empty or holds a whole listing, that a stock and its mirror add up (`MirrorAddsUp`), and that prices but the mirror's are not negative. The trades rest
on two facts of the int: `Wrap` of a number that fits is the number, and 97 parts of 100, divided with
truncation, are no more than the whole. For the jumps, `BoardInv` says how far a file, and what is still
to be written to it, may be from the price that is shown: with one listing not at all, once the writes are
done; with two, twice the deviation, because both listings were moved from the same file.

### Labyrinth (`LabyrinthQuestions_proofs`, `HintCooldown_proofs`)

For all lines, texts, questions, channels, roles and members, and any way of putting lines
together that keeps a single one (`GlueAssumption`): `TypeCorrect`, `GivenIsRead`, `FirstLeadStays`, `RoleAfterChannel`.
`QuestionsInv` says that every question is read as it was given, deleted ones included. What carries it
is `AfterPaired`: lines put after an even number of lines are read after them, without a shift, and what was read once
has an even number (`EntriesAre`). With it `OneSettingRead` shows, setting by setting, that a text put into a record that was read (`Clean`) comes back in its
place as the value it should have, and all others as they were; `SetPuts` and `EditPuts` bring every command to
that, and `PutsLeaves` is what it leaves of the files. For the leads `LeadAppended` adds that lines after those that pair up
do not change the first entry for an answer. `RewardGives` is what a prefix of the calls of a reward gives.

For all members, settings, clocks and lengths of the
minute: `TypeCorrect`, `HintsAreRecorded`, `HintsKeepApart`, `WaitIsAsTold`, `OtherSettingsKept`. The
inductive part is `ToldInv`: the time announced is no earlier than the last hint plus
the wait, if that fits the int, which `AnnouncedIsEnough` gets from the division and `WaitMonotone` keeps
when the wait is lowered. `HintsKeepApart` follows from `SentIsRecorded`, as the test of `/hint`
looks at the record and not at what was sent.

### Recursion

The library's induction theorems cannot be instantiated by the provers, so what a
recursive function computes is shown by the least counterexample instead: a set of
numbers that is not empty has a least member (`LeastNat`, from `WFMin` and
`NatLessThanWellFounded`), and the step refutes it. The sums of blackjack, the written numbers and
the long divisions are done so.

### Only model-checked

`SettlementUnlocks` and `MarkComesOff`: liveness under fairness is beyond the prover. The
four violations are TLC's counterexamples. That the code's mutants break the properties is
TLC's, too.

## Not modelled, and assumptions

- The text manager: text templates from files that the repository does not hold, and a ring of ten output
  strings. Every caller of `GetTextA` copies the text or uses it in the same expression, of which none has more
  than five calls, and handlers run one after the other: no pointer into the ring outlives its slot.
- Of the guessing game, the rate that its message announces (it and the rate that is paid are computed by
  different expressions, but the announcing text is not in the repository), and the number of
  fields Discord takes in a message.
- Of the market, the ninety-nine older values and the chart drawn from them, `ECO_STOCK_MONEY`, which is only
  shown, and a name of a stock that is not in the list, which the registered command does not offer.
- Of the beggars, `editMember`, which shows the nick on Discord. `/beg` and `/stock` are closed while the flag is set, and a
  press passes the gate before it ends a game; so a game's old copy overwrites what begging and trades have
  written only after a flag was cleared in mid-game, which is `stray` in `CacheFresh`.
- Of Labyrinth's questions, that names whose first 63 bytes agree share a file: the model's questions are files.
- `/help`, `/uptime`, `/profile`, `/getadmin`, `/dice`, `/cardpick`: they reply and change nothing but the stamp.
- Of Labyrinth: the log messages, the list of servers and its menu, the status wheel, messages
  with role buttons, lines that equal the title of a section (which a setting could use to reach into another) or settings that are the
  sentinel `=invalid=`, the wait of a member without a file, taken to be over (it is half a century of seconds), and interactions by direct message. Of the up-down games, a text that is no number and
  the texts that name √2 outright, which have answers of their own.
- The clocks of the two gates: whether a gate turns a press away is a choice.
- Of `_sologames`' objects, the write that a constructor's `Clear` makes to the
  file of the ID `=invalid=`, which is no user's.
- Overflow of the `int` is modelled in `Bank`, `Market`, `UpDown` and `HintCooldown`, as the wrap-around that the builds show; to
  the language it is undefined. The chips of a game are unbounded: of the dice table, `FitsInt` says where
  the integers of the model stop to be those of the code.
- The parts of `Qasino` other than sessions and bank are checked beside them, not with them: the gate is
  a choice in `SoloSession`, and a trade changes money and holdings, which no game reads.
- The deck of 52 cards: any rank may be drawn at any time.
- A natural reached in mid-round edits its message again after `EndGame` has reset
  the ID; the edit names an ID that is no valid text and is taken to be refused.
- `||info` can set any field of any record; an administrator who edits the chips or the flag of a playing
  user is outside `CacheFresh`.
- The library: one handler at a time, effects in order, a moved-from
  `Interaction` still holds its channel ID (its parts are copied), presses on
  their way are lost when the process dies. JSON parses or does not.

## Plan

All components with a logic of their own have a module, and the properties of safety are
proved. What is left:

1. A lemma for each of the two liveness properties on its safety part: what the fair action is for
   while the property is owed, and that no other step loses it.
2. `SessionIsTable` and the rounds' refinements in one theorem about a session that plays a given round.
3. That, without a torn file, a negative sale or a sum that leaves the int, the sum of money in the bank changes by grants
   and trades with the bank only.
