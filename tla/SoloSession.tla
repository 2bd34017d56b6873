---- MODULE SoloSession ----
(***************************************************************************)
(* Solo games and the dispatcher in front of them: onInteraction of        *)
(* QasinoBot.cpp with the vector _sologames, and SoloGame::OnStart,        *)
(* EndGame and Clear, which copy a player's record into the game at its    *)
(* start and write the copy back at its end.                               *)
(*                                                                         *)
(* What happens at a table between start and end (dice, cards, guesses) is *)
(* abstracted to its effect on the session: the round goes on, the bet is  *)
(* doubled, or it ends with a win or a loss.                               *)
(***************************************************************************)
EXTENDS QamblerStore

CONSTANTS
    Channels,
    NoGame,     \* a game object that does not exist or was erased
    Vacant,     \* an empty seat of ChannelTable
    Bets,       \* the bets players type
    Payouts,    \* what a won dice bet or guessing game may pay
    Sums,       \* the money a qambler may be left with by someone else
    MaxGames,   \* bound: how many game objects are made
    MaxPress,   \* bound: presses of one button by one user in flight
    MaxCrash    \* bound: how often the process dies

Kinds == {"dice", "blackjack", "aac"}

\* _leastbet, from the constructors of DiceBet, BlackJack and AAC.
LeastBet(k) == CASE k = "dice" -> 10
                 [] k = "blackjack" -> 1
                 [] k = "aac" -> 20

\* Interaction IDs grow, so the order of _sologames is the order of its IDs.
Ids == 1..MaxGames

Phases == {"live",      \* IsPlaying()
           "refused",   \* OnStart returned false, the object is still listed
           "done"}      \* EndGame has run, the object is still listed

Game == [kind: Kinds, owner: Users, chan: Channels, bet: Int, cache: Rec,
         phase: Phases]

ASSUME SessionAssumption ==
    /\ NoGame \notin Game
    /\ Vacant \notin [who: Users, stake: Int]
    /\ Bets \subseteq Int
    /\ Payouts \subseteq Int
    /\ Sums \subseteq Int
    /\ MaxGames \in Nat
    /\ MaxPress \in Nat
    /\ MaxCrash \in Nat

VARIABLES
    solo,       \* [Ids -> Game \cup {NoGame}], the objects in _sologames
    nextId,     \* the next interaction ID that may become a game
    msg,        \* [Ids -> ...], whether a game's message carries buttons
    clicks,     \* presses on their way to the bot, per user and game
    crashes,    \* how often the process has died
    paid,       \* history: how often a game was settled
    wild,       \* history: games settled by a gc that never found them
    stray       \* history: users whose flag was cleared in mid-game by
                \* something other than the end of that game

sessionVars == <<solo, nextId, msg, clicks, crashes, paid, wild, stray>>
vars == <<file, queue, sessionVars>>

---------------------------------------------------------------------------
\* Outside effects of this module, besides the writes of QamblerStore.

Post(g)   == [op |-> "post", game |-> g]     \* a message with live buttons
Retire(g) == [op |-> "retire", game |-> g]   \* edited to "gameover", or deleted
Abort     == [op |-> "abort"]                \* undefined behaviour: it dies

Effect == WriteEffect \cup [op: {"post", "retire"}, game: Ids] \cup [op: {"abort"}]

---------------------------------------------------------------------------
\* The vector _sologames.

First(S) == CHOOSE g \in S : \A h \in S : g <= h
Last(S)  == CHOOSE g \in S : \A h \in S : h <= g

Vector    == {g \in Ids : solo[g] # NoGame}
LiveGames == {g \in Vector : solo[g].phase = "live"}
\* Mutant: the scan for a running game starts one object too late.
LiveInAfterFirst(c) == {g \in LiveGames : solo[g].chan = c /\ g # First(Vector)}

LiveIn(c) == {g \in LiveGames : solo[g].chan = c}
LiveOf(u) == {g \in LiveGames : solo[g].owner = u}
Dead      == Vector \ LiveGames

Erase(S) == [g \in Ids |-> IF g \in S THEN NoGame ELSE solo[g]]

\* Mutant: Clear leaves _gameID alone, so a game that is over is still found.
FoundListed(g) == g \in Vector

\* The search of a component's game by GetID(): Clear resets _gameID, so a
\* dead object is not found although it may still be listed.
Found(g) == g \in LiveGames

\* Mutant: OnStart sets the flag in the file's record and not in the copy.
NewGameUnflagged(k, u, c, b, r, ph) ==
    [kind |-> k, owner |-> u, chan |-> c, bet |-> b,
     cache |-> [r EXCEPT !.playing = 0], phase |-> ph]

NewGame(k, u, c, b, r, ph) ==
    [kind |-> k, owner |-> u, chan |-> c, bet |-> b, cache |-> r, phase |-> ph]

\* SoloGame::EndGame and the SoloGame::Clear it ends with: the player's chips
\* change in the game's copy of the record, which is written, and written
\* again with the flag cleared.
AfterPay(g, d)   == [solo[g].cache EXCEPT !.chip = solo[g].cache.chip + d]
AfterClear(g, d) == [AfterPay(g, d) EXCEPT !.playing = 0]

\* Mutant: Clear runs before the prize is paid.
EndGameWritesSwapped(g, d) == << Write(solo[g].owner, AfterClear(g, d)),
                                 Write(solo[g].owner, AfterPay(g, d)) >>

\* Mutant: EndGame returns without its Clear.
EndGameWritesOnce(g, d) == << Write(solo[g].owner, AfterPay(g, d)) >>

EndGameWrites(g, d) == << Write(solo[g].owner, AfterPay(g, d)),
                          Write(solo[g].owner, AfterClear(g, d)) >>

Ended(g, d) == [solo[g] EXCEPT !.cache = AfterClear(g, d), !.phase = "done"]

\* What EndGame adds to the chips on a win: the prize less the bet.  Blackjack
\* pays twice the bet, the other games what their table has come to.
Prizes(g) == IF solo[g].kind = "blackjack" THEN {2 * solo[g].bet} ELSE Payouts
Gains(g)  == {p - solo[g].bet : p \in Prizes(g)}

\* Dice and blackjack edit their message to "gameover" before EndGame; the
\* message of the guessing game keeps its quit button.
RetireOwn(g) == IF solo[g].kind = "aac" THEN << >> ELSE << Retire(g) >>

---------------------------------------------------------------------------
NoClicks == [u \in Users |-> [g \in Ids |-> 0]]

Init ==
    /\ StoreInit
    /\ solo = [g \in Ids |-> NoGame]
    /\ nextId = 1
    /\ msg = [g \in Ids |-> "none"]
    /\ clicks = NoClicks
    /\ crashes = 0
    /\ paid = [g \in Ids |-> 0]
    /\ wild = {}
    /\ stray = {}

---------------------------------------------------------------------------
\* Presses.  Anyone who sees the message may press, and a press that was made
\* before the message changed is still delivered after it.

Press(u, g) ==
    /\ msg[g] = "live"
    /\ clicks[u][g] < MaxPress
    /\ clicks' = [clicks EXCEPT ![u][g] = @ + 1]
    /\ UNCHANGED <<file, queue, solo, nextId, msg, crashes, paid, wild, stray>>

\* The bot takes a press off the wire when no handler is running.
Deliver(u, g) ==
    /\ Idle
    /\ clicks[u][g] > 0
    /\ clicks' = [clicks EXCEPT ![u][g] = @ - 1]

\* The beggar or the spam gate turns the press away, either before any write
\* or, when the beggar's time is up, with the two writes of UpdNick.  The record
\* of a file that cannot be read is new and passes both gates.
PressGated(u, g) ==
    /\ Deliver(u, g)
    /\ file[u] # NoRec
    /\ queue' \in {<< >>, << Stamp(u), Stamp(u) >>}
    /\ UNCHANGED <<file, solo, nextId, msg, crashes, paid, wild, stray>>

\* The game is found but the presser is not its player, or the round goes on.
\* Any press on the guessing game by its player is "quit".
PressPassed(u, g) ==
    /\ Deliver(u, g)
    /\ Found(g)
    /\ solo[g].owner # u \/ solo[g].kind # "aac"
    /\ queue' = << Stamp(u) >>
    /\ UNCHANGED <<file, solo, nextId, msg, crashes, paid, wild, stray>>

\* "doubledown": guarded by the chips in the game's copy of the record.
PressDouble(u, g) ==
    /\ Deliver(u, g)
    /\ Found(g)
    /\ solo[g].owner = u
    /\ solo[g].kind = "blackjack"
    /\ solo[g].cache.chip >= solo[g].bet
    /\ solo' = [solo EXCEPT ![g].bet = 2 * @]
    /\ queue' = << Stamp(u) >>
    /\ UNCHANGED <<file, nextId, msg, crashes, paid, wild, stray>>

\* EndGame(result, money) from a press of the player.
PressEnds(u, g, d) ==
    /\ Deliver(u, g)
    /\ Found(g)
    /\ solo[g].owner = u
    /\ solo' = [solo EXCEPT ![g] = Ended(g, d)]
    /\ queue' = << Stamp(u) >> \o RetireOwn(g) \o EndGameWrites(g, d)
    /\ paid' = [paid EXCEPT ![g] = @ + 1]
    /\ UNCHANGED <<file, nextId, msg, crashes, wild, stray>>

PressLoses(u, g) == PressEnds(u, g, 0 - solo[g].bet)

PressWins(u, g) ==
    /\ Found(g)
    /\ solo[g].kind # "aac"
    /\ \E d \in Gains(g) : PressEnds(u, g, d)

\* No object answers to the message's ID: the message is deleted and the
\* presser's flag cleared, whoever the message belonged to.
PressUnknown(u, g) ==
    /\ Deliver(u, g)
    /\ ~Found(g)
    /\ queue' = << Stamp(u), Retire(g), Write(u, [Read(u) EXCEPT !.playing = 0]) >>
    /\ stray' = IF LiveOf(u) = {} THEN stray ELSE stray \cup {u}
    /\ UNCHANGED <<file, solo, nextId, msg, crashes, paid, wild>>

---------------------------------------------------------------------------
\* Slash commands.

\* One that the PL_X check turns away, or that touches none of this state.
OtherCommand(u) ==
    /\ Idle
    /\ queue' = << Stamp(u) >>
    /\ UNCHANGED <<file, sessionVars>>

\* /solo-game in a channel that has a running game: the scan returns at that
\* game, having erased the dead objects it passed.
SoloBusy(u, c) ==
    /\ Idle
    /\ Read(u).playing = 0
    /\ LiveIn(c) # {}
    /\ solo' = Erase({g \in Dead : g < First(LiveIn(c))})
    /\ queue' = << Stamp(u) >>
    /\ UNCHANGED <<file, nextId, msg, clicks, crashes, paid, wild, stray>>

\* Mutant: the channel's running game does not end the handler.
SoloPushUnscanned(u, c, k, b, ph, flag, rest) ==
    /\ Idle
    /\ nextId <= MaxGames
    /\ Read(u).playing = 0
    /\ LET r == [Read(u) EXCEPT !.playing = flag]
       IN  /\ solo' = [Erase(Dead) EXCEPT ![nextId] = NewGame(k, u, c, b, r, ph)]
           /\ queue' = << Stamp(u), Write(u, r) >> \o rest
    /\ nextId' = nextId + 1
    /\ UNCHANGED <<file, msg, clicks, crashes, paid, wild, stray>>

\* /solo-game in a free channel: the scan erases every dead object, a new one
\* is pushed, and OnStart copies the member's record.
SoloPush(u, c, k, b, ph, flag, rest) ==
    /\ Idle
    /\ nextId <= MaxGames
    /\ Read(u).playing = 0
    /\ LiveIn(c) = {}
    /\ LET r == [Read(u) EXCEPT !.playing = flag]
       IN  /\ solo' = [Erase(Dead) EXCEPT ![nextId] = NewGame(k, u, c, b, r, ph)]
           /\ queue' = << Stamp(u), Write(u, r) >> \o rest
    /\ nextId' = nextId + 1
    /\ UNCHANGED <<file, msg, clicks, crashes, paid, wild, stray>>

\* OnStart refuses the bet; Clear writes the record back with the flag at 0.
SoloRefuse(u, c, k, b) ==
    /\ b < LeastBet(k) \/ Read(u).chip < b
    /\ SoloPush(u, c, k, b, "refused", 0, << >>)

\* Mutant: the chips are compared with the least bet.
SoloStartOnLeast(u, c, k, b) ==
    /\ b >= LeastBet(k)
    /\ Read(u).chip >= LeastBet(k)
    /\ SoloPush(u, c, k, b, "live", 1, << Post(nextId) >>)

\* Mutant: OnStart forgets the flag.
SoloStartUnflagged(u, c, k, b) ==
    /\ b >= LeastBet(k)
    /\ Read(u).chip >= b
    /\ SoloPush(u, c, k, b, "live", 0, << Post(nextId) >>)

\* OnStart accepts: the flag is written, then Process sends the message.
SoloStart(u, c, k, b) ==
    /\ b >= LeastBet(k)
    /\ Read(u).chip >= b
    /\ SoloPush(u, c, k, b, "live", 1, << Post(nextId) >>)

---------------------------------------------------------------------------
\* /gc, the guess of the guessing game, allowed while playing.  Its scan
\* erases dead objects up to the first running game of the member.

GcScan(u) == Erase({g \in Dead : LiveOf(u) # {} => g < First(LiveOf(u))})

GcFinds(u) == Idle /\ LiveOf(u) # {}

\* A wrong or malformed guess.
GcMiss(u) ==
    /\ GcFinds(u)
    /\ solo[First(LiveOf(u))].kind = "aac"
    /\ solo' = GcScan(u)
    /\ queue' = << Stamp(u) >>
    /\ UNCHANGED <<file, nextId, msg, clicks, crashes, paid, wild, stray>>

GcHit(u) ==
    /\ GcFinds(u)
    /\ LET g == First(LiveOf(u))
       IN  /\ solo[g].kind = "aac"
           /\ \E d \in Gains(g) :
                /\ solo' = [GcScan(u) EXCEPT ![g] = Ended(g, d)]
                /\ queue' = << Stamp(u) >> \o EndGameWrites(g, d)
           /\ paid' = [paid EXCEPT ![g] = @ + 1]
    /\ UNCHANGED <<file, nextId, msg, clicks, crashes, wild, stray>>

\* A slash command has no custom ID: dice and blackjack index the third part
\* of an empty split.
GcIndexesEmpty(u) ==
    /\ GcFinds(u)
    /\ solo[First(LiveOf(u))].kind # "aac"
    /\ crashes < MaxCrash
    /\ queue' = << Stamp(u), Abort >>
    /\ UNCHANGED <<file, sessionVars>>

\* Nothing is found.  The flag "init" of this handler is never assigned on
\* that path, so it reads as either value.  As false: the gc-notfound reply.
\* As true, with a wrong guess: no more than that either.
GcNotFound(u) ==
    /\ Idle
    /\ LiveOf(u) = {}
    /\ solo' = GcScan(u)
    /\ queue' = << Stamp(u) >>
    /\ UNCHANGED <<file, nextId, msg, clicks, crashes, paid, wild, stray>>

\* As true, "soloGame" is the last object visited, running or just erased: it
\* can take a guess if it is a guessing game that was started.
TakesGuess ==
    /\ Vector # {}
    /\ solo[Last(Vector)].kind = "aac"
    /\ solo[Last(Vector)].phase # "refused"

\* A right guess settles that game, for its own player, whoever guessed.
GcStrayHit(u) ==
    /\ Idle
    /\ LiveOf(u) = {}
    /\ TakesGuess
    /\ LET g == Last(Vector)
           w == solo[g].owner
       IN  /\ \E d \in Gains(g) :
                /\ solo' = IF g \in Dead THEN GcScan(u)
                           ELSE [GcScan(u) EXCEPT ![g] = Ended(g, d)]
                /\ queue' = << Stamp(u) >> \o EndGameWrites(g, d)
           /\ paid' = [paid EXCEPT ![g] = @ + 1]
           /\ wild' = wild \cup {g}
           /\ stray' = IF LiveOf(w) \ {g} = {} THEN stray ELSE stray \cup {w}
    /\ UNCHANGED <<file, nextId, msg, clicks, crashes>>

\* As true with no usable object there: an unset pointer, an empty custom ID,
\* or the empty answer of a game that was refused.
GcStrayDies(u) ==
    /\ Idle
    /\ LiveOf(u) = {}
    /\ ~TakesGuess
    /\ crashes < MaxCrash
    /\ queue' = << Stamp(u), Abort >>
    /\ UNCHANGED <<file, sessionVars>>

---------------------------------------------------------------------------
\* Someone else moves the money of v, who may be in mid-game: no check is made
\* of the flag of who is sent money, nor by ||money.  Bank has the whole of both.
Receive(v, n) ==
    /\ Idle
    /\ queue' = SetMoney(v, n)
    /\ UNCHANGED <<file, sessionVars>>

---------------------------------------------------------------------------
\* The handler's effects, one at a time, and the death of the process.

PerformFlag == PerformWrite /\ UNCHANGED sessionVars

PerformMessage ==
    /\ ~Idle
    /\ Head(queue).op \in {"post", "retire"}
    /\ msg' = [msg EXCEPT ![Head(queue).game] =
                 IF Head(queue).op = "post" THEN "live" ELSE "gone"]
    /\ queue' = Tail(queue)
    /\ UNCHANGED <<file, solo, nextId, clicks, crashes, paid, wild, stray>>

\* Files and messages survive; the objects and what was on the wire do not.
Crash ==
    /\ crashes < MaxCrash
    /\ StoreCrash
    /\ solo' = [g \in Ids |-> NoGame]
    /\ clicks' = NoClicks
    /\ crashes' = crashes + 1
    /\ stray' = {}
    /\ UNCHANGED <<nextId, msg, paid, wild>>

Perform == PerformFlag \/ PerformMessage

Pressed(u, g) ==
    \/ PressGated(u, g)
    \/ PressPassed(u, g)
    \/ PressDouble(u, g)
    \/ PressLoses(u, g)
    \/ PressWins(u, g)
    \/ PressUnknown(u, g)

Gc(u) ==
    \/ GcMiss(u)
    \/ GcHit(u)
    \/ GcIndexesEmpty(u)
    \/ GcNotFound(u)
    \/ GcStrayHit(u)
    \/ GcStrayDies(u)

SoloGame(u, c) ==
    \/ SoloBusy(u, c)
    \/ \E k \in Kinds, b \in Bets : SoloRefuse(u, c, k, b) \/ SoloStart(u, c, k, b)

\* Presses, and the handlers that act on presses and on game commands.
Session ==
    \/ \E u \in Users, g \in Ids : Press(u, g) \/ Pressed(u, g)
    \/ \E u \in Users, c \in Channels : SoloGame(u, c)
    \/ \E u \in Users : Gc(u)

Next ==
    \/ Session
    \/ \E u \in Users : OtherCommand(u)
    \/ \E v \in Users, n \in Sums : Receive(v, n)
    \/ Perform
    \/ Crash

\* A handler that has started is straight-line code: it gets to its end unless
\* the process dies.  Nothing is assumed of the users.
Fairness == WF_vars(Perform)

Spec == Init /\ [][Next]_vars /\ Fairness

---------------------------------------------------------------------------
(* Properties *)

\* Types of the session's state and of the shared store.
TypeOK ==
    /\ file \in [Users -> Rec \cup {NoRec}]
    /\ queue \in Seq(Effect)
    /\ solo \in [Ids -> Game \cup {NoGame}]
    /\ nextId \in 1..(MaxGames + 1)
    /\ msg \in [Ids -> {"none", "live", "gone"}]
    /\ clicks \in [Users -> [Ids -> 0..MaxPress]]
    /\ crashes \in 0..MaxCrash
    /\ paid \in [Ids -> Nat]
    /\ wild \subseteq Ids
    /\ stray \subseteq Users

\* Two games never run in one channel, although the check for it (the scan in
\* the /solo-game handler) also erases from the vector it walks.
ChannelExclusive ==
    \A g, h \in LiveGames : solo[g].chan = solo[h].chan => g = h

\* A player can pay what a running game may take: the bet is covered by the
\* chips the game saw at its start, and after doubling by twice that many,
\* since the doubledown check compares the chips with the undoubled bet only.
StakeCovered ==
    \A g \in LiveGames :
        /\ solo[g].bet >= LeastBet(solo[g].kind)
        /\ solo[g].bet <= solo[g].cache.chip * (IF solo[g].kind = "blackjack" THEN 2 ELSE 1)

\* The IS_PLAYING flag, which lives in the file, guards a fact that lives in
\* memory: a user has one running game at most.  It holds until something
\* other than the end of the game clears the flag.
OneGamePerUser ==
    \A g, h \in LiveGames :
        solo[g].owner = solo[h].owner /\ solo[g].owner \notin stray => g = h

\* EndGame writes the game's copy of the record over the file.  Between handlers
\* the file is the copy OnStart made, flag and chips included, unless the flag
\* was cleared early: all that the copy can be behind in is the money, which
\* /send to the player and ||money move in mid-game, and which EndGame then
\* puts back to what it was (GamesLeaveMoney of Qasino).
CacheFresh ==
    Idle => \A g \in LiveGames :
        solo[g].owner \notin stray =>
            /\ file[solo[g].owner] # NoRec
            /\ file[solo[g].owner] = [solo[g].cache EXCEPT !.money = file[solo[g].owner].money]

\* A game is settled once: late and repeated presses on its buttons, which
\* the guessing game leaves in place, find no object to settle again.  The
\* one exception is gc acting on an object it never found.
SettledOnce == \A g \in Ids : paid[g] <= (IF g \in wild THEN 2 ELSE 1)

\* Unless the process has died, a set flag belongs to a running game, so the
\* PL_X check locks nobody out who has no game to finish.
NoLockout ==
    Idle /\ crashes = 0 =>
        \A u \in Users : Read(u).playing = 1 => LiveOf(u) # {}

\* When a game has been settled its player gets the flag back, if the process
\* lives on: the last write of EndGame is never skipped or overtaken.
SettlementUnlocks ==
    \A g \in Ids, u \in Users, n \in 0..MaxCrash :
        (g \in Dead /\ solo[g].phase = "done" /\ solo[g].owner = u /\ crashes = n)
            ~> (Read(u).playing = 0 \/ crashes > n)

\* The tables of the channels, as the abstract specification sees them.
Seat == [c \in Channels |->
            IF LiveIn(c) = {} THEN Vacant
            ELSE [who   |-> solo[First(LiveIn(c))].owner,
                  stake |-> solo[First(LiveIn(c))].bet]]

Table == INSTANCE ChannelTable WITH seat <- Seat, Stakes <- Bets

\* Every step of the session is a step of the tables, or none: nobody takes an
\* occupied seat, no running game changes hands, and a stake only doubles.
SeatRefinement == Table!TableSpec
====
