---------------------------- MODULE PangeaTable ----------------------------
(***************************************************************************)
(* A pangea table as its nodes run it: seat 0 is the host, every seat is a *)
(* node with a copy of the table of its own, and the copies change only by *)
(* the messages the nodes send each other (pangea777.c, pangeafunds.c over *)
(* hostnet777.c).                                                          *)
(*                                                                         *)
(* A client pushes its messages to the host, which queues each for itself  *)
(* and publishes it to all clients, the sender included; what the host     *)
(* sends it publishes and loops back to its own queue.  The transport is   *)
(* reliable: nothing in the code sends a message again.                    *)
(*                                                                         *)
(* A message carries of its data what the handlers tell apart: the deck it *)
(* is about, the largest bet, an amount or the rank of the shown hand.  A  *)
(* seat's two hole cards travel together; "final" carries ciphertext only. *)
(* automuck is off.  A bot and a seat in autofold answer like a user who   *)
(* answers at once.                                                        *)
(***************************************************************************)
EXTENDS PangeaBets

CONSTANTS Tables,             \* balances to start with and the hands in the decks to come
          Ranks, Buyin,       \* as in PangeaHand
          MaxHands            \* bound: decks the host makes

VARIABLES tab,       \* each node's replica: PangeaBets' and the fields of NoCards
          luck,      \* the strength of each seat's hand in the decks to come
          inbox,     \* hn->client->H.Q of each node
          up,        \* what a client pushed and the host did not read yet
          post,      \* what the host's user call published but not looped back
          made       \* decks made so far

tableVars == <<tab, luck, inbox, up, post, made>>

Host == 0
All  == -1        \* destination of a broadcast
None == -1        \* 0xff in turnis

\* The fields of a hand that PangeaBets does not need, as clearhand leaves them.
NoCards ==
  [turnis |-> [p \in Players |-> 0], have |-> {}, decks |-> [p \in Players |-> 0],
   encodestarted |-> FALSE, deck |-> 0, hole |-> 0, sentcards |-> FALSE,
   asked |-> FALSE]

ClearHand(r) == NoCards @@ pangea_clearhand(r)

Msg(cmd, from, dest, cardi, turni, data) ==
  [cmd |-> cmd, from |-> from, dest |-> dest, cardi |-> cardi, turni |-> turni, data |-> data]

(***************************************************************************)
(* A handler works on a node and what it sends: [t |-> ..., out |-> ...].  *)
(***************************************************************************)
Send(s, m) == [s EXCEPT !.out = Append(@, m)]

MaxBet(r) == Max(Range(r.bets))

\* A bug that pays out at the first hand shown.
Over_OneShown(s) == s.over \/ \E p \in Players : s.t.handranks[p] # 0

\* The handler's pangea_lastman ends the hand, or pangea_idle after it does:
\* all folded or showed their cards.
Over(s) == s.over \/ s.t.handmask = Players

\* pangea_newdeck and the anotherhand in front of it; deck is its number.
NewDeck(s, deck) ==
  Send([s EXCEPT !.t = [ClearHand(s.t) EXCEPT !.checkprod = TRUE, !.deck = deck]],
       Msg("newhand", Host, All, 0, 0, deck))

CanPlay(r) == Cardinality({p \in Players : r.balances[p] # 0}) # 1

StartBets(s, cardi) ==
  LET r == [pangea_startbets(s.t, cardi) EXCEPT !.turnis = [p \in Players |-> None],
                                                !.sentcards = FALSE]
  IN  Send([s EXCEPT !.t = r], Msg("turn", Host, All, cardi, r.undergun, 0))

-----------------------------------------------------------------------------
\* A bug that leaves the last hand's bets on a client.
GotNewHand_KeepsHand(s, n, m) ==
  Send([s EXCEPT !.t = [pangea_newhand(s.t) EXCEPT !.deck = m.data, !.sums = {}, !.hole = 0]],
       Msg("gotdeck", n, All, 0, 0, m.data))

\* pangea_newhand; the host's hand is cleared already.
GotNewHand(s, n, m) ==
  LET r == IF n = Host THEN s.t ELSE ClearHand(s.t)
  IN  Send([s EXCEPT !.t = [pangea_newhand(r) EXCEPT !.deck = m.data, !.sums = {}]],
           Msg("gotdeck", n, All, 0, 0, m.data))

\* pangea_gotdeck with pangea_checkstart: the deck goes to the next seat to be encoded.
GotDeck(s, n, m) ==
  LET r == [s.t EXCEPT !.decks[m.from] = m.data]
  IN  IF n = Host /\ ~r.encodestarted /\ \A p \in Players : r.decks[p] = r.deck
      THEN Send([s EXCEPT !.t = [r EXCEPT !.encodestarted = TRUE]],
                Msg("encoded", n, 1, 0, 0, r.deck))
      ELSE [s EXCEPT !.t = r]

\* pangea_card: the hole cards decode when they are of the deck the node plays with.
Card(s, n, deck) ==
  LET valid == deck = s.t.deck
  IN  Send([s EXCEPT !.t.hole = IF valid THEN luck[deck][n] ELSE @],
           Msg("facedown", n, All, 0, IF valid THEN 1 ELSE -1, 0))

\* The end of pangea_preflop, on seat 1: every seat gets its cards.
DealTo(s, i, deck) ==
  LET p == (s.t.button + i) % N
  IN  IF p = 1 THEN Card(s, 1, deck) ELSE Send(s, Msg("card", 1, p, 0, 0, deck))

\* pangea_preflop: decode and pass on, down to seat 1.
Preflop(s, n, deck) ==
  IF n > 1 THEN Send(s, Msg("preflop", n, n - 1, 0, 0, deck))
  ELSE FoldLeft(LAMBDA acc, i : DealTo(acc, i, deck), s, Seats)

\* pangea_encoded: encode and pass on, up to the last seat.
Encoded(s, n, m) ==
  IF n < N - 1 THEN Send(s, Msg("encoded", n, n + 1, 0, 0, m.data))
  ELSE Preflop(s, n, m.data)

\* pangea_facedown.
GotFaceDown(s, n, m) ==
  LET r == [s.t EXCEPT !.have = IF m.turni > 0 THEN @ \cup {m.from} ELSE @]
  IN  IF n = Host /\ r.have = Players THEN StartBets([s EXCEPT !.t = r], 0)
      ELSE [s EXCEPT !.t = r]

-----------------------------------------------------------------------------
\* A bug that posts no blinds on a client.
GotTurn_NoAntes(s, n, m) ==
  LET r == [s.t EXCEPT !.turnis[m.from] = m.turni, !.cardi = m.cardi,
                       !.betstarted = TRUE, !.undergun = m.turni]
  IN  IF n = Host THEN [s EXCEPT !.t = r]
      ELSE Send([s EXCEPT !.t = r], Msg("confirmturn", n, All, m.cardi, m.turni, MaxBet(r)))

(***************************************************************************)
(* pangea_turn, on a message of the host: a client posts the blinds if its *)
(* copy has none yet, and confirms the turn.                               *)
(***************************************************************************)
GotTurn(s, n, m) ==
  LET r == [s.t EXCEPT !.turnis[m.from] = m.turni, !.cardi = m.cardi,
                       !.betstarted = TRUE, !.undergun = m.turni]
      c == pangea_checkantes(r)
  IN  IF n = Host THEN [s EXCEPT !.t = r]
      ELSE Send([s EXCEPT !.t = c], Msg("confirmturn", n, All, m.cardi, m.turni, MaxBet(c)))

\* Bugs: a seat is asked before the host confirms; an all-in seat does not answer.
GotConfirmTurn_Unconfirmed(s, n, m) ==
  IF m.turni = n /\ s.t.betstatus[n] = "in"
  THEN [s EXCEPT !.t.asked = TRUE, !.t.betsize = MaxBet(s.t)] ELSE s

GotConfirmTurn_IdleSilent(s, n, m) ==
  LET b == [s.t EXCEPT !.turnis[m.from] = m.turni, !.betsize = MaxBet(s.t),
                       !.undergun = IF m.from = Host THEN m.turni ELSE @]
      same == \A p \in Players : b.turnis[p] = m.turni
  IN  IF m.from = Host
      THEN [s EXCEPT !.t = [b EXCEPT !.asked = @ \/ (m.turni = n /\ b.betstatus[n] = "in")]]
      ELSE IF n = Host /\ same
      THEN Send([s EXCEPT !.t = b], Msg("confirmturn", n, All, b.cardi, b.undergun, b.betsize))
      ELSE [s EXCEPT !.t = b]

(***************************************************************************)
(* pangea_confirmturn.  The host answers when the turn of all seats is the *)
(* same; its answer prompts the seat under the gun.                        *)
(***************************************************************************)
GotConfirmTurn(s, n, m) ==
  LET r == IF m.from = Host /\ n # Host
           THEN [s.t EXCEPT !.undergun = m.turni, !.cardi = m.cardi, !.betsize = MaxBet(s.t)]
           ELSE s.t
      same  == \A p \in Players : p # m.from => r.turnis[p] = m.turni
      agree == n = Host /\ same
      b == [r EXCEPT !.turnis[m.from] = m.turni, !.betsize = IF agree THEN MaxBet(r) ELSE @]
      c == IF agree /\ m.from # Host
           THEN Send([s EXCEPT !.t = b], Msg("confirmturn", n, All, b.cardi, b.undergun, MaxBet(r)))
           ELSE [s EXCEPT !.t = b]
  IN  IF m.from # Host \/ b.undergun # n THEN c
      ELSE IF b.betstatus[n] # "in" THEN Send(c, Msg("action", n, All, m.cardi, 0, 0))
      ELSE [c EXCEPT !.t.asked = TRUE, !.t.cardi = m.cardi,
                     !.t.betsize = IF n # Host \/ agree THEN MaxBet(r) ELSE 0]

\* What the host asks for when the betting round is over, by the cards face up.
NextCard(s) ==
  LET decode(x, k) == Send(x, Msg("decoded", Host, All, s.t.cardi + k, N - 1, 0))
      asked == AskShowdown(s.t)
  IN  CASE s.t.community = 0        -> FoldLeft(decode, s, <<0, 1, 2>>)
        [] s.t.community \in {3, 4} -> decode(s, 0)
        [] OTHER -> Send([s EXCEPT !.t = asked],
                         Msg("showdown", Host, All, 5, asked.undergun, 0))

\* pangea_action; the host goes on to the next turn or the next card.
GotAction(s, n, m) ==
  LET a == [TakeAction(s.t, m.from, m.data) EXCEPT !.sentcards = @ /\ n # m.from]
      k == SkipIdle(a)
      skipped == (Host - a.undergun) % N < k.numactions - a.numactions
      h == [s EXCEPT !.t = [k EXCEPT !.sentcards = @ /\ ~skipped]]
  IN  IF m.from # s.t.undergun THEN s
      ELSE IF LastMan(a) THEN [s EXCEPT !.t = a, !.over = TRUE]
      ELSE IF n # Host THEN [s EXCEPT !.t = a]
      ELSE IF h.t.numactions < N
           THEN Send(h, Msg("turn", n, All, h.t.cardi, h.t.undergun, 0))
           ELSE NextCard(h)

-----------------------------------------------------------------------------
\* pangea_decoded: down from the last seat to the host, which turns the card up.
GotDecoded(s, n, m) ==
  IF m.turni # n \/ m.cardi \notin 0..4 THEN s
  ELSE IF n # Host THEN Send(s, Msg("decoded", n, All, m.cardi, n - 1, 0))
  ELSE Send(s, Msg("faceup", n, All, m.cardi, 0, 0))

\* pangea_rank, when all seven cards of p are known.
Ranked(r, p, rank) ==
  IF r.handranks[p] # 0 \/ r.community < 5 \/ rank = 0 THEN r
  ELSE [r EXCEPT !.handranks[p] = rank, !.handmask = @ \cup {p}]

\* pangea_faceup: a community card, or (cardi None) the hole cards of the sender.
GotFaceUp(s, n, m) ==
  LET c == [s.t EXCEPT !.community = Max({@, m.cardi + 1})]
      r == IF n = m.from THEN Ranked(c, n, c.hole) ELSE c
  IN  IF m.cardi = None THEN [s EXCEPT !.t = Ranked(s.t, m.from, m.data)]
      ELSE IF n = Host /\ m.cardi >= 2 THEN StartBets([s EXCEPT !.t = r], m.cardi + 1)
      ELSE [s EXCEPT !.t = r]

\* pangea_showdown, on a message of the host.
GotShowdown(s, n, m) ==
  LET show  == s.t.betstatus[n] # "fold"
               /\ (~s.t.sentcards \/ (m.turni = n /\ s.t.lastbettor = n))
      shown == IF show THEN Send([s EXCEPT !.t.sentcards = TRUE],
                                 Msg("faceup", n, All, None, 0, s.t.hole))
               ELSE s
  IN  [shown EXCEPT !.over = LastMan(s.t)]

(***************************************************************************)
(* pangea_gotsummary: clients answer the host's summary with theirs; with  *)
(* the summaries of all, matched or not, the host starts another hand.     *)
(***************************************************************************)
GotSummary(s, n, m) ==
  LET r == [s EXCEPT !.t.sums = @ \cup {m.from}]
      all == r.t.sums = Players
  IN  IF n # Host
      THEN IF m.from = Host THEN Send(r, Msg("summary", n, All, 0, 0, 0)) ELSE r
      ELSE IF all /\ CanPlay(r.t) /\ made < Len(luck) THEN NewDeck([r EXCEPT !.t.sums = {}], made + 1)
      ELSE IF all THEN [r EXCEPT !.t.sums = {}] ELSE r
-----------------------------------------------------------------------------
\* Every seat has bought in: the table is new.  Else it is between two hands.
BoughtIn(balances) == \A p \in Players : balances[p] >= Buyin

Init ==
  /\ \E table \in Tables :
       /\ LET played == ~BoughtIn(table.balances)
              r == [Table(table.balances) EXCEPT !.finished = played, !.betstarted = played]
          IN  tab = [n \in Players |-> r @@ NoCards @@ [sums |-> {}]]
       /\ luck = table.luck /\ Len(luck) \in 1..MaxHands
  /\ inbox = [n \in Players |-> <<>>] /\ up = [n \in Players |-> <<>>]
  /\ post = <<>> /\ made = 0

\* hostnet777_msg: where a message goes that is published or looped back.
For(n, msgs) == SelectSeq(msgs, LAMBDA m : m.dest \in {All, n})

\* Node n is left with what a handler returned; rest are the queues it leaves.
Leave(n, s, rest) ==
  /\ tab' = [tab EXCEPT ![n] = s.t]
  /\ IF n = Host THEN inbox' = [p \in Players |-> rest[p] \o For(p, s.out)] /\ UNCHANGED up
     ELSE inbox' = rest /\ up' = [up EXCEPT ![n] = @ \o s.out]

\* pangea_poll of node n finds a message with this command.
Polls(n, cmd) == inbox[n] # <<>> /\ Head(inbox[n]).cmd = cmd

\* What follows a handler: pangea_finish, with the summary the host sends.
Handled(n, handled) ==
  /\ \E s \in {handled} :
       LET rest == [inbox EXCEPT ![n] = Tail(@)]
       IN  IF ~Over(s) \/ s.t.finished THEN Leave(n, s, rest)
           ELSE \E paid \in {Paid(s.t)} :
                  LET done == [s EXCEPT !.t = Settle(@, paid)]
                  IN  Leave(n, IF n = Host THEN Send(done, Msg("summary", n, All, 0, 0, 0))
                               ELSE done, rest)
  /\ UNCHANGED <<luck, post>>

At(n) == [t |-> tab[n], out |-> <<>>, over |-> FALSE]

NewHandMsg(n)  == Polls(n, "newhand")  /\ Handled(n, GotNewHand(At(n), n, Head(inbox[n]))) /\ UNCHANGED made
GotDeckMsg(n)  == Polls(n, "gotdeck")  /\ Handled(n, GotDeck(At(n), n, Head(inbox[n]))) /\ UNCHANGED made
EncodedMsg(n)  == Polls(n, "encoded")  /\ Handled(n, Encoded(At(n), n, Head(inbox[n]))) /\ UNCHANGED made
PreflopMsg(n)  == Polls(n, "preflop")  /\ Handled(n, Preflop(At(n), n, Head(inbox[n]).data)) /\ UNCHANGED made
CardMsg(n)     == Polls(n, "card")     /\ Handled(n, Card(At(n), n, Head(inbox[n]).data)) /\ UNCHANGED made
FaceDownMsg(n) == Polls(n, "facedown") /\ Handled(n, GotFaceDown(At(n), n, Head(inbox[n]))) /\ UNCHANGED made
TurnMsg(n)     == Polls(n, "turn")     /\ Handled(n, GotTurn(At(n), n, Head(inbox[n]))) /\ UNCHANGED made
ConfirmTurnMsg(n) ==
  Polls(n, "confirmturn") /\ Handled(n, GotConfirmTurn(At(n), n, Head(inbox[n]))) /\ UNCHANGED made
ActionMsg(n)   == Polls(n, "action")   /\ Handled(n, GotAction(At(n), n, Head(inbox[n]))) /\ UNCHANGED made
DecodedMsg(n)  == Polls(n, "decoded")  /\ Handled(n, GotDecoded(At(n), n, Head(inbox[n]))) /\ UNCHANGED made
FaceUpMsg(n)   == Polls(n, "faceup")   /\ Handled(n, GotFaceUp(At(n), n, Head(inbox[n]))) /\ UNCHANGED made
ShowdownMsg(n) == Polls(n, "showdown") /\ Handled(n, GotShowdown(At(n), n, Head(inbox[n]))) /\ UNCHANGED made
SummaryMsg(n)  ==
  LET s == GotSummary(At(n), n, Head(inbox[n]))
  IN  /\ Polls(n, "summary") /\ Handled(n, s)
      /\ made' = IF n = Host THEN s.t.deck ELSE made

\* pangea_serverstate: a deck when all have bought in, and 30 seconds after a hand (HANDGAP).
FirstDeck ==
  /\ made = 0 /\ ~tab[Host].betstarted /\ BoughtIn(tab[Host].balances)
  /\ made' = 1 /\ Leave(Host, NewDeck(At(Host), 1), inbox)
  /\ UNCHANGED <<luck, post>>

HandGapOver == tab[Host].finished /\ CanPlay(tab[Host]) /\ made < Len(luck)

HandGap ==
  /\ HandGapOver
  /\ made' = made + 1 /\ Leave(Host, NewDeck(At(Host), made + 1), inbox)
  /\ UNCHANGED <<luck, post>>

(***************************************************************************)
(* hostnet777_idle on the host, and a client's subscription: a message of  *)
(* a client is queued and published.                                       *)
(***************************************************************************)
Relay(n) ==
  /\ up[n] # <<>>
  /\ up' = [up EXCEPT ![n] = Tail(@)]
  /\ inbox' = [p \in Players |-> inbox[p] \o For(p, <<Head(up[n])>>)]
  /\ UNCHANGED <<tab, luck, post, made>>

(***************************************************************************)
(* pangea_input, called from the thread of the API: the host's is          *)
(* published before it is looped back, and messages of others may come in  *)
(* between.  A user answers a prompt once: `asked' is no condition of the  *)
(* code, which takes any input of the seat under the gun.                  *)
(***************************************************************************)
Input(n, amount) ==
  LET m == Msg("action", n, All, tab[n].cardi, 0, amount)
  IN  /\ tab[n].undergun = n /\ tab[n].betsize # 0 /\ amount <= tab[n].balances[n]
      /\ tab[n].asked
      /\ tab' = [tab EXCEPT ![n].asked = FALSE]
      /\ IF n = Host
         THEN /\ post = <<>> /\ post' = <<m>> /\ UNCHANGED up
              /\ inbox' = [p \in Players |-> IF p = Host THEN inbox[p] ELSE Append(inbox[p], m)]
         ELSE up' = [up EXCEPT ![n] = Append(@, m)] /\ UNCHANGED <<inbox, post>>
      /\ UNCHANGED <<luck, made>>

Loopback ==
  /\ post # <<>>
  /\ inbox' = [inbox EXCEPT ![Host] = @ \o post] /\ post' = <<>>
  /\ UNCHANGED <<tab, luck, up, made>>

Poll(n) ==
  \/ NewHandMsg(n) \/ GotDeckMsg(n) \/ EncodedMsg(n) \/ PreflopMsg(n) \/ CardMsg(n)
  \/ FaceDownMsg(n) \/ TurnMsg(n) \/ ConfirmTurnMsg(n) \/ ActionMsg(n) \/ DecodedMsg(n)
  \/ FaceUpMsg(n) \/ ShowdownMsg(n) \/ SummaryMsg(n)

Next ==
  \/ FirstDeck \/ HandGap \/ Loopback
  \/ \E n \in Players :
       \/ Poll(n) \/ Relay(n)
       \/ \E amount \in 0..tab[n].balances[n] : Input(n, amount)

(***************************************************************************)
(* Every node's loop runs on, messages arrive, and a user answers the      *)
(* prompt (no timeout does it for them).  Messages, bets and decks run     *)
(* out, so fairness to each of these is fairness to all of them together,  *)
(* with its ENABLED written out: one is possible exactly when Busy.        *)
(***************************************************************************)
Busy ==
  \/ made = 0 \/ HandGapOver \/ post # <<>>
  \/ \E n \in Players :
       \/ inbox[n] # <<>> \/ up[n] # <<>>
       \/ tab[n].asked /\ tab[n].undergun = n /\ tab[n].betsize # 0

Fairness == []<>~Busy \/ []<><<TRUE>>_tableVars

Spec == Init /\ [][Next]_tableVars /\ Fairness

-----------------------------------------------------------------------------
TableTypeOK ==
  /\ \A n \in Players :
       LET r == tab[n]
       IN  /\ r.balances \in [Players -> Nat] /\ r.bets \in [Players -> Nat]
           /\ r.undergun \in Players /\ r.turnis \in [Players -> Players \cup {None}]
           /\ r.community \in 0..5 /\ r.cardi \in 0..5 /\ r.hole \in Ranks \cup {0}
           /\ r.have \subseteq Players /\ r.sums \subseteq Players /\ r.deck \in 0..made
  /\ made \in 0..Len(luck)

\* What two copies of the table have in common when they agree.
Money(r) == <<r.balances, r.won, r.hostrake, r.pangearake>>
Betting(r) == <<r.bets, r.betstatus, r.button, r.numhands, r.community, r.betsize,
                r.lastraise, r.lastbettor, r.finished,
                IF r.finished THEN None ELSE r.undergun>>

(***************************************************************************)
(* With no message under way all nodes have the same table: each applied   *)
(* blinds, bets, folds and payouts by itself, in the order its messages    *)
(* came in, and none is ahead or behind (pangea_action, pangea_finish).    *)
(* Already before that, two nodes that have finished the same hand paid    *)
(* the same seats the same sums, however the "faceup" and "action"         *)
(* messages that told them it was over were interleaved                    *)
(* (pangea_gotsummary prints a mismatch, no more).                         *)
(***************************************************************************)
ReplicasAgree ==
  \A n \in Players :
    LET mine == tab[n]
        host == tab[Host]
    IN  /\ post = <<>> /\ (\A p \in Players : inbox[p] = <<>> /\ up[p] = <<>>)
             => Money(mine) = Money(host) /\ Betting(mine) = Betting(host)
        /\ mine.finished /\ host.finished /\ mine.numhands = host.numhands
             => Money(mine) = Money(host)

(***************************************************************************)
(* A client that reads the host's confirmation of a turn has the bet to    *)
(* call that the host has: "ERROR BETSIZE MISMATCH" is never printed.      *)
(***************************************************************************)
BetSizesMatch ==
  \A n \in Players \ {Host} :
    Polls(n, "confirmturn") /\ Head(inbox[n]).from = Host
      => Head(inbox[n]).data = MaxBet(tab[n])

(***************************************************************************)
(* At most one user is asked for a bet at a time, and it is the one whose  *)
(* turn it is for the host: turns are confirmed by all before a prompt.    *)
(***************************************************************************)
OnePrompt ==
  \A n \in Players : tab[n].asked =>
    tab[Host].undergun = n /\ \A p \in Players : tab[p].asked => p = n

(***************************************************************************)
(* The hand the host plays, as PangeaHand sees it: a hand begins with the  *)
(* deck, before its "newhand" is read back; a rank the host knows before   *)
(* the showdown, or of a seat that folded, does not count; nor does a hand *)
(* before the first deck.                                                  *)
(***************************************************************************)
HostHand ==
  LET now == [tab[Host] EXCEPT !.finished = @ /\ made > 0, !.betstarted = @ /\ made > 0]
      decks == SelectSeq(inbox[Host], LAMBDA m : m.cmd = "newhand")
      r == FoldLeft(LAMBDA acc, m : pangea_newhand(acc), now, decks)
      shown == r.finished /\ Cardinality(Live(r)) > 1
      fields == DOMAIN Table(r.balances)
  IN  [[f \in fields |-> r[f]] EXCEPT
         !.handranks = [p \in Players |-> IF shown /\ p \in Live(r) THEN @[p] ELSE 0],
         !.handmask  = IF shown THEN @ ELSE Players \ Live(r)]

HostPhase ==
  LET r == tab[Host]
  IN  CASE r.finished \/ made = 0 -> "idle"
        [] ~r.finished /\ made > 0 /\ ~r.betstarted -> "dealing"
        [] ~r.finished /\ r.betstarted /\ r.numactions < N -> "betting"
        [] OTHER -> IF r.community < 5 THEN "reveal" ELSE "showdown"

Hand == INSTANCE PangeaHand WITH t <- HostHand, phase <- HostPhase, buyins <- <<>>, MaxBuyins <- 0,
                                 Stacks <- {table.balances : table \in Tables}

\* A second deck before the bets of a hand: HANDGAP passed with a summary under way.
Redeal ==
  /\ HostPhase = "dealing" /\ HostPhase' = "dealing"
  /\ HostHand' = pangea_newhand(pangea_clearhand(HostHand))

(***************************************************************************)
(* The table plays the hands of PangeaHand: for all the messages, every    *)
(* change of the host's table is a step of that game (so what is shown of  *)
(* its chips, rounds and pots holds of the table), or a hand that nobody   *)
(* has bet in is dealt anew.                                               *)
(***************************************************************************)
HandStep == UNCHANGED Hand!vars \/ Hand!Next \/ Redeal

ImplementsHand == Hand!Init /\ [][HandStep]_tableVars

\* A hand is over, or stays without bets: pangea_input takes none while betsize is 0.
Settled(r) == r.finished \/ (r.betstarted /\ r.betsize = 0)

PlaySettled ==
  /\ \A n \in Players : Settled(tab[n])
  /\ tab[Host].finished /\ CanPlay(tab[Host]) => made = Len(luck)

(***************************************************************************)
(* Play goes on: as long as nodes and users answer, every hand ends on     *)
(* every node (those whose blinds nobody could post apart), and the host   *)
(* deals again while two seats have chips.                                 *)
(***************************************************************************)
PlayGoesOn == []<>PlaySettled
=============================================================================
