----------------------------- MODULE PangeaBets -----------------------------
(***************************************************************************)
(* The betting rules of a pangea table as every node applies them to its   *)
(* own copy of the table: operators from a replica to the replica a call   *)
(* leaves behind (pangeafunds.c, pangea777.c).  PangeaHand plays with them.*)
(*                                                                         *)
(* A replica holds what cards777_pubdata, its cards777_handinfo and        *)
(* pangea_info hold of the money and the turn order.  Seats are 0..N-1 and *)
(* a seat's slot is its index: the calls that would reorder the table are  *)
(* compiled out (pangea777.c:403).  `community' counts the cards face up;  *)
(* cardi is kept relative to 2N; handmask is a set.                        *)
(***************************************************************************)
EXTENDS PangeaPots, SequencesExt

CONSTANTS N,             \* dp->N
          BigBlind, Ante,
          RakeMillis,    \* dp->rakemillis
          TableMaxRake   \* dp->maxrake

ASSUME TableAssumption ==
  /\ N \in Nat \ {0, 1} /\ BigBlind \in Nat \ {0, 1} /\ Ante \in Nat
  /\ RakeMillis \in Nat /\ TableMaxRake \in Nat

Players == 0..N - 1
Seats   == [i \in 1..N |-> i - 1]     \* the order of the loops over seats

\* The fields pangea_clearhand zeroes.
EmptyHand ==
  [bets |-> [p \in Players |-> 0], betstatus |-> [p \in Players |-> "in"],
   betsize |-> 0, lastraise |-> 0, lastbettor |-> 0, numactions |-> 0,
   undergun |-> 0, cardi |-> 0, handmask |-> {}, betstarted |-> FALSE,
   finished |-> FALSE, community |-> 0, handranks |-> [p \in Players |-> 0],
   won |-> [p \in Players |-> 0], checkprod |-> FALSE]

Table(balances) ==
  [balances |-> balances, button |-> 0, numhands |-> 0,
   hostrake |-> 0, pangearake |-> 0] @@ EmptyHand

Live(r) == {p \in Players : r.betstatus[p] # "fold"}

pangea_clearhand(r) == EmptyHand @@ r

pangea_newhand(r) ==
  [r EXCEPT !.button = r.numhands % N, !.numhands = @ + 1, !.checkprod = TRUE]

pangea_fold(r, p) ==
  [r EXCEPT !.handmask = @ \cup {p}, !.betstatus[p] = "fold"]

\* Bugs: a raise does not let the others answer; every bet does.
BetReopens(r, p, amount) ==
  IF r.betstatus[p] # "in" THEN r
  ELSE IF r.bets[p] + amount < r.betsize /\ amount < r.balances[p] THEN pangea_fold(r, p)
  ELSE [r EXCEPT !.betstatus[p] = IF amount > 0 /\ amount >= r.balances[p] THEN "allin" ELSE @,
                 !.numactions = 0, !.betsize = Max({@, r.bets[p] + Min({amount, r.balances[p]})}),
                 !.balances[p] = @ - Min({amount, r.balances[p]}),
                 !.bets[p] = @ + Min({amount, r.balances[p]})]

BetNoReopen(r, p, amount) ==
  LET allin == amount > 0 /\ amount >= r.balances[p]
      bet   == IF allin THEN r.balances[p] ELSE amount
      sum   == r.bets[p] + bet
  IN  IF r.betstatus[p] # "in" THEN r
      ELSE IF sum < r.betsize /\ ~allin THEN pangea_fold(r, p)
      ELSE [r EXCEPT !.betstatus[p] = IF allin THEN "allin" ELSE @,
                     !.betsize = Max({@, sum}), !.lastbettor = IF sum > r.betsize THEN p ELSE @,
                     !.balances[p] = @ - bet, !.bets[p] = @ + bet]

(***************************************************************************)
(* pangea_bet: a seat that folded or is all in is left alone; a bet of the *)
(* whole balance is all in; a raise of less than double is cut to the last *)
(* raise; a sum below the bet to call folds.  numactions counts the seats  *)
(* that acted since the last raise.                                        *)
(***************************************************************************)
pangea_bet(r, p, amount) ==
  LET allin == amount > 0 /\ amount >= r.balances[p]
      clip  == amount > r.betsize /\ amount > r.lastraise /\ amount < 2 * r.lastraise
      bet   == IF allin THEN r.balances[p] ELSE IF clip THEN r.lastraise ELSE amount
      sum   == r.bets[p] + bet
      full  == bet >= 2 * r.lastraise
      up    == sum > r.betsize
      raise == IF full THEN bet ELSE r.lastraise
  IN  IF r.betstatus[p] # "in" THEN r
      ELSE IF sum < r.betsize /\ ~allin THEN pangea_fold(r, p)
      ELSE [r EXCEPT !.betstatus[p]  = IF allin THEN "allin" ELSE @,
                     !.lastraise  = IF up /\ allin /\ sum > raise THEN sum ELSE raise,
                     !.numactions = IF full \/ up THEN 0 ELSE @,
                     !.betsize    = IF up THEN sum ELSE @,
                     !.lastbettor = IF up THEN p ELSE @,
                     !.balances[p] = @ - bet,
                     !.bets[p]     = @ + bet]

(***************************************************************************)
(* pangea_antes: broke seats fold; the ante is taken from every seat but   *)
(* the button and the next; then, from the seat after the button, the      *)
(* first that can pay the small blind and the next that can pay the big    *)
(* one post them, and every seat that falls short of its threshold folds.  *)
(***************************************************************************)
FoldBroke(r, p) == IF r.balances[p] <= 0 THEN pangea_fold(r, p) ELSE r

PayAnte(r, p) ==
  IF Ante = 0 \/ p \in {r.button, (r.button + 1) % N} THEN r
  ELSE IF r.balances[p] < Ante THEN pangea_fold(r, p)
  ELSE pangea_bet(r, p, Ante)

Threshold(n) == CASE n = 0 -> BigBlind \div 2 - 1
                  [] n = 1 -> BigBlind - 1
                  [] OTHER -> 0

\* One round of the loop that fills actives[]; acc is <<replica, actives>>.
Activate(acc, i) ==
  LET j == (1 + acc[1].button + i) % N
  IN  IF acc[1].balances[j] > Threshold(Len(acc[2]))
      THEN <<acc[1], Append(acc[2], j)>>
      ELSE <<pangea_fold(acc[1], j), acc[2]>>

pangea_antes(r) ==
  LET anted   == FoldLeft(PayAnte, FoldLeft(FoldBroke, r, Seats), Seats)
      acc     == FoldLeft(Activate, <<anted, <<>>>>, Seats)
      actives == acc[2]
      small   == pangea_bet(acc[1], actives[1], BigBlind \div 2)
  IN  IF Len(actives) < 2 THEN acc[1]
      ELSE pangea_bet([small EXCEPT !.button = (actives[1] + N - 1) % N],
                      actives[2], BigBlind)

\* A bug that posts the blinds whenever it is asked.
CheckAntesAlways(r) == IF r.checkprod THEN pangea_antes(r) ELSE r

pangea_checkantes(r) ==
  IF r.checkprod /\ \A p \in Players : r.bets[p] = 0 THEN pangea_antes(r) ELSE r

pangea_addfunds(r, p, amount) ==
  pangea_checkantes([r EXCEPT !.balances[p] = IF @ = 0 THEN amount ELSE @])

(***************************************************************************)
(* pangea_finish: the pots are paid into the balances, once.  No rake is   *)
(* taken before the flop.                                                  *)
(***************************************************************************)
Paid(r) == Payout(r.bets, Live(r), r.handranks, IF r.community = 0 THEN 0 ELSE RakeMillis,
                  MaxRake(r.bets, BigBlind, TableMaxRake))

Settle(r, paid) ==
  [r EXCEPT !.balances = [p \in Players |-> @[p] + paid.won[p]],
            !.won = paid.won, !.finished = TRUE,
            !.hostrake = @ + paid.rake, !.pangearake = @ + paid.pangearake]

pangea_finish(r) == IF r.finished THEN r ELSE Settle(r, Paid(r))

\* Whether pangea_lastman ends the hand here.
LastMan(r) == r.betstarted /\ Cardinality(Live(r)) <= 1

\* A bug that does not wrap the turn around the table.
TakeActionNoWrap(r, p, amount) ==
  LET b == pangea_bet(r, p, amount)
  IN  [b EXCEPT !.undergun = @ + 1, !.numactions = @ + 1]

\* The turn order and numactions of pangea_action, on every node.
TakeAction(r, p, amount) ==
  LET b == pangea_bet(r, p, amount)
  IN  [b EXCEPT !.undergun = (@ + 1) % N, !.numactions = @ + 1]

(***************************************************************************)
(* The host's part of pangea_action: pass over the seats that can not act. *)
(***************************************************************************)
SkipIdle(r) ==
  LET seat(i) == (r.undergun + i) % N
      idle == {i \in 0..N : \A k \in 0..i - 1 : r.betstatus[seat(k)] # "in"}
      skip == Max(idle)
  IN  [r EXCEPT !.undergun = seat(IF skip = N THEN N - 1 ELSE skip),
                !.numactions = @ + skip]

\* Whom pangea_action asks first at the showdown: the last bettor or the next live seat.
AskShowdown(r) ==
  LET away(p) == (p - r.lastbettor) % N
  IN  [r EXCEPT !.undergun = CHOOSE p \in Live(r) : \A q \in Live(r) : away(p) <= away(q)]

\* pangea_startbets, on the host; cardi is relative to 2N.
pangea_startbets(r, cardi) ==
  LET s == [r EXCEPT !.betstarted = TRUE, !.numactions = 0, !.cardi = cardi,
                     !.undergun = (r.button + 3) % N]
  IN  IF cardi > 0 THEN s ELSE pangea_checkantes(s)
=============================================================================
