---------------------------- MODULE PangeaPayout ----------------------------
(***************************************************************************)
(* One payout of a finished pangea hand, for every way a hand can stand    *)
(* when pangea_finish is called (pangeafunds.c): the pots and payments of  *)
(* PangeaPots against what the players are owed.                           *)
(***************************************************************************)
EXTENDS PangeaPots

CONSTANTS Players, Amounts, Ranks, BigBlind, RakeMillis, TableMaxRake

VARIABLES bets, live, handranks,
          paid     \* what pangea_finish paid, or the empty record before it

vars == <<bets, live, handranks, paid>>

\* pangea_bet folds nobody who has the highest bet, so a live seat has it; the
\* ranks of folded seats are not looked at.
Init ==
  /\ bets \in [Players -> Amounts] /\ live \in SUBSET Players
  /\ \E j \in live : \A k \in Players : bets[k] <= bets[j] /\ bets[j] > 0
  /\ handranks \in [live -> Ranks]
  /\ paid = <<>>

Finish ==
  /\ paid = <<>>
  /\ paid' = Payout(bets, live, handranks, RakeMillis,
                    MaxRake(bets, BigBlind, TableMaxRake))
  /\ UNCHANGED <<bets, live, handranks>>

Next == Finish

Spec == Init /\ [][Next]_vars

-----------------------------------------------------------------------------
Pots == pangea_sidepots(bets, live)

\* What seat j can win: as much from each seat as it put in itself, or
\* everything when no live seat put in more.
Owed(j) ==
  IF \A k \in live : bets[k] <= bets[j] THEN SumFunction(bets)
  ELSE MapThenSumSet(LAMBDA k : Min({bets[j], bets[k]}), Players)

(***************************************************************************)
(* The pots a live seat has chips in hold exactly what it can win: the     *)
(* levels of pangea_sidepots are the stacks of the live seats, whatever    *)
(* the folded ones left behind.                                            *)
(***************************************************************************)
PotsMatchStacks ==
  \A j \in live :
    bets[j] > 0 =>
      MapThenSumSet(LAMBDA n : IF Pots[n][j] > 0 THEN SumFunction(Pots[n]) ELSE 0,
                    DOMAIN Pots) = Owed(j)

(***************************************************************************)
(* Everything bet is paid to a seat or raked ("pangea_split total error"), *)
(* and the rake is the percentage of the table, up to the rounding of each *)
(* pot's split: less than one chip for each of its winners.                *)
(***************************************************************************)
PaidInFull ==
  paid # <<>> =>
    /\ SumFunction(paid.won) + paid.rake + paid.pangearake = SumFunction(bets)
    /\ 1000 * (paid.rake + paid.pangearake) <
         RakeMillis * SumFunction(bets) + 1000 * Cardinality(live) * Len(Pots) + 1

(***************************************************************************)
(* "2players 1BB, 3-4players, 2BB, 5+players 3BB": the rake of a hand is   *)
(* at most maxrakes[] big blinds (the comment of pangea_splitpot's table). *)
(***************************************************************************)
RakeCapped ==
  paid # <<>> =>
    paid.rake + paid.pangearake <=
      BigBlind * maxrakes[1 + Cardinality({j \in Players : bets[j] > 0})]
=============================================================================
