----------------------------- MODULE PangeaPots -----------------------------
(***************************************************************************)
(* How a pangea poker hand is paid out: pangea_sidepots, pangea_winnings,  *)
(* pangea_splitpot and the loop of pangea_finish that applies them         *)
(* (pangeafunds.c).  Pure operators; PangeaHand is the hand they settle.   *)
(*                                                                         *)
(* A row of bets is a function from the seats 0..N-1 to chips.  `live' is  *)
(* the set of seats whose betstatus is not CARDS777_FOLD.  Hand strength   *)
(* is a number, as dp->hand.handranks has it: 0 is "not shown".            *)
(***************************************************************************)
EXTENDS Integers, Sequences, FiniteSetsExt, Functions

CONSTANTS MinRakeMillis,  \* PANGEA_MINRAKE_MILLIS
          RakeFloor       \* PANGEA_MAXRAKE (PANGEA_BTCMAXRAKE on a BTC table)

ASSUME RakeAssumption == MinRakeMillis \in 0..1000 /\ RakeFloor \in Nat

(***************************************************************************)
(* The smallest bet of a live seat in a row of sidepots, 0 when none has   *)
(* one, and whether a live seat has more than that: another pot is needed. *)
(***************************************************************************)
minbet(row, live) ==
  LET posted == {row[j] : j \in live} \ {0}
  IN  IF posted = {} THEN 0 ELSE Min(posted)

Deeper(row, live) == \E j \in live : row[j] > minbet(row, live)

\* What a row passes on to the next one, and what it keeps.
Above(row, m) == [j \in DOMAIN row |-> IF row[j] > m THEN row[j] - m ELSE 0]
Below(row, m) == [j \in DOMAIN row |-> IF row[j] > m THEN m ELSE row[j]]

\* sidepots[n] as the n-th round of pangea_sidepots finds it.
Row(bets, live) ==
  LET row[n \in 0..Cardinality(DOMAIN bets)] ==
        IF n = 0 THEN bets
        ELSE IF Deeper(row[n - 1], live) THEN Above(row[n - 1], minbet(row[n - 1], live))
        ELSE [j \in DOMAIN bets |-> 0]
  IN  row

\* Bugs: all bets in one pot; every later pot cut at the first one's level.
SidepotsNone(bets, live) == <<bets>>

SidepotsShallow(bets, live) ==
  LET m == minbet(bets, live)
  IN  IF Deeper(bets, live) THEN <<Below(bets, m), Below(Above(bets, m), m)>> ELSE <<bets>>

(***************************************************************************)
(* pangea_sidepots: the pots in order.  The loop stops at the first row    *)
(* that needs no further pot, and after N rows at the latest.              *)
(***************************************************************************)
pangea_sidepots(bets, live) ==
  LET row == Row(bets, live)
      seats == Cardinality(DOMAIN bets)
      num == 1 + Cardinality({n \in 0..seats - 2 : Deeper(row[n], live)})
  IN  [n \in 1..num |-> IF Deeper(row[n - 1], live)
                        THEN Below(row[n - 1], minbet(row[n - 1], live))
                        ELSE row[n - 1]]

\* A bug that takes the host's share twice.
WinningsDoubleRake(total, numwinners, rakemillis, maxrake) ==
  [split |-> (total * (1000 - rakemillis)) \div (1000 * numwinners),
   rake |-> (total * rakemillis) \div 1000, pangearake |-> (total * rakemillis) \div 1000]

(***************************************************************************)
(* pangea_winnings: each winner's share of a pot, the host's rake and      *)
(* pangea's.  What the division leaves over goes to the rake.              *)
(***************************************************************************)
pangea_winnings(total, numwinners, rakemillis, maxrake) ==
  LET full  == (total * (1000 - rakemillis)) \div (1000 * numwinners)
      split == IF numwinners = 0 THEN 0
               ELSE IF total - full * numwinners > maxrake
                    THEN (total - maxrake) \div numwinners
                    ELSE full
      kept  == total - split * numwinners
      rake  == IF rakemillis > MinRakeMillis
               THEN (kept * (rakemillis - MinRakeMillis)) \div rakemillis
               ELSE 0
  IN  [split |-> split, rake |-> rake, pangearake |-> kept - rake]

\* The rake cap of a hand: maxrakes[] big blinds for the seats that bet, or
\* the larger of the table's own maximum and the built-in one.
maxrakes == <<0, 0, 1, 2, 2, 3, 3, 3, 3, 3>>

MaxRake(bets, bigblind, tablemax) ==
  LET n   == Cardinality({j \in DOMAIN bets : bets[j] > 0})
      cap == maxrakes[n + 1] * bigblind
  IN  IF cap > tablemax THEN Max({tablemax, RakeFloor}) ELSE cap

\* A bug: the weakest hand takes the pot.
WinnersWeakest(pot, live, handranks) ==
  LET in == {j \in live : pot[j] > 0}
  IN  {j \in in : \A k \in in : handranks[k] >= handranks[j]}

\* The live seats of a pot that hold its best rank.
Winners(pot, live, handranks) ==
  LET in == {j \in live : pot[j] > 0}
  IN  {j \in in : \A k \in in : handranks[k] <= handranks[j]}

(***************************************************************************)
(* pangea_splitpot: what a pot pays each seat, and its two rakes.  A pot   *)
(* with no winner pays nobody and is not raked ("numwinners.0").           *)
(***************************************************************************)
pangea_splitpot(pot, live, handranks, rakemillis, maxrake) ==
  LET winners == Winners(pot, live, handranks)
      w == pangea_winnings(SumFunction(pot), Cardinality(winners), rakemillis, maxrake)
  IN  IF winners = {}
      THEN [won |-> [j \in DOMAIN pot |-> 0], rake |-> 0, pangearake |-> 0]
      ELSE [won |-> [j \in DOMAIN pot |-> IF j \in winners THEN w.split ELSE 0],
            rake |-> w.rake, pangearake |-> w.pangearake]

\* The pots of a hand, paid: the loop of pangea_finish.
Payout(bets, live, handranks, rakemillis, maxrake) ==
  LET pots == pangea_sidepots(bets, live)
      paid == [pot \in Range(pots) |->
                 pangea_splitpot(pot, live, handranks, rakemillis, maxrake)]
  IN  [won |-> [j \in DOMAIN bets |-> MapThenSumSet(LAMBDA n : paid[pots[n]].won[j], DOMAIN pots)],
       rake |-> MapThenSumSet(LAMBDA n : paid[pots[n]].rake, DOMAIN pots),
       pangearake |-> MapThenSumSet(LAMBDA n : paid[pots[n]].pangearake, DOMAIN pots)]
=============================================================================
