----------------------------- MODULE PangeaHand -----------------------------
(***************************************************************************)
(* The hands a pangea host plays, with the messages left out: one replica  *)
(* of the table, its seats acting in turn (pangea777.c, pangeafunds.c).    *)
(* It starts with a table between two hands.                               *)
(*                                                                         *)
(* `phase' is what the host waits for: "idle" the next hand, "dealing" the *)
(* hole cards, "betting" the seat under the gun, "reveal" the community    *)
(* cards it asked to decode, "showdown" the players' cards.                *)
(***************************************************************************)
EXTENDS PangeaBets

CONSTANTS Stacks,    \* the balances a table may start with
          Buyin,     \* what a busted seat buys in for
          Ranks,     \* strengths of a shown hand
          MaxHands, MaxBuyins   \* bounds of the model

ASSUME HandAssumption ==
  /\ Stacks \subseteq [Players -> Nat] /\ Buyin \in Nat \ {0}
  /\ Ranks \subseteq Nat \ {0} /\ MaxHands \in Nat /\ MaxBuyins \in Nat

VARIABLES t,         \* the replica
          phase,
          buyins     \* history: the chips that came to the table

vars == <<t, phase, buyins>>

Phases == {"idle", "dealing", "betting", "reveal", "showdown"}

TypeOK ==
  /\ t.balances \in [Players -> Nat] /\ t.bets \in [Players -> Nat]
  /\ t.betstatus \in [Players -> {"in", "allin", "fold"}]
  /\ t.button \in Players /\ t.undergun \in Players /\ t.lastbettor \in Players
  /\ t.betsize \in Nat /\ t.lastraise \in Nat /\ t.numactions \in 0..2 * N
  /\ t.handmask \subseteq Players /\ t.community \in 0..5 /\ t.cardi \in 0..5
  /\ t.hostrake \in Nat /\ t.pangearake \in Nat /\ t.numhands \in 0..MaxHands
  /\ phase \in Phases /\ buyins \in Seq({Buyin})

Init ==
  /\ t \in {Table(s) : s \in Stacks}
  /\ phase = "idle" /\ buyins = <<>>

(***************************************************************************)
(* pangea_anotherhand and the newhand message it leads to.  A table where  *)
(* one seat has all the chips starts no other hand.                        *)
(***************************************************************************)
AnotherHand ==
  /\ phase = "idle" /\ t.numhands < MaxHands
  /\ Cardinality({p \in Players : t.balances[p] # 0}) # 1
  /\ t' = pangea_newhand(pangea_clearhand(t))
  /\ phase' = "dealing" /\ UNCHANGED buyins

\* The last facedown card: pangea_facedown starts the bets.
FaceDown ==
  /\ phase = "dealing"
  /\ t' = pangea_startbets(t, 0)
  /\ phase' = "betting" /\ UNCHANGED buyins

(***************************************************************************)
(* pangea_action for the seat under the gun.  A seat that folded or is all *)
(* in sends 0; any other amount up to its balance is one pangea_input can  *)
(* produce.  When all have acted the host asks for the next card or the    *)
(* showdown.                                                               *)
(***************************************************************************)
Action(amount) ==
  LET a == TakeAction(t, t.undergun, amount)
      s == SkipIdle(a)
  IN  /\ phase = "betting"
      /\ t.betstatus[t.undergun] # "in" => amount = 0
      /\ amount <= t.balances[t.undergun]
      /\ IF LastMan(a)
         THEN t' = pangea_finish(a) /\ phase' = "idle"
         ELSE \/ s.numactions < N /\ t' = s /\ phase' = "betting"
              \/ s.numactions >= N /\ s.community < 5 /\ t' = s /\ phase' = "reveal"
              \/ s.numactions >= N /\ s.community = 5 /\ t' = AskShowdown(s) /\ phase' = "showdown"
      /\ UNCHANGED buyins

\* A community card face up; from the third on it starts a betting round.
FaceUp ==
  LET c == t.community + 1
      u == [t EXCEPT !.community = c]
  IN  /\ phase = "reveal"
      /\ IF c < 3 THEN t' = u /\ UNCHANGED phase
         ELSE t' = pangea_startbets(u, c) /\ phase' = "betting"
      /\ UNCHANGED buyins

\* Every live seat shows its cards: handmask is full and pangea_idle finishes.
Showdown(shown) ==
  /\ phase = "showdown"
  /\ t' = pangea_finish([t EXCEPT !.handmask = Players,
                                  !.handranks = [p \in Players |-> IF p \in Live(t) THEN shown[p] ELSE 0]])
  /\ phase' = "idle" /\ UNCHANGED buyins

\* A seat without chips buys in: pangea_addfunds, at any moment.
AddFunds(p) ==
  /\ Len(buyins) < MaxBuyins /\ t.balances[p] = 0
  /\ t' = pangea_addfunds(t, p, Buyin)
  /\ buyins' = Append(buyins, Buyin) /\ UNCHANGED phase

Next ==
  \/ AnotherHand
  \/ FaceDown
  \/ \E amount \in 0..t.balances[t.undergun] : Action(amount)
  \/ FaceUp
  \/ \E shown \in [Players -> Ranks] : Showdown(shown)
  \/ \E p \in Players : AddFunds(p)

(***************************************************************************)
(* The nodes keep playing: WF_vars(Next without AddFunds), with its        *)
(* ENABLED written out (some play is possible exactly in CanPlay).         *)
(***************************************************************************)
CanPlay == \/ phase # "idle"
           \/ /\ t.numhands < MaxHands
              /\ Cardinality({p \in Players : t.balances[p] # 0}) # 1

Spec == Init /\ [][Next]_vars /\ ([]<>~CanPlay \/ []<><<UNCHANGED buyins>>_vars)

-----------------------------------------------------------------------------
Chips(s) == SumFunction(s.balances) + s.hostrake + s.pangearake
            + IF s.finished THEN 0 ELSE SumFunction(s.bets)

\* A step leaves the chips of the table alone, its buy-in apart.
Conserved == Chips(t') = Chips(t) + Buyin * (Len(buyins') - Len(buyins))

(***************************************************************************)
(* No chip is made or lost: what the seats hold, what is in the unpaid     *)
(* pots and what was raked is what was brought to the table, whatever the  *)
(* sequence of blinds, raises, side pots, splits and roundings             *)
(* (pangea_bet, pangea_finish; pangea_anotherhand prints this sum).        *)
(***************************************************************************)
ChipsConserved == [][Conserved]_vars

(***************************************************************************)
(* The same for every step while nobody bought in, and, with seats buying  *)
(* in at any moment (pangea_addfunds), for every step taken in a hand that *)
(* is not paid out yet.                                                    *)
(***************************************************************************)
ConservedInHand == [][buyins' = <<>> \/ ~t.finished => Conserved]_vars

(***************************************************************************)
(* A seat that buys in while there are bets changes nothing but its own    *)
(* balance: the blinds are not posted a second time and nobody is folded   *)
(* (pangea_addfunds calls pangea_checkantes on every buy-in).              *)
(***************************************************************************)
RebuyLeavesHand ==
  [][buyins' # buyins /\ (\E p \in Players : t.bets[p] # 0)
       => t' = [t EXCEPT !.balances = t'.balances]]_vars

(***************************************************************************)
(* A pot that is paid out has a winner: "pangea_splitpot error:            *)
(* numwinners.0" is never reached and no bet is left without an owner.     *)
(***************************************************************************)
PotHasWinner ==
  t.finished =>
    LET pots == pangea_sidepots(t.bets, Live(t))
    IN  \A n \in DOMAIN pots :
          SumFunction(pots[n]) > 0 => Winners(pots[n], Live(t), t.handranks) # {}

(***************************************************************************)
(* A betting round ends only when every seat still able to bet has put in  *)
(* the same sum (the numactions counting of pangea_bet and pangea_action). *)
(***************************************************************************)
RoundClosed ==
  phase \in {"reveal", "showdown"} =>
    \A p \in Players : t.betstatus[p] = "in" => t.bets[p] = t.betsize

(***************************************************************************)
(* A live seat with a better hand that put in as much leaves the weaker    *)
(* one nothing, and a folded seat wins nothing (pangea_splitpot).          *)
(***************************************************************************)
BetterHandWins ==
  t.finished => \A p, q \in Players :
    /\ p \notin Live(t) => t.won[p] = 0
    /\ /\ {p, q} \subseteq Live(t)
       /\ t.handranks[p] > t.handranks[q] /\ t.bets[p] >= t.bets[q]
       => t.won[q] = 0

\* Every hand that is dealt is played out: pangea_finish runs.
HandFinishes == (phase = "dealing") ~> t.finished
=============================================================================
