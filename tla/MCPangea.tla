------------------------------ MODULE MCPangea -------------------------------
(* A pangea table in one run.  A behaviour is of one part: hands on one copy  *)
(* of the table (PangeaHand), a payout (PangeaPayout), or a table of three    *)
(* nodes (PangeaTable).  The other parts stay where they are.                 *)
EXTENDS MCPangeaHand

VARIABLES part, bets, live, handranks, paid, tab, luck, inbox, up, post, made

payoutVars == <<bets, live, handranks, paid>>
nodeVars == <<tab, luck, inbox, up, post, made>>
allVars == <<part, vars, payoutVars, nodeVars>>

\* Four seats with bets below, at and above the sums where rake and cap differ.
P == INSTANCE PangeaPayout WITH
       Players <- 0..3, Amounts <- {0, 7, 150, 333}, BigBlind <- 10, RakeFloor <- 3

\* One hand of three nodes, one of which can raise; two hands of two, with the
\* third seat busted.
Shared == INSTANCE PangeaTable WITH
  MaxHands <- 2,
  Tables <- {[balances |-> (0 :> 3) @@ [p \in 1..2 |-> 2],
              luck |-> <<[p \in 0..2 |-> 1 + (p % 2)]>>],
             [balances |-> (2 :> 0) @@ [p \in 0..1 |-> 2],
              luck |-> [d \in 1..2 |-> [p \in 0..2 |-> 1 + ((d + p) % 2)]]]}

NoHand   == t = Table([p \in Players |-> Big]) /\ phase = "idle" /\ buyins = <<>>
NoPayout == bets = 0 /\ live = 0 /\ handranks = 0 /\ paid = 0
NoTable  == tab = 0 /\ luck = 0 /\ inbox = 0 /\ up = 0 /\ post = 0 /\ made = 0

MCInit ==
  \/ part = "hand" /\ Init /\ NoPayout /\ NoTable
  \/ part = "payout" /\ NoHand /\ P!Init /\ NoTable
  \/ part = "table" /\ NoHand /\ NoPayout /\ Shared!Init

MCNext ==
  \/ part = "hand" /\ Next /\ UNCHANGED <<part, payoutVars, nodeVars>>
  \/ part = "payout" /\ P!Next /\ UNCHANGED <<part, vars, nodeVars>>
  \/ part = "table" /\ Shared!Next /\ UNCHANGED <<part, vars, payoutVars>>

\* The fairness of PangeaHand and of PangeaTable.
CanGoOn ==
  \/ part = "hand" /\ CanPlay
  \/ part = "table" /\ Shared!Busy

MCSpec == MCInit /\ [][MCNext]_allVars
          /\ ([]<>~CanGoOn \/ []<><<UNCHANGED buyins>>_allVars)

\* The properties of PangeaPayout and PangeaTable hold of their parts.
InPayout(A) == part = "payout" => A
AtTable(A)  == part = "table" => A

\* The side pots of pangea_sidepots are the ones the live stacks call for.
PotsMatchStacks == InPayout(P!PotsMatchStacks)

\* Everything bet is paid to a seat or raked, and raked at the table's rate.
PaidInFull == InPayout(P!PaidInFull)

\* The shape of the copy of a hand, and of the nodes' tables.
TypesOK == TypeOK /\ AtTable(Shared!TableTypeOK)

\* With no message under way all nodes have the same table, and nodes that
\* finished the same hand paid the same seats the same sums.
ReplicasAgree == AtTable(Shared!ReplicasAgree)

\* "ERROR BETSIZE MISMATCH" is never printed.
BetSizesMatch == AtTable(Shared!BetSizesMatch)

\* One user is asked for a bet at a time, in the turn the host sees.
OnePrompt == AtTable(Shared!OnePrompt)

\* What the host's table goes through is a game of PangeaHand.
ImplementsHand == AtTable(Shared!Hand!Init) /\ [][AtTable(Shared!HandStep)]_allVars

\* Every hand ends on every node and the next one is dealt.
PlayGoesOn == []<>AtTable(Shared!PlaySettled)
=============================================================================
