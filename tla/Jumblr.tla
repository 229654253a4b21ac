------------------------------- MODULE Jumblr -------------------------------
(***************************************************************************)
(* The coin shuffle of the jumblr agent (src/plugins/agents/shuffle777.c). *)
(* A node that starts a shuffle lists the nodes with an open order and     *)
(* sends its input and outputs to the next one; each peels a layer, adds   *)
(* its own and passes everything on.  The last one makes the transaction   *)
(* and broadcasts it; every node signs it if it finds itself paid, and     *)
(* broadcasts the signature; whoever has all signatures sends it.          *)
(*                                                                         *)
(* Layers of encryption and the random order of inputs and outputs are not *)
(* modelled beyond their effect: a message or a transaction holds a set of *)
(* inputs and a set of outputs, and the vin of a signature is the coin of  *)
(* that input, as a shuffle has one transaction.  A message is handled at  *)
(* most once (the relays drop duplicate tags), in any order, and one that  *)
(* is lost is one that is never handled.                                   *)
(***************************************************************************)
EXTENDS Integers, Sequences, FiniteSets, FiniteSetsExt

CONSTANTS
  Nodes, Coins,
  Owner, Value,   \* of an unspent output
  Ask,            \* Ask[n]: the amount n asks for in its order
  TxFee,          \* coin->mgw.txfee
  FeePart,        \* an amount's fee is amount / FeePart (1024)
  MaxAmount,      \* txfee * 10000, see jumblr_amount
  Donates,        \* nodes with a donation address
  Lists,          \* lists of addresses uniq_specialaddrs may return
  Times,          \* timestamps a shuffle may be started with
  Prepares,       \* bound: coins n prepares
  MaxEvents,      \* bound: shuffles started and nodes restarted
  NoCoin

\* No order is cut to 0, and the nodes of a list are distinct.
ASSUME JumblrConstants ==
  /\ Owner \in [Coins -> Nodes] /\ Value \in [Coins -> Nat]
  /\ TxFee \in Nat \ {0} /\ FeePart \in Nat \ {0} /\ MaxAmount \in Nat \ {0}
  /\ Ask \in [Nodes -> Nat] /\ \A n \in Nodes : Ask[n] >= TxFee
  /\ \A u \in Coins : Value[u] # 2 * TxFee + Value[u] \div FeePart
  /\ Lists \subseteq Seq(Nodes)
  /\ \A l \in Lists : Len(l) >= 3 /\ \A i, j \in 1..Len(l) : l[i] = l[j] => i = j
  /\ NoCoin \notin Coins /\ "unready" \notin Coins

VARIABLES
  coin,      \* coin[n]: jvintxid and the other j fields: a coin ready to be
             \* used, NoCoin, or "unready" when jumblr_idle will not look again
  looked,    \* looked[n]: coins n prepared
  quote,     \* quote[n]: baseamount of n's order in its AllQuotes, 0 if none
  shuffles,  \* shuffles[n]: SHUFFLES, a function on the shuffleids in it
  pms,       \* messages from a node to the next
  validates, \* broadcasts of a transaction, and who still has to handle it
  signeds,   \* broadcasts of a signature, and who still has to handle it
  sent,      \* transactions passed to sendrawtransaction, with signatures
  chain,     \* the ones the network accepted
  starts, crashes

vars == <<coin, looked, quote, shuffles, pms, validates, signeds, sent, chain,
          starts, crashes>>
network == <<pms, validates, signeds>>

\* A shuffleid is a hash of the timestamp and the addresses.
Ids == [at : Times, addrs : Lists]

\* sp->T of a shuffle that has no transaction yet.
NoTx == [ins |-> {}, outs |-> {}]

\* A struct jumblr_info that jumblr_create made: no input yet.
Created == [u |-> NoCoin, amount |-> 0, change |-> 0, tx |-> NoTx,
            sigs |-> <<>>, tsigs |-> <<>>, done |-> FALSE, joined |-> FALSE]

Spent(u) == \E tx \in chain : u \in tx.ins

\* f with f[x] = y.
With(f, x, y) == [z \in DOMAIN f \cup {x} |-> IF z = x THEN y ELSE f[z]]

\* The wallet's unspent outputs, and the one subatomic_bestfit takes of them:
\* the smallest that is large enough, or else the largest.
Unspents(n) == {u \in Coins : Owner[u] = n /\ ~Spent(u)}

BestFit(own) ==
  LET above == {u \in own : Value[u] >= MaxAmount}
  IN  IF above = {} THEN {u \in own : \A v \in own : Value[u] >= Value[v]}
      ELSE {u \in above : \A v \in above : Value[u] <= Value[v]}

Fee(amount) == amount \div FeePart

\* bidask_parse: an order is placed once a coin is ready, and is cut to what
\* the coin can pay.  maxamount is unsigned, and cuts nothing when the coin
\* does not hold the fees.
Ordered(n, u) ==
  LET maxamount == Value[u] - 2 * TxFee - Fee(Value[u])
  IN  IF maxamount >= 0 /\ Ask[n] > maxamount THEN maxamount ELSE Ask[n]

\* Every node has prepared a coin and placed its order, and has the orders of
\* the others.
Init ==
  /\ chain = {}
  /\ coin \in [Nodes -> Coins]
  /\ \A n \in Nodes : coin[n] \in BestFit(Unspents(n))
  /\ looked = [n \in Nodes |-> 1]
  /\ quote = [n \in Nodes |-> Ordered(n, coin[n])]
  /\ shuffles = [n \in Nodes |-> <<>>]
  /\ pms = {} /\ validates = {} /\ signeds = {} /\ sent = {}
  /\ starts = 0 /\ crashes = 0

-----------------------------------------------------------------------------
(* jumblr_idle. *)

\* A coin that is part of a shuffle is unspent until that is sent, and may be
\* found again.  When there is none jvintxid keeps the words of the error,
\* and the search is never made again.
Prepare(n) ==
  /\ coin[n] = NoCoin /\ looked[n] < Prepares[n]
  /\ looked' = [looked EXCEPT ![n] = @ + 1]
  /\ IF Unspents(n) = {} THEN coin' = [coin EXCEPT ![n] = "unready"]
     ELSE \E u \in BestFit(Unspents(n)) : coin' = [coin EXCEPT ![n] = u]
  /\ UNCHANGED <<quote, shuffles, network, sent, chain, starts, crashes>>

\* jumblr_free of a shuffle that is done, an hour after it was started: no
\* message of it is under way to the node for that long.
Purge(n, id) ==
  /\ id \in DOMAIN shuffles[n] /\ shuffles[n][id].done
  /\ ~\E m \in validates \cup signeds : m.id = id /\ n \in m.to
  /\ shuffles' = [shuffles EXCEPT
                    ![n] = [i \in DOMAIN shuffles[n] \ {id} |-> shuffles[n][i]]]
  /\ UNCHANGED <<coin, looked, quote, network, sent, chain, starts, crashes>>

-----------------------------------------------------------------------------
(* jumblr_next: n puts its coin into the shuffle. *)

jumblr_amount(n) == IF quote[n] < MaxAmount THEN quote[n] ELSE MaxAmount

\* A bug that counts one output.
Need_OneOutput(n) == jumblr_amount(n) + Fee(jumblr_amount(n)) + TxFee

\* What the input of n must hold: the amount, the fee of the shuffle and the
\* fee of two outputs.
Need(n) == jumblr_amount(n) + Fee(jumblr_amount(n)) + 2 * TxFee

Ready(n) == coin[n] \in Coins /\ Value[coin[n]] >= jumblr_amount(n)
Joins(n) == Ready(n) /\ Value[coin[n]] >= Need(n)

\* A bug that keeps the fee of the shuffle a second time.
AfterNext_FeeTwice(n) ==
  LET left == Value[coin[n]] - Need(n) - Fee(jumblr_amount(n))
  IN  [Created EXCEPT !.u = IF Ready(n) THEN coin[n] ELSE @,
                      !.amount = jumblr_amount(n),
                      !.change = IF Joins(n) /\ left > 0 THEN left ELSE 0,
                      !.joined = Joins(n)]

\* What jumblr_next leaves in the shuffle.
AfterNext(n) ==
  [Created EXCEPT !.u = IF Ready(n) THEN coin[n] ELSE @,
                  !.amount = jumblr_amount(n),
                  !.change = IF Joins(n) THEN Value[coin[n]] - Need(n) ELSE 0,
                  !.joined = Joins(n)]

\* The coin is given up as soon as it holds the amount, even when it turns
\* out too small for the fees.
Taken(n) == coin' = [coin EXCEPT ![n] = IF Ready(n) THEN NoCoin ELSE @]

\* One-time addresses of n in a shuffle.
Addr(n, id, kind) == [node |-> n, id |-> id, kind |-> kind]
Pays(addr, value) == [addr |-> addr, value |-> value]

Outputs(n, id, s) ==
  {Pays(Addr(n, id, "dest"), s.amount)}
    \cup (IF s.change = 0 THEN {} ELSE {Pays(Addr(n, id, "change"), s.change)})

Pm(to, id, ins, outs) == [to |-> to, id |-> id, ins |-> ins, outs |-> outs]

\* jumblr_start: the list is in a random order.  The position of the node in
\* it is lost (uniq_specialaddrs leaves 0), so that only a list that happens
\* to begin with the node is used; the others stay in SHUFFLES.  jumblr_create
\* takes no list without the node.
Start(n, id) ==
  /\ starts + crashes < MaxEvents /\ starts' = starts + 1
  /\ quote[n] # 0 /\ id \notin DOMAIN shuffles[n]
  /\ \E i \in DOMAIN id.addrs : id.addrs[i] = n
  /\ IF id.addrs[1] = n
     THEN /\ Taken(n)
          /\ shuffles' = [shuffles EXCEPT ![n] =
                            With(@, id, AfterNext(n))]
          /\ pms' = IF Joins(n)
                    THEN pms \cup {Pm(id.addrs[2], id, {coin[n]},
                                      Outputs(n, id, AfterNext(n)))}
                    ELSE pms
     ELSE /\ shuffles' = [shuffles EXCEPT ![n] = With(@, id, Created)]
          /\ UNCHANGED <<coin, pms>>
  /\ UNCHANGED <<looked, quote, validates, signeds, sent, chain, crashes>>

-----------------------------------------------------------------------------
(* jumblr_cointx: the transaction of the last node. *)

Total(outs) == MapThenSumSet(LAMBDA o : o.value, outs)
Held(ins) == MapThenSumSet(LAMBDA u : Value[u], ins)

\* coin->donationaddress.
Donation(id) == Addr(NoCoin, id, "donation")

\* A bug that shares out the fee of the transaction too.
CoinTxOuts_AllOfIt(n, id, ins, outs) ==
  LET num == Cardinality(outs)
      shared == Held(ins) - Total(outs)
  IN  IF shared <= num THEN outs
      ELSE {Pays(o.addr, o.value + shared \div num) : o \in outs}

\* What is left over the fee of one txfee an output goes to the donation
\* address, or is shared among the outputs.
CoinTxOuts(n, id, ins, outs) ==
  LET num == Cardinality(outs)
      shared == Held(ins) - Total(outs) - num * TxFee
  IN  IF shared <= num THEN outs
      ELSE IF n \in Donates /\ shared >= TxFee
           THEN outs \cup {Pays(Donation(id), shared)}
           ELSE {Pays(o.addr, o.value + shared \div num) : o \in outs}

\* ram_verify_txstillthere reads the value of an output, spent or not.
CanMakeTx(ins, outs) ==
  Held(ins) >= Total(outs) + Cardinality(outs) * TxFee

\* jumblr_incoming.  A shuffleid that is in SHUFFLES already, from a start of
\* the node itself, is not joined.
Incoming(n, m) ==
  /\ m \in pms /\ m.to = n
  /\ LET id == m.id
         last == id.addrs[Len(id.addrs)] = n
         next == id.addrs[1 + CHOOSE i \in DOMAIN id.addrs : id.addrs[i] = n]
         new == id \notin DOMAIN shuffles[n]
         joins == new /\ quote[n] # 0 /\ Joins(n)
         ins == m.ins \cup {coin[n]}
         outs == m.outs \cup Outputs(n, id, AfterNext(n))
     IN  /\ IF new /\ quote[n] # 0 THEN Taken(n) ELSE UNCHANGED coin
         /\ shuffles' = IF new
                        THEN [shuffles EXCEPT ![n] =
                                With(@, id, IF quote[n] # 0 THEN AfterNext(n)
                                            ELSE Created)]
                        ELSE shuffles
         /\ pms' = (pms \ {m})
                     \cup (IF joins /\ ~last THEN {Pm(next, id, ins, outs)} ELSE {})
         /\ IF joins /\ last /\ CanMakeTx(ins, outs)
            THEN validates' = validates \cup
                   {[id |-> id, to |-> Nodes,
                     tx |-> [ins |-> ins, outs |-> CoinTxOuts(n, id, ins, outs)]]}
            ELSE UNCHANGED validates
  /\ UNCHANGED <<looked, quote, signeds, sent, chain, starts, crashes>>

-----------------------------------------------------------------------------
(* Signing and sending. *)

Sig(n, tx) == [by |-> n, tx |-> tx]

\* The network takes a transaction with its owners' signatures on unspent
\* inputs.
Accepts(tx, sigs) ==
  /\ DOMAIN sigs = tx.ins
  /\ \A u \in tx.ins : sigs[u] = Sig(Owner[u], tx) /\ ~Spent(u)

\* jumblr_send, at the end of both handlers, on the new contents s of the
\* shuffle; the answer of the network is not looked at.
Send(n, id, s) ==
  LET full == s.tx # NoTx /\ Cardinality(DOMAIN s.sigs) >= Len(id.addrs)
      sends == full /\ ~s.done
  IN  /\ shuffles' = [shuffles EXCEPT ![n] =
                        With(@, id, [s EXCEPT !.done = @ \/ full])]
      /\ quote' = IF full THEN [quote EXCEPT ![n] = 0] ELSE quote
      /\ sent' = IF sends THEN sent \cup {[tx |-> s.tx, sigs |-> s.tsigs]} ELSE sent
      /\ chain' = IF sends /\ Accepts(s.tx, s.tsigs) THEN chain \cup {s.tx} ELSE chain

Handled(msgs, m, n) ==
  (msgs \ {m}) \cup (IF m.to = {n} THEN {} ELSE {[m EXCEPT !.to = @ \ {n}]})

PaidTo(tx, addr, value) == \E o \in tx.outs : o.addr = addr /\ value <= o.value

\* jumblr_validate finds the node's own outputs and input.  Its search for an
\* output or an input that occurs twice never finds one: see FeeExact.
Valid(n, id, s, tx) ==
  /\ PaidTo(tx, Addr(n, id, "dest"), s.amount)
  /\ s.change = 0 \/ PaidTo(tx, Addr(n, id, "change"), s.change)
  /\ s.u \in tx.ins

\* A bug that forgets the signatures that came before the transaction.
Signed_OwnOnly(s, sig) ==
  [s EXCEPT !.sigs = With(@, s.u, sig), !.tsigs = With(<<>>, s.u, sig)]

\* All signatures so far go into the transaction.
Signed(s, sig) ==
  [s EXCEPT !.sigs = With(@, s.u, sig), !.tsigs = With(s.sigs, s.u, sig)]

\* The signature comes back to the node as well, and changes nothing.
Validate(n, m) ==
  /\ m \in validates /\ n \in m.to
  /\ validates' = Handled(validates, m, n)
  /\ IF m.id \notin DOMAIN shuffles[n]
     THEN UNCHANGED <<quote, shuffles, signeds, sent, chain>>
     ELSE LET s == [shuffles[n][m.id] EXCEPT !.tx = m.tx, !.tsigs = <<>>]
              sig == Sig(n, m.tx)
          IN  IF Valid(n, m.id, s, m.tx)
              THEN /\ signeds' = signeds \cup
                        {[id |-> m.id, to |-> Nodes \ {n}, vin |-> s.u, sig |-> sig]}
                   /\ Send(n, m.id, Signed(s, sig))
              ELSE /\ shuffles' = [shuffles EXCEPT ![n] = With(@, m.id, s)]
                   /\ UNCHANGED <<quote, signeds, sent, chain>>
  /\ UNCHANGED <<coin, looked, pms, starts, crashes>>

\* The method "signed" of jumblr_process_json.
GotSigned(n, m) ==
  /\ m \in signeds /\ n \in m.to
  /\ signeds' = Handled(signeds, m, n)
  /\ IF m.id \notin DOMAIN shuffles[n]
     THEN UNCHANGED <<quote, shuffles, sent, chain>>
     ELSE LET s == shuffles[n][m.id]
              t == [s EXCEPT !.sigs = With(@, m.vin, m.sig),
                             !.tsigs = IF s.tx = NoTx THEN @
                                       ELSE With(@, m.vin, m.sig)]
          IN  Send(n, m.id, t)
  /\ UNCHANGED <<coin, looked, pms, validates, starts, crashes>>

\* A restart: SHUFFLES, the prepared coin and the orders were in memory.
Crash(n) ==
  /\ starts + crashes < MaxEvents /\ crashes' = crashes + 1
  /\ coin' = [coin EXCEPT ![n] = "unready"]
  /\ quote' = [quote EXCEPT ![n] = 0]
  /\ shuffles' = [shuffles EXCEPT ![n] = <<>>]
  /\ UNCHANGED <<looked, network, sent, chain, starts>>

Handle(n) ==
  \/ \E m \in pms : Incoming(n, m)
  \/ \E m \in validates : Validate(n, m)
  \/ \E m \in signeds : GotSigned(n, m)

Next ==
  \E n \in Nodes :
    \/ Prepare(n) \/ Handle(n) \/ Crash(n)
    \/ \E id \in Ids : Start(n, id)
    \/ \E id \in DOMAIN shuffles[n] : Purge(n, id)

Spec == Init /\ [][Next]_vars

\* The nodes handle what they receive: there are steps as long as a message
\* is under way.  Each step but the handling of a message is bounded.
Busy == pms \cup validates \cup signeds # {}
Fairness == []<>~Busy \/ []<><<TRUE>>_vars

FairSpec == Spec /\ Fairness

-----------------------------------------------------------------------------
(* Properties. *)

\* tx pays the owner of u for it: an amount d at a one-time address, and the
\* rest as change but for two txfees and the fee of d.
Repaid(u, tx) ==
  \E o \in tx.outs :
    /\ o.addr.node = Owner[u] /\ o.addr.kind = "dest"
    /\ \E d \in 0..Value[u] :
         LET c == Value[u] - d - Fee(d) - 2 * TxFee
         IN  /\ d <= o.value
             /\ \/ c = 0
                \/ c > 0 /\ PaidTo(tx, Addr(Owner[u], o.addr.id, "change"), c)

\* Whoever's coin a transaction of the network spends gets all of it back but
\* the fees: what jumblr_next asks for and jumblr_validate looks for, whatever
\* was started, lost or restarted since.
FundsSafe == \A tx \in chain : \A u \in tx.ins : Repaid(u, tx)

\* A transaction passed to sendrawtransaction holds the signature of every
\* owner, in whatever order signatures and transaction arrived: jumblr_send
\* counts the bits of sigmask, not the signatures in the transaction.
SentComplete ==
  \A x \in sent :
    /\ DOMAIN x.sigs = x.tx.ins
    /\ \A u \in x.tx.ins : x.sigs[u] = Sig(Owner[u], x.tx)

\* The transaction jumblr_cointx makes has a coin of every node and no address
\* twice, and leaves the network the txfee of each of the nodes' outputs and
\* at most a unit for each of them that could not be shared out.
FeeExact ==
  \A m \in validates :
    LET left == Held(m.tx.ins) - Total(m.tx.outs)
        num == Cardinality({o \in m.tx.outs : o.addr.kind # "donation"})
    IN  /\ num * TxFee <= left /\ left <= num * TxFee + num
        /\ \A o, p \in m.tx.outs : o.addr = p.addr => o = p
        /\ \A n \in Nodes : \E u \in m.tx.ins : Owner[u] = n

Refused(id) == \E n \in Nodes : id \in DOMAIN shuffles[n] /\ ~shuffles[n][id].joined

\* A shuffle that was started ends with the coin of the node that started it
\* spent, in this shuffle or in one that overlapped it, unless a node on the
\* way refuses (it has no order or no coin left, or has a dead shuffle of its
\* own of that id) or is restarted.  There is no retry and no timeout.
AllSettled ==
  \A n \in Nodes : \A id \in DOMAIN shuffles[n] :
    (id.addrs[1] = n /\ shuffles[n][id].joined)
      => Spent(shuffles[n][id].u) \/ Refused(id) \/ crashes > 0
ShuffleEnds == []<>AllSettled
=============================================================================
