---------------------------- MODULE JumblrProofs -----------------------------
(***************************************************************************)
(* FundsSafe for any nodes, coins, lists and fees.  The argument is the    *)
(* one of jumblr_validate: a node signs only a transaction that pays it    *)
(* for its coin, and the network takes no transaction without the          *)
(* signature of each owner.  It does not rest on what jumblr_cointx makes. *)
(*                                                                         *)
(* After it, SentInv, which SentComplete needs, and the steps that start   *)
(* a shuffle or tell nobody of a transaction; JumblrSentProofs has the     *)
(* others.                                                                 *)
(***************************************************************************)
EXTENDS Jumblr, TLAPS

\* Whoever signed for a coin is paid for it by what was signed.
Honest(sigs) == \A u \in DOMAIN sigs : Repaid(u, sigs[u].tx)

\* The fields of a struct jumblr_info.
Fields == {"u", "amount", "change", "tx", "sigs", "tsigs", "done", "joined"}

\* What jumblr_next and the handlers leave in a shuffle of n: the coin is n's
\* own, once it is joined the amount, the change and the fees make it up, and
\* the signatures are honest.
Entry(n, s) ==
  /\ DOMAIN s = Fields
  /\ s.u # NoCoin => s.u \in Coins /\ Owner[s.u] = n
  /\ s.joined => /\ s.u \in Coins /\ s.amount \in Nat /\ s.change \in Nat
                 /\ Value[s.u] = s.amount + Fee(s.amount) + 2 * TxFee + s.change
  /\ Honest(s.sigs) /\ Honest(s.tsigs)

\* The coins of a message are those of nodes that joined its shuffle.  One
\* that left since (it was restarted, or the shuffle was purged) has no order.
Offered(id, ins) ==
  \A u \in ins :
    /\ u \in Coins
    /\ LET n == Owner[u]
       IN  \/ quote[n] = 0
           \/ id \in DOMAIN shuffles[n] /\ shuffles[n][id].joined

\* A node that refused has no coin in the messages of the shuffle.
Withheld(id, ins) ==
  \A n \in Nodes :
    (id \in DOMAIN shuffles[n] /\ ~shuffles[n][id].joined)
      => shuffles[n][id].u \notin ins

Holdings ==
  /\ coin \in [Nodes -> Coins \cup {NoCoin, "unready"}]
  /\ \A n \in Nodes : coin[n] \in Coins => Owner[coin[n]] = n
  /\ quote \in [Nodes -> Nat]

\* jumblr_send clears n's order with the done flag.
Records ==
  /\ shuffles = [n \in Nodes |-> shuffles[n]]
  /\ \A n \in Nodes : \A id \in DOMAIN shuffles[n] :
       /\ Entry(n, shuffles[n][id])
       /\ shuffles[n][id].done => quote[n] = 0

Messages ==
  /\ \A m \in pms : Offered(m.id, m.ins) /\ Withheld(m.id, m.ins)
  /\ \A m \in validates : Offered(m.id, m.tx.ins) /\ Withheld(m.id, m.tx.ins)
  /\ \A m \in signeds : Repaid(m.vin, m.sig.tx)
  /\ \A m \in validates : DOMAIN m = {"id", "to", "tx"}
  /\ \A m \in signeds : DOMAIN m = {"id", "to", "vin", "sig"}

\* The inductive invariant.
SafeInv == Holdings /\ Records /\ Messages /\ FundsSafe

-----------------------------------------------------------------------------
(* Lemmas about the operators. *)

\* The kinds of the constants.
LEMMA Kinds ==
  /\ Owner \in [Coins -> Nodes] /\ Value \in [Coins -> Nat]
  /\ Ask \in [Nodes -> Nat] /\ TxFee \in Nat /\ FeePart \in Nat \ {0}
  /\ MaxAmount \in Nat /\ NoCoin \notin Coins /\ "unready" \notin Coins
  BY JumblrConstants

\* The fee of an amount is a natural number (the division of jumblr_next).
LEMMA FeeNat == \A d \in Nat : Fee(d) \in Nat
  BY Kinds DEF Fee

\* With sets one point of a function and leaves the others alone.
LEMMA WithFacts ==
  ASSUME NEW f, NEW x, NEW y
  PROVE  /\ DOMAIN With(f, x, y) = DOMAIN f \cup {x}
         /\ With(f, x, y)[x] = y
         /\ \A z \in DOMAIN f : z # x => With(f, x, y)[z] = f[z]
  BY DEF With

\* Signatures stay honest when an honest one is added, as jumblr_validate and
\* the "signed" handler do.
LEMMA HonestWith ==
  ASSUME NEW f, NEW u, NEW sig, Honest(f), Repaid(u, sig.tx)
  PROVE  Honest(With(f, u, sig))
  <1>1. /\ DOMAIN With(f, u, sig) = DOMAIN f \cup {u}
        /\ With(f, u, sig)[u] = sig
        /\ \A z \in DOMAIN f : z # u => With(f, u, sig)[z] = f[z]
    BY DEF With
  <1>2. QED BY <1>1 DEF Honest

\* No signatures are honest.
LEMMA HonestEmpty == Honest(<<>>)
  BY DEF Honest

\* An order placed for a coin is a natural number: maxamount cuts it only
\* when it is not negative.
LEMMA OrderedNat == \A n \in Nodes : \A u \in Coins : Ordered(n, u) \in Nat
  BY Kinds, FeeNat DEF Ordered

\* What jumblr_next leaves is an entry, with no signatures.
LEMMA AfterNextEntry ==
  ASSUME Holdings, NEW n \in Nodes
  PROVE  /\ Entry(n, AfterNext(n)) /\ ~AfterNext(n).done
         /\ AfterNext(n).u # NoCoin => coin[n] \in Coins /\ AfterNext(n).u = coin[n]
         /\ AfterNext(n).joined <=> Joins(n)
         /\ Joins(n) => coin[n] \in Coins /\ AfterNext(n).u = coin[n]
  <1> DEFINE r == AfterNext(n)
  <1>1. jumblr_amount(n) \in Nat
    BY Kinds DEF jumblr_amount, Holdings
  <1>2. Joins(n) => /\ coin[n] \in Coins /\ Value[coin[n]] \in Nat
                    /\ Value[coin[n]] >= Need(n) /\ Ready(n)
    BY Kinds DEF Joins, Ready
  <1>3. Need(n) \in Nat /\ Need(n) = jumblr_amount(n) + Fee(jumblr_amount(n)) + 2 * TxFee
    BY <1>1, FeeNat, Kinds DEF Need
  <1>4. /\ DOMAIN r = Fields /\ r.u = (IF Ready(n) THEN coin[n] ELSE NoCoin)
        /\ r.amount = jumblr_amount(n)
        /\ r.change = (IF Joins(n) THEN Value[coin[n]] - Need(n) ELSE 0)
        /\ (r.joined <=> Joins(n)) /\ r.sigs = <<>> /\ r.tsigs = <<>> /\ ~r.done
    BY DEF AfterNext, Created, Fields
  <1>5. Ready(n) => coin[n] \in Coins /\ Owner[coin[n]] = n /\ coin[n] # NoCoin
    BY Kinds DEF Ready, Holdings
  <1> HIDE DEF r
  <1>6. r.joined => /\ r.u \in Coins /\ r.amount \in Nat /\ r.change \in Nat
                    /\ Value[r.u] = r.amount + Fee(r.amount) + 2 * TxFee + r.change
    <2> HAVE r.joined
    <2>1. Joins(n) BY <1>4
    <2>2. r.u = coin[n] /\ r.change = Value[coin[n]] - Need(n) BY <2>1, <1>2, <1>4
    <2>3. Fee(r.amount) \in Nat BY <1>1, <1>4, FeeNat
    <2>4. Need(n) = r.amount + Fee(r.amount) + 2 * TxFee BY <1>3, <1>4
    <2>5. r.change \in Nat BY <2>1, <2>2, <1>2, <1>3
    <2>6. Value[r.u] = Need(n) + r.change BY <2>1, <2>2, <1>2, <1>3
    <2>7. r.u \in Coins /\ r.amount \in Nat BY <2>1, <2>2, <1>1, <1>2, <1>4
    <2>8. QED BY <2>3, <2>4, <2>5, <2>6, <2>7, Kinds
  <1>7. Entry(n, r) BY <1>4, <1>5, <1>6, HonestEmpty DEF Entry
  <1>8. QED BY <1>2, <1>4, <1>5, <1>7 DEF r

\* What jumblr_create leaves is an entry.
LEMMA CreatedEntry ==
  ASSUME NEW n \in Nodes
  PROVE  /\ Entry(n, Created) /\ Created.u = NoCoin
         /\ ~Created.joined /\ ~Created.done
  BY HonestEmpty DEF Entry, Created, Fields

\* A transaction in which jumblr_validate finds the outputs of a node that
\* joined pays it for its coin.
LEMMA ValidRepaid ==
  ASSUME NEW n \in Nodes, NEW id, NEW s, NEW tx, Entry(n, s), s.joined,
         Valid(n, id, s, tx)
  PROVE  Repaid(s.u, tx)
  <1> DEFINE d == s.amount
             c == Value[s.u] - d - Fee(d) - 2 * TxFee
  <1>1. /\ s.u \in Coins /\ d \in Nat /\ s.change \in Nat /\ Fee(d) \in Nat
        /\ Value[s.u] = d + Fee(d) + 2 * TxFee + s.change
    BY FeeNat DEF Entry
  <1>2. Owner[s.u] = n BY <1>1, Kinds DEF Entry
  <1>3. c = s.change /\ d \in 0..Value[s.u] BY <1>1, Kinds
  <1>4. PICK o \in tx.outs : o.addr = Addr(n, id, "dest") /\ d <= o.value
    BY DEF Valid, PaidTo
  <1>5. o.addr.node = n /\ o.addr.id = id /\ o.addr.kind = "dest"
    BY <1>4 DEF Addr
  <1> HIDE DEF c
  <1>6. \/ c = 0
        \/ c > 0 /\ PaidTo(tx, Addr(Owner[s.u], o.addr.id, "change"), c)
    <2>1. CASE s.change = 0 BY <2>1, <1>3
    <2>2. CASE s.change # 0
      <3>1. PaidTo(tx, Addr(n, id, "change"), s.change) BY <2>2 DEF Valid
      <3>2. s.change > 0 BY <2>2, <1>1
      <3>3. QED BY <3>1, <3>2, <1>2, <1>3, <1>5
    <2>3. QED BY <2>1, <2>2
  <1>7. d <= o.value BY <1>4
  <1> HIDE DEF d
  <1>8. QED BY <1>2, <1>3, <1>4, <1>5, <1>6, <1>7 DEF Repaid, c
-----------------------------------------------------------------------------
(* Lemmas about steps. *)

\* What a step may do to the shuffles: it keeps the coin and the answer of
\* those that stay, drops some only of a node without an order, and adds only
\* ones with no coin or with the coin of a node that has an order.
Evolves ==
  /\ \A x \in Nodes : quote'[x] = quote[x] \/ quote'[x] = 0
  /\ \A x \in Nodes : \A i \in DOMAIN shuffles[x] :
       \/ quote'[x] = 0
       \/ /\ i \in DOMAIN shuffles'[x]
          /\ shuffles[x][i].joined => shuffles'[x][i].joined
  /\ \A x \in Nodes : \A i \in DOMAIN shuffles'[x] :
       IF i \in DOMAIN shuffles[x]
       THEN /\ shuffles'[x][i].joined <=> shuffles[x][i].joined
            /\ shuffles'[x][i].u = shuffles[x][i].u
       ELSE LET u == shuffles'[x][i].u
            IN  u \in Coins => quote[x] # 0 /\ Owner[u] = x

\* Such a step keeps what is known of a message that is under way.
LEMMA MessageKept ==
  ASSUME Evolves, NEW id, NEW ins, Offered(id, ins), Withheld(id, ins)
  PROVE  Offered(id, ins)' /\ Withheld(id, ins)'
  <1>1. Offered(id, ins)'
    <2> SUFFICES ASSUME NEW u \in ins
                 PROVE  /\ u \in Coins
                        /\ \/ quote'[Owner[u]] = 0
                           \/ /\ id \in DOMAIN shuffles'[Owner[u]]
                              /\ shuffles'[Owner[u]][id].joined
      BY DEF Offered
    <2>1. u \in Coins /\ Owner[u] \in Nodes BY Kinds DEF Offered
    <2>2. CASE quote[Owner[u]] = 0 BY <2>1, <2>2 DEF Evolves
    <2>3. CASE id \in DOMAIN shuffles[Owner[u]] /\ shuffles[Owner[u]][id].joined
      BY <2>1, <2>3 DEF Evolves
    <2>4. QED BY <2>1, <2>2, <2>3 DEF Offered
  <1>2. Withheld(id, ins)'
    <2> SUFFICES ASSUME NEW x \in Nodes, id \in DOMAIN shuffles'[x],
                        ~shuffles'[x][id].joined, shuffles'[x][id].u \in ins
                 PROVE  FALSE
      BY DEF Withheld
    <2>1. CASE id \in DOMAIN shuffles[x] BY <2>1 DEF Evolves, Withheld
    <2>2. CASE id \notin DOMAIN shuffles[x]
      <3> DEFINE u == shuffles'[x][id].u
      <3>1. u \in Coins BY DEF Offered
      <3>2. quote[x] # 0 /\ Owner[u] = x BY <2>2, <3>1 DEF Evolves
      <3>3. QED BY <2>2, <3>2 DEF Offered
    <2>3. QED BY <2>1, <2>2
  <1>3. QED BY <1>1, <1>2

\* All messages keep it.
LEMMA MessagesKept ==
  ASSUME Evolves, Messages
  PROVE  /\ \A m \in pms : Offered(m.id, m.ins)' /\ Withheld(m.id, m.ins)'
         /\ \A m \in validates :
              Offered(m.id, m.tx.ins)' /\ Withheld(m.id, m.tx.ins)'
  BY MessageKept DEF Messages

\* Setting one shuffle of one node.
Put(n, id, s) == shuffles' = [shuffles EXCEPT ![n] = With(@, id, s)]

\* It sets that one and no other.
LEMMA PutFacts ==
  ASSUME Records, NEW n \in Nodes, NEW id, NEW s, Put(n, id, s)
  PROVE  /\ shuffles' = [x \in Nodes |-> shuffles'[x]]
         /\ DOMAIN shuffles'[n] = DOMAIN shuffles[n] \cup {id}
         /\ shuffles'[n][id] = s
         /\ \A i \in DOMAIN shuffles[n] : i # id => shuffles'[n][i] = shuffles[n][i]
         /\ \A x \in Nodes : x # n => shuffles'[x] = shuffles[x]
  <1>1. DOMAIN shuffles = Nodes BY DEF Records
  <1>2. shuffles'[n] = With(shuffles[n], id, s) BY <1>1 DEF Put
  <1>3. \A x \in Nodes : x # n => shuffles'[x] = shuffles[x] BY <1>1 DEF Put
  <1>4. shuffles' = [x \in Nodes |-> shuffles'[x]] BY <1>1 DEF Put
  <1>5. /\ DOMAIN shuffles'[n] = DOMAIN shuffles[n] \cup {id}
        /\ shuffles'[n][id] = s
        /\ \A i \in DOMAIN shuffles[n] : i # id => shuffles'[n][i] = shuffles[n][i]
    BY <1>2 DEF With
  <1>6. QED BY <1>3, <1>4, <1>5

\* Setting one shuffle keeps the records, if what is set is one.
LEMMA PutRecords ==
  ASSUME Records, NEW n \in Nodes, NEW id, NEW s, Entry(n, s),
         s.done => quote'[n] = 0,
         \A x \in Nodes : quote'[x] = quote[x] \/ quote'[x] = 0,
         Put(n, id, s)
  PROVE  Records'
  <1>0. /\ DOMAIN shuffles'[n] = DOMAIN shuffles[n] \cup {id}
        /\ shuffles'[n][id] = s
        /\ \A i \in DOMAIN shuffles[n] : i # id => shuffles'[n][i] = shuffles[n][i]
        /\ \A x \in Nodes : x # n => shuffles'[x] = shuffles[x]
    BY PutFacts
  <1>1. ASSUME NEW x \in Nodes, NEW i \in DOMAIN shuffles'[x]
        PROVE  Entry(x, shuffles'[x][i]) /\ (shuffles'[x][i].done => quote'[x] = 0)
    <2>1. CASE x = n /\ i = id BY <2>1, <1>0
    <2>2. CASE ~(x = n /\ i = id)
      <3>1. i \in DOMAIN shuffles[x] /\ shuffles'[x][i] = shuffles[x][i]
        BY <2>2, <1>0
      <3>2. QED BY <3>1 DEF Records
    <2>3. QED BY <2>1, <2>2
  <1>2. shuffles' = [x \in Nodes |-> shuffles'[x]] BY PutFacts
  <1>3. QED BY <1>1, <1>2 DEF Records
\* Setting one shuffle is such a step, if it keeps coin and answer or adds it.
LEMMA PutEvolves ==
  ASSUME Records, NEW n \in Nodes, NEW id, NEW s, Put(n, id, s),
         \A x \in Nodes : quote'[x] = quote[x] \/ quote'[x] = 0,
         id \in DOMAIN shuffles[n] => /\ s.joined <=> shuffles[n][id].joined
                                      /\ s.u = shuffles[n][id].u,
         id \notin DOMAIN shuffles[n] => (s.u \in Coins => quote[n] # 0 /\ Owner[s.u] = n)
  PROVE  Evolves
  <1>0. /\ DOMAIN shuffles'[n] = DOMAIN shuffles[n] \cup {id}
        /\ shuffles'[n][id] = s
        /\ \A i \in DOMAIN shuffles[n] : i # id => shuffles'[n][i] = shuffles[n][i]
        /\ \A x \in Nodes : x # n => shuffles'[x] = shuffles[x]
    BY PutFacts
  <1>1. ASSUME NEW x \in Nodes, NEW i \in DOMAIN shuffles[x]
        PROVE  /\ i \in DOMAIN shuffles'[x]
               /\ shuffles[x][i].joined => shuffles'[x][i].joined
    <2>1. CASE x = n /\ i = id BY <2>1, <1>0
    <2>2. CASE ~(x = n /\ i = id) BY <2>2, <1>0
    <2>3. QED BY <2>1, <2>2
  <1>2. ASSUME NEW x \in Nodes, NEW i \in DOMAIN shuffles'[x]
        PROVE  IF i \in DOMAIN shuffles[x]
               THEN /\ shuffles'[x][i].joined <=> shuffles[x][i].joined
                    /\ shuffles'[x][i].u = shuffles[x][i].u
               ELSE shuffles'[x][i].u \in Coins =>
                      quote[x] # 0 /\ Owner[shuffles'[x][i].u] = x
    <2>1. CASE x = n /\ i = id BY <2>1, <1>0
    <2>2. CASE ~(x = n /\ i = id) BY <2>2, <1>0
    <2>3. QED BY <2>1, <2>2
  <1>3. QED BY <1>1, <1>2 DEF Evolves

\* jumblr_send, at the end of both handlers, keeps the records and sends only
\* what pays the owners.
LEMMA SendSafe ==
  ASSUME Holdings, Records, FundsSafe, NEW n \in Nodes,
         NEW id \in DOMAIN shuffles[n], NEW s, Entry(n, s),
         s.joined <=> shuffles[n][id].joined, s.u = shuffles[n][id].u,
         s.done => quote[n] = 0, Send(n, id, s)
  PROVE  quote' \in [Nodes -> Nat] /\ Records' /\ Evolves /\ FundsSafe'
  <1> DEFINE full == s.tx # NoTx /\ Cardinality(DOMAIN s.sigs) >= Len(id.addrs)
             t == [s EXCEPT !.done = @ \/ full]
  <1>1. /\ Put(n, id, t)
        /\ quote' = IF full THEN [quote EXCEPT ![n] = 0] ELSE quote
        /\ chain' = IF (full /\ ~s.done) /\ Accepts(s.tx, s.tsigs)
                    THEN chain \cup {s.tx} ELSE chain
    BY DEF Send, Put
  <1> HIDE DEF full
  <1>2. /\ DOMAIN t = Fields /\ t.u = s.u /\ t.amount = s.amount
        /\ t.change = s.change /\ t.sigs = s.sigs /\ t.tsigs = s.tsigs
        /\ (t.joined <=> s.joined) /\ (t.done <=> (s.done \/ full))
    BY DEF Entry, Fields
  <1> HIDE DEF t
  <1>3. Entry(n, t) BY <1>2 DEF Entry
  <1>4. /\ quote' \in [Nodes -> Nat]
        /\ \A x \in Nodes : quote'[x] = quote[x] \/ quote'[x] = 0
        /\ t.done => quote'[n] = 0
    BY <1>1, <1>2 DEF Holdings
  <1>5. Records' BY <1>1, <1>3, <1>4, PutRecords
  <1>6. Evolves BY <1>1, <1>2, <1>4, PutEvolves
  <1>7. FundsSafe'
    <2>1. ASSUME Accepts(s.tx, s.tsigs), NEW u \in s.tx.ins
          PROVE  Repaid(u, s.tx)
      <3>1. u \in DOMAIN s.tsigs /\ s.tsigs[u] = Sig(Owner[u], s.tx)
        BY <2>1 DEF Accepts
      <3>2. s.tsigs[u].tx = s.tx BY <3>1 DEF Sig
      <3>3. QED BY <3>1, <3>2 DEF Entry, Honest
    <2>2. QED BY <2>1, <1>1 DEF FundsSafe
  <1>8. QED BY <1>4, <1>5, <1>6, <1>7
-----------------------------------------------------------------------------
(* Every step keeps the invariant. *)

\* The wallet's coins are the node's own, and so is the one jumblr_idle takes.
LEMMA BestFitOwned ==
  \A n \in Nodes : \A u \in BestFit(Unspents(n)) : u \in Coins /\ Owner[u] = n
  BY DEF BestFit, Unspents

\* Every node starts with a coin of its own, an order and no shuffle.
LEMMA InitSafe == Init => SafeInv
  <1> HAVE Init
  <1>1. coin \in [Nodes -> Coins] /\ \A n \in Nodes : Owner[coin[n]] = n
    BY BestFitOwned DEF Init
  <1>2. quote \in [Nodes -> Nat] BY <1>1, OrderedNat DEF Init
  <1>3. Holdings BY <1>1, <1>2 DEF Holdings
  <1>4. Records BY DEF Records, Init
  <1>5. Messages /\ FundsSafe BY DEF Messages, FundsSafe, Init
  <1>6. QED BY <1>3, <1>4, <1>5 DEF SafeInv

\* jumblr_idle prepares a coin of the node.
LEMMA PrepareSafe ==
  ASSUME SafeInv, NEW n \in Nodes, Prepare(n)
  PROVE  SafeInv' /\ Evolves
  <1>1. Holdings'
    <2>1. coin' = [coin EXCEPT ![n] = "unready"]
            \/ \E u \in BestFit(Unspents(n)) : coin' = [coin EXCEPT ![n] = u]
      BY DEF Prepare
    <2>2. \E u : /\ coin' = [coin EXCEPT ![n] = u]
                 /\ u = "unready" \/ (u \in Coins /\ Owner[u] = n)
      BY <2>1, BestFitOwned
    <2>3. quote' = quote BY DEF Prepare
    <2>4. QED BY <2>2, <2>3, Kinds DEF Holdings, SafeInv
  <1>2. UNCHANGED <<quote, shuffles, pms, validates, signeds, chain>>
    BY DEF Prepare, network
  <1>3. QED
    BY <1>1, <1>2
    DEF SafeInv, Records, Messages, FundsSafe, Offered, Withheld, Evolves

\* A purge drops a shuffle of a node without an order.
LEMMA PurgeSafe ==
  ASSUME SafeInv, NEW n \in Nodes, NEW id \in DOMAIN shuffles[n], Purge(n, id)
  PROVE  SafeInv' /\ Evolves
  <1>1. quote[n] = 0 BY DEF Purge, SafeInv, Records
  <1>2. UNCHANGED <<coin, quote, pms, validates, signeds, chain>>
    BY DEF Purge, network
  <1>3. /\ shuffles' = [x \in Nodes |-> shuffles'[x]]
        /\ DOMAIN shuffles'[n] = DOMAIN shuffles[n] \ {id}
        /\ \A i \in DOMAIN shuffles'[n] : shuffles'[n][i] = shuffles[n][i]
        /\ \A x \in Nodes : x # n => shuffles'[x] = shuffles[x]
    BY DEF Purge, SafeInv, Records
  <1>4. \A x \in Nodes : \A i \in DOMAIN shuffles'[x] :
          i \in DOMAIN shuffles[x] /\ shuffles'[x][i] = shuffles[x][i]
    BY <1>3
  <1>5. Evolves BY <1>1, <1>2, <1>3, <1>4 DEF Evolves
  <1>6. Messages' BY <1>2, <1>5, MessagesKept DEF SafeInv, Messages
  <1>7. Records' BY <1>2, <1>3, <1>4 DEF SafeInv, Records
  <1>8. Holdings' /\ FundsSafe' BY <1>2 DEF SafeInv, Holdings, FundsSafe
  <1>9. QED BY <1>5, <1>6, <1>7, <1>8 DEF SafeInv

\* A restart drops everything of the node, its order too.
LEMMA CrashSafe ==
  ASSUME SafeInv, NEW n \in Nodes, Crash(n)
  PROVE  SafeInv' /\ Evolves
  <1>1. UNCHANGED <<pms, validates, signeds, chain>> BY DEF Crash, network
  <1>2. Holdings' BY Kinds DEF Crash, SafeInv, Holdings
  <1>3. /\ quote'[n] = 0
        /\ \A x \in Nodes : x # n => quote'[x] = quote[x]
    BY DEF Crash, SafeInv, Holdings
  <1>4. /\ shuffles' = [x \in Nodes |-> shuffles'[x]]
        /\ DOMAIN shuffles'[n] = {}
        /\ \A x \in Nodes : x # n => shuffles'[x] = shuffles[x]
    BY DEF Crash, SafeInv, Records
  <1>5. Evolves BY <1>3, <1>4 DEF Evolves
  <1>6. Messages' BY <1>1, <1>5, MessagesKept DEF SafeInv, Messages
  <1>7. Records' BY <1>3, <1>4 DEF SafeInv, Records
  <1>8. QED BY <1>1, <1>2, <1>5, <1>6, <1>7 DEF SafeInv, FundsSafe
\* jumblr_create without jumblr_next.
LEMMA CreateSafe ==
  ASSUME Holdings, Records, NEW n \in Nodes, NEW id, id \notin DOMAIN shuffles[n],
         UNCHANGED <<coin, quote>>, Put(n, id, Created)
  PROVE  Holdings' /\ Records' /\ Evolves
  <1>1. Entry(n, Created) /\ Created.u \notin Coins /\ ~Created.done
    BY CreatedEntry, Kinds
  <1>2. \A x \in Nodes : quote'[x] = quote[x] \/ quote'[x] = 0 OBVIOUS
  <1>3. Records' BY <1>1, <1>2, PutRecords
  <1>4. Evolves BY <1>1, <1>2, PutEvolves
  <1>5. QED BY <1>3, <1>4 DEF Holdings

\* jumblr_next gives up the coin of the node, and offers it only if it joins.
LEMMA JoinSafe ==
  ASSUME Holdings, Records, NEW n \in Nodes, NEW id, id \notin DOMAIN shuffles[n],
         quote[n] # 0, UNCHANGED quote, Taken(n), Put(n, id, AfterNext(n))
  PROVE  /\ Holdings' /\ Records' /\ Evolves
         /\ \A u : (u = coin[n] /\ Joins(n)) => Offered(id, {u})' /\ Withheld(id, {u})'
  <1> DEFINE s == AfterNext(n)
  <1>1. /\ Entry(n, s) /\ ~s.done /\ (s.joined <=> Joins(n))
        /\ s.u # NoCoin => coin[n] \in Coins /\ s.u = coin[n]
        /\ Joins(n) => coin[n] \in Coins /\ s.u = coin[n]
    BY AfterNextEntry
  <1>2. Put(n, id, s) OBVIOUS
  <1> HIDE DEF s
  <1>3. \A x \in Nodes : quote'[x] = quote[x] \/ quote'[x] = 0 OBVIOUS
  <1>4. Records' BY <1>1, <1>2, <1>3, PutRecords
  <1>5. s.u \in Coins => quote[n] # 0 /\ Owner[s.u] = n
    BY <1>1, Kinds DEF Entry
  <1>6. Evolves BY <1>1, <1>2, <1>3, <1>5, PutEvolves
  <1>7. Holdings' BY Kinds DEF Holdings, Taken
  <1>8. ASSUME NEW u, u = coin[n], Joins(n)
        PROVE  Offered(id, {u})' /\ Withheld(id, {u})'
    <2>1. /\ id \in DOMAIN shuffles'[n] /\ shuffles'[n][id] = s
      BY <1>2, PutFacts
    <2>2. u \in Coins /\ Owner[u] = n BY <1>1, <1>8 DEF Holdings
    <2>3. Offered(id, {u})' BY <2>1, <2>2, <1>1, <1>8 DEF Offered
    <2>4. ASSUME NEW x \in Nodes, id \in DOMAIN shuffles'[x],
                 ~shuffles'[x][id].joined, shuffles'[x][id].u = u
          PROVE  FALSE
      <3>1. x # n BY <2>1, <2>4, <1>1, <1>8
      <3>2. Owner[shuffles'[x][id].u] = x
        BY <2>2, <2>4, <1>4, Kinds DEF Records, Entry
      <3>3. QED BY <3>1, <3>2, <2>2, <2>4
    <2>5. Withheld(id, {u})' BY <2>4 DEF Withheld
    <2>6. QED BY <2>3, <2>5
  <1>9. QED BY <1>4, <1>6, <1>7, <1>8

\* jumblr_start: a coin is offered only in the shuffle that took it.
LEMMA StartSafe ==
  ASSUME SafeInv, NEW n \in Nodes, NEW id \in Ids, Start(n, id)
  PROVE  SafeInv' /\ Evolves
  <1>1. /\ UNCHANGED <<quote, validates, signeds, chain>> /\ quote[n] # 0
        /\ id \notin DOMAIN shuffles[n]
    BY DEF Start
  <1>2. CASE id.addrs[1] = n
    <2>1. Taken(n) /\ Put(n, id, AfterNext(n)) BY <1>2 DEF Start, Put
    <2>2. /\ Holdings' /\ Records' /\ Evolves
          /\ \A u : (u = coin[n] /\ Joins(n)) => Offered(id, {u})' /\ Withheld(id, {u})'
      BY <1>1, <2>1, JoinSafe DEF SafeInv
    <2>3. \A m \in pms' : m \in pms \/ (Joins(n) /\ m.id = id /\ m.ins = {coin[n]})
      BY <1>2 DEF Start, Pm
    <2>4. \A m \in pms' : Offered(m.id, m.ins)' /\ Withheld(m.id, m.ins)'
      <3> SUFFICES ASSUME NEW m \in pms'
                   PROVE  Offered(m.id, m.ins)' /\ Withheld(m.id, m.ins)'
        OBVIOUS
      <3>1. CASE m \in pms BY <3>1, <2>2, MessagesKept DEF SafeInv
      <3>2. CASE Joins(n) /\ m.id = id /\ m.ins = {coin[n]}
        <4>1. PICK u : u = coin[n] OBVIOUS
        <4>2. m.id = id /\ m.ins = {u} BY <3>2, <4>1
        <4>3. Offered(id, {u})' /\ Withheld(id, {u})' BY <2>2, <3>2, <4>1
        <4>4. QED BY <4>2, <4>3
      <3>3. QED BY <3>1, <3>2, <2>3
    <2>5. Messages' BY <2>2, <2>4, <1>1, MessagesKept DEF SafeInv, Messages
    <2>6. QED BY <2>2, <2>5, <1>1 DEF SafeInv, FundsSafe
  <1>3. CASE id.addrs[1] # n
    <2>1. Put(n, id, Created) /\ UNCHANGED <<coin, pms>> BY <1>3 DEF Start, Put
    <2>2. Holdings' /\ Records' /\ Evolves
      BY <1>1, <2>1, CreateSafe DEF SafeInv
    <2>3. Messages' BY <2>1, <2>2, <1>1, MessagesKept DEF SafeInv, Messages
    <2>4. QED BY <2>2, <2>3, <1>1 DEF SafeInv, FundsSafe
  <1>4. QED BY <1>2, <1>3
\* Coins that are offered or withheld apart are so together.
LEMMA Together ==
  ASSUME NEW id, NEW A, NEW B, Offered(id, A)', Withheld(id, A)',
         Offered(id, B)', Withheld(id, B)'
  PROVE  Offered(id, A \cup B)' /\ Withheld(id, A \cup B)'
  BY DEF Offered, Withheld

\* jumblr_incoming passes on the coins it got, and its own if it joins.
LEMMA IncomingSafe ==
  ASSUME SafeInv, NEW n \in Nodes, NEW m \in pms, Incoming(n, m)
  PROVE  SafeInv' /\ Evolves
  <1> DEFINE id == m.id
             new == id \notin DOMAIN shuffles[n]
             joins == new /\ quote[n] # 0 /\ Joins(n)
  <1>1. UNCHANGED <<quote, signeds, chain>> BY DEF Incoming
  <1>2. /\ \A x \in pms' : \/ x \in pms
                           \/ joins /\ x.id = id /\ x.ins = m.ins \cup {coin[n]}
        /\ \A x \in validates' :
             \/ x \in validates
             \/ joins /\ x.id = id /\ x.tx.ins = m.ins \cup {coin[n]}
    BY DEF Incoming, Pm
  <1>a. \A x \in validates' : x \in validates \/ DOMAIN x = {"id", "to", "tx"}
    <2>1. \/ validates' = validates
          \/ \E t : validates' = validates \cup {[id |-> id, to |-> Nodes, tx |-> t]}
      BY DEF Incoming
    <2>2. QED BY <2>1
  <1>3. CASE new /\ quote[n] # 0
    <2>1. Taken(n) /\ Put(n, id, AfterNext(n)) BY <1>3 DEF Incoming, Put
    <2>2. /\ Holdings' /\ Records' /\ Evolves
          /\ \A u : (u = coin[n] /\ Joins(n)) => Offered(id, {u})' /\ Withheld(id, {u})'
      BY <1>1, <1>3, <2>1, JoinSafe DEF SafeInv
    <2>3. Offered(id, m.ins)' /\ Withheld(id, m.ins)'
      BY <2>2, MessagesKept DEF SafeInv
    <2>4. ASSUME NEW ins, ins = m.ins \cup {coin[n]}, joins
          PROVE  Offered(id, ins)' /\ Withheld(id, ins)'
      <3>1. PICK u : u = coin[n] OBVIOUS
      <3>2. ins = m.ins \cup {u} BY <2>4, <3>1
      <3>3. Offered(id, {u})' /\ Withheld(id, {u})' BY <2>2, <2>4, <3>1
      <3>4. QED BY <3>2, <3>3, <2>3, Together
    <2>5. \A x \in pms' : Offered(x.id, x.ins)' /\ Withheld(x.id, x.ins)'
      BY <1>2, <2>2, <2>4, MessagesKept DEF SafeInv
    <2>6. \A x \in validates' : Offered(x.id, x.tx.ins)' /\ Withheld(x.id, x.tx.ins)'
      BY <1>2, <2>2, <2>4, MessagesKept DEF SafeInv
    <2>7. \A x \in validates' : DOMAIN x = {"id", "to", "tx"}
      BY <1>a DEF SafeInv, Messages
    <2>8. Messages' BY <1>1, <2>5, <2>6, <2>7 DEF SafeInv, Messages
    <2>9. QED BY <1>1, <2>2, <2>8 DEF SafeInv, FundsSafe
  <1>4. CASE ~(new /\ quote[n] # 0)
    <2>1. pms' \subseteq pms /\ validates' \subseteq validates /\ coin' = coin
      BY <1>2, <1>4 DEF Incoming
    <2>2. Holdings' /\ Records' /\ Evolves
      <3>1. CASE new
        <4>1. Put(n, id, Created) BY <1>4, <3>1 DEF Incoming, Put
        <4>2. QED BY <1>1, <2>1, <3>1, <4>1, CreateSafe DEF SafeInv
      <3>2. CASE ~new
        <4>1. shuffles' = shuffles BY <3>2 DEF Incoming
        <4>2. QED BY <1>1, <2>1, <4>1 DEF SafeInv, Holdings, Records, Evolves
      <3>3. QED BY <3>1, <3>2
    <2>3. Messages' BY <1>1, <2>1, <2>2, MessagesKept DEF SafeInv, Messages
    <2>4. QED BY <1>1, <2>2, <2>3 DEF SafeInv, FundsSafe
  <1>5. QED BY <1>3, <1>4

\* A broadcast that one node handled is the same for the others.
LEMMA HandledValidate ==
  ASSUME NEW n, NEW m, DOMAIN m = {"id", "to", "tx"},
         NEW x \in Handled(validates, m, n)
  PROVE  x \in validates
           \/ (x.id = m.id /\ x.tx = m.tx /\ DOMAIN x = {"id", "to", "tx"})
  BY DEF Handled

\* Likewise a signature.
LEMMA HandledSigned ==
  ASSUME NEW n, NEW m, DOMAIN m = {"id", "to", "vin", "sig"},
         NEW x \in Handled(signeds, m, n)
  PROVE  x \in signeds \/ (/\ x.vin = m.vin /\ x.sig = m.sig /\ x.id = m.id
                           /\ x.to \subseteq m.to
                           /\ DOMAIN x = {"id", "to", "vin", "sig"})
  BY DEF Handled

\* jumblr_validate signs only for a node that joined, and that is paid.
LEMMA ValidateSafe ==
  ASSUME SafeInv, NEW n \in Nodes, NEW m \in validates, Validate(n, m)
  PROVE  SafeInv' /\ Evolves
  <1> DEFINE id == m.id
             old == shuffles[n][id]
             s == [old EXCEPT !.tx = m.tx, !.tsigs = <<>>]
             sig == Sig(n, m.tx)
             t == Signed(s, sig)
             says == [id |-> id, to |-> Nodes \ {n}, vin |-> s.u, sig |-> sig]
  <1>1. coin' = coin /\ pms' = pms /\ validates' = Handled(validates, m, n)
    BY DEF Validate
  <1>2. DOMAIN m = {"id", "to", "tx"} BY DEF SafeInv, Messages
  <1>3. \A x \in validates' :
          x \in validates
            \/ (x.id = m.id /\ x.tx = m.tx /\ DOMAIN x = {"id", "to", "tx"})
    BY <1>1, <1>2, HandledValidate
  <1>4. ASSUME Evolves
        PROVE  /\ \A x \in pms' : Offered(x.id, x.ins)' /\ Withheld(x.id, x.ins)'
               /\ \A x \in validates' :
                    /\ Offered(x.id, x.tx.ins)' /\ Withheld(x.id, x.tx.ins)'
                    /\ DOMAIN x = {"id", "to", "tx"}
    BY <1>1, <1>3, <1>4, MessagesKept DEF SafeInv, Messages
  <1>5. ASSUME quote' \in [Nodes -> Nat], Records', Evolves, FundsSafe',
               \A x \in signeds' : /\ Repaid(x.vin, x.sig.tx)
                                   /\ DOMAIN x = {"id", "to", "vin", "sig"}
        PROVE  SafeInv' /\ Evolves
    BY <1>1, <1>4, <1>5 DEF SafeInv, Messages, Holdings
  <1>6. CASE id \notin DOMAIN shuffles[n]
    <2>1. UNCHANGED <<quote, shuffles, signeds, chain>> BY <1>6 DEF Validate
    <2>2. Evolves BY <2>1 DEF Evolves
    <2>3. QED
      BY <1>5, <2>1, <2>2 DEF SafeInv, Holdings, Records, Messages, FundsSafe
  <1>7. CASE id \in DOMAIN shuffles[n]
    <2>1. Entry(n, old) /\ (old.done => quote[n] = 0)
      BY <1>7 DEF SafeInv, Records
    <2>2. /\ DOMAIN s = Fields /\ s.u = old.u /\ s.amount = old.amount
          /\ s.change = old.change /\ s.sigs = old.sigs /\ s.tsigs = <<>>
          /\ (s.joined <=> old.joined) /\ (s.done <=> old.done)
      BY <2>1 DEF Entry, Fields
    <2>3. Entry(n, s) BY <2>1, <2>2, HonestEmpty DEF Entry
    <2>4. CASE ~Valid(n, id, s, m.tx)
      <3>1. Put(n, id, s) /\ UNCHANGED <<quote, signeds, chain>>
        BY <1>7, <2>4 DEF Validate, Put
      <3> HIDE DEF s
      <3>2. \A x \in Nodes : quote'[x] = quote[x] \/ quote'[x] = 0 BY <3>1
      <3>3. s.done => quote'[n] = 0 BY <2>1, <2>2, <3>1
      <3>4. Records' BY <2>3, <3>1, <3>2, <3>3, PutRecords DEF SafeInv
      <3>5. Evolves BY <1>7, <2>2, <3>1, <3>2, PutEvolves DEF SafeInv
      <3>6. QED
        BY <1>5, <3>1, <3>4, <3>5 DEF SafeInv, Holdings, Messages, FundsSafe
    <2>5. CASE Valid(n, id, s, m.tx)
      <3>1. Send(n, id, t) /\ signeds' = signeds \cup {says}
        BY <1>7, <2>5 DEF Validate
      <3>2. s.joined
        BY <1>7, <2>2, <2>5 DEF Valid, SafeInv, Messages, Withheld
      <3> HIDE DEF s
      <3>3. Repaid(s.u, m.tx) BY <2>3, <2>5, <3>2, ValidRepaid
      <3>4. sig.tx = m.tx BY DEF Sig
      <3> HIDE DEF sig
      <3>5. /\ DOMAIN t = Fields /\ t.u = s.u /\ t.amount = s.amount
            /\ t.change = s.change /\ t.sigs = With(s.sigs, s.u, sig)
            /\ t.tsigs = With(s.sigs, s.u, sig)
            /\ (t.joined <=> s.joined) /\ (t.done <=> s.done)
        BY <2>2 DEF Signed, Fields
      <3>6. Honest(With(s.sigs, s.u, sig))
        BY <2>3, <3>3, <3>4, HonestWith DEF Entry
      <3> HIDE DEF t
      <3>7. Entry(n, t) BY <2>3, <3>5, <3>6 DEF Entry
      <3>8. quote' \in [Nodes -> Nat] /\ Records' /\ Evolves /\ FundsSafe'
        BY <1>7, <2>1, <2>2, <3>1, <3>5, <3>7, SendSafe DEF SafeInv
      <3>9. \A x \in signeds' : /\ Repaid(x.vin, x.sig.tx)
                                /\ DOMAIN x = {"id", "to", "vin", "sig"}
        BY <3>1, <3>3, <3>4 DEF SafeInv, Messages
      <3>10. QED BY <1>5, <3>8, <3>9
    <2>6. QED BY <2>4, <2>5
  <1>8. QED BY <1>6, <1>7
\* The "signed" handler adds a signature that pays whoever made it.
LEMMA GotSignedSafe ==
  ASSUME SafeInv, NEW n \in Nodes, NEW m \in signeds, GotSigned(n, m)
  PROVE  SafeInv' /\ Evolves
  <1> DEFINE id == m.id
             s == shuffles[n][id]
             tsigs == IF s.tx = NoTx THEN s.tsigs ELSE With(s.tsigs, m.vin, m.sig)
             t == [s EXCEPT !.sigs = With(@, m.vin, m.sig),
                            !.tsigs = IF s.tx = NoTx THEN @
                                      ELSE With(@, m.vin, m.sig)]
  <1>1. UNCHANGED <<coin, pms, validates>> /\ signeds' = Handled(signeds, m, n)
    BY DEF GotSigned
  <1>2. DOMAIN m = {"id", "to", "vin", "sig"} /\ Repaid(m.vin, m.sig.tx)
    BY DEF SafeInv, Messages
  <1>3. \A x \in signeds' : /\ Repaid(x.vin, x.sig.tx)
                            /\ DOMAIN x = {"id", "to", "vin", "sig"}
    <2>1. \A x \in signeds' :
            x \in signeds \/ (/\ x.vin = m.vin /\ x.sig = m.sig
                              /\ DOMAIN x = {"id", "to", "vin", "sig"})
      BY <1>1, <1>2, HandledSigned
    <2>2. QED BY <2>1, <1>2 DEF SafeInv, Messages
  <1>4. ASSUME quote' \in [Nodes -> Nat], Records', Evolves, FundsSafe'
        PROVE  SafeInv' /\ Evolves
    BY <1>1, <1>3, <1>4, MessagesKept DEF SafeInv, Messages, Holdings
  <1>5. CASE id \notin DOMAIN shuffles[n]
    <2>1. UNCHANGED <<quote, shuffles, chain>> BY <1>5 DEF GotSigned
    <2>2. Evolves BY <2>1 DEF Evolves
    <2>3. QED BY <1>4, <2>1, <2>2 DEF SafeInv, Holdings, Records, FundsSafe
  <1>6. CASE id \in DOMAIN shuffles[n]
    <2>1. Entry(n, s) /\ (s.done => quote[n] = 0) BY <1>6 DEF SafeInv, Records
    <2>2. Send(n, id, t) BY <1>6 DEF GotSigned
    <2>3. /\ DOMAIN t = Fields /\ t.u = s.u /\ t.amount = s.amount
          /\ t.change = s.change /\ t.sigs = With(s.sigs, m.vin, m.sig)
          /\ t.tsigs = tsigs /\ (t.joined <=> s.joined) /\ (t.done <=> s.done)
      BY <2>1 DEF Entry, Fields
    <2> HIDE DEF t
    <2>4. Honest(With(s.sigs, m.vin, m.sig)) /\ Honest(tsigs)
      BY <1>2, <2>1, HonestWith DEF Entry
    <2>5. Entry(n, t) BY <2>1, <2>3, <2>4 DEF Entry
    <2>6. quote' \in [Nodes -> Nat] /\ Records' /\ Evolves /\ FundsSafe'
      BY <1>6, <2>1, <2>2, <2>3, <2>5, SendSafe DEF SafeInv
    <2>7. QED BY <1>4, <2>6
  <1>7. QED BY <1>5, <1>6

\* The invariant holds in every state of every execution.
THEOREM JumblrSafe == Spec => []SafeInv
  <1>1. Init => SafeInv BY InitSafe
  <1>2. SafeInv /\ [Next]_vars => SafeInv'
    <2> SUFFICES ASSUME SafeInv, [Next]_vars PROVE SafeInv'
      OBVIOUS
    <2>1. CASE UNCHANGED vars
      BY <2>1 DEF vars, SafeInv, Holdings, Records, Messages, FundsSafe,
                  Offered, Withheld
    <2>2. ASSUME NEW n \in Nodes, Prepare(n) PROVE SafeInv'
      BY <2>2, PrepareSafe
    <2>3. ASSUME NEW n \in Nodes, Crash(n) PROVE SafeInv'
      BY <2>3, CrashSafe
    <2>4. ASSUME NEW n \in Nodes, NEW id \in Ids, Start(n, id) PROVE SafeInv'
      BY <2>4, StartSafe
    <2>5. ASSUME NEW n \in Nodes, NEW id \in DOMAIN shuffles[n], Purge(n, id)
          PROVE  SafeInv'
      BY <2>5, PurgeSafe
    <2>6. ASSUME NEW n \in Nodes, NEW m \in pms, Incoming(n, m) PROVE SafeInv'
      BY <2>6, IncomingSafe
    <2>7. ASSUME NEW n \in Nodes, NEW m \in validates, Validate(n, m) PROVE SafeInv'
      BY <2>7, ValidateSafe
    <2>8. ASSUME NEW n \in Nodes, NEW m \in signeds, GotSigned(n, m) PROVE SafeInv'
      BY <2>8, GotSignedSafe
    <2>9. QED
      BY <2>1, <2>2, <2>3, <2>4, <2>5, <2>6, <2>7, <2>8 DEF Next, Handle
  <1>3. QED BY <1>1, <1>2, PTL DEF Spec

\* Whatever is started, lost or restarted, and however many nodes, coins and
\* shuffles there are: a transaction of a shuffle that the network takes gives
\* every owner the coin back but two txfees and the fee of the amount, because
\* jumblr_validate signs nothing else.
THEOREM FundsAreSafe == Spec => []FundsSafe
  <1>1. SafeInv => FundsSafe BY DEF SafeInv
  <1>2. QED BY <1>1, JumblrSafe, PTL

-----------------------------------------------------------------------------
(* What is sent is signed by all.  A shuffle is one message that goes along  *)
(* its list and becomes one transaction, so that all signatures of it are of *)
(* one transaction, which a node of the list is part of.                     *)

\* The transactions of a shuffle that a struct jumblr_info knows of.
ToldTo(s) == ({s.tx} \ {NoTx}) \cup {s.sigs[u].tx : u \in DOMAIN s.sigs}

\* The ones any message or node knows of.
Told(id) ==
  {m.tx : m \in {v \in validates : v.id = id}}
    \cup {m.sig.tx : m \in {v \in signeds : v.id = id}}
    \cup UNION {ToldTo(shuffles[n][id]) : n \in {x \in Nodes : id \in DOMAIN shuffles[x]}}

\* A node the message has passed put its coin in, and cannot do so again: the
\* shuffle is in its SHUFFLES or it has no order left.
Passed(n, id, ins) ==
  /\ quote[n] = 0 \/ id \in DOMAIN shuffles[n]
  /\ id \in DOMAIN shuffles[n] => shuffles[n][id].u \in ins

\* ins is what the first k - 1 nodes of the list put in, a coin each.
Carried(id, ins, k) ==
  /\ ins \subseteq Coins /\ (k = 1 \/ ins # {})
  /\ \A u, v \in ins : Owner[u] = Owner[v] => u = v
  /\ \A u \in ins : \E i \in 1..(k - 1) : Owner[u] = id.addrs[i]
  /\ \A i \in 1..(k - 1) : Passed(id.addrs[i], id, ins)

\* A message of jumblr_start or jumblr_incoming is on its way to the node that
\* follows those whose coins it holds.
Arrives(m) ==
  \E k \in 2..Len(m.id.addrs) :
    m.to = m.id.addrs[k] /\ Carried(m.id, m.ins, k)

\* A node is in the lists of its shuffles.
Listed ==
  /\ \A n \in Nodes : \A id \in DOMAIN shuffles[n] :
       id \in Ids /\ \E i \in 1..Len(id.addrs) : id.addrs[i] = n
  /\ \A m \in validates \cup signeds : m.id \in Ids

\* One message of a shuffle at a time, and none once there is a transaction.
OneMessage ==
  /\ \A m \in pms : m.id \in Ids /\ Arrives(m) /\ Told(m.id) = {}
  /\ \A m, x \in pms : m.id = x.id => m = x

\* A shuffle has one transaction, of all nodes of its list.
OneTxOf(id) ==
  \A tx \in Told(id) : /\ Carried(id, tx.ins, Len(id.addrs) + 1)
                       /\ \A other \in Told(id) : other = tx

OneTx == \A id \in Ids : OneTxOf(id)

\* A signature of the owner of u for a transaction that spends u.
Signature(u, sig) == u \in sig.tx.ins /\ sig = Sig(Owner[u], sig.tx)

\* Once n has signed, all signatures it has are in the transaction.
Own(n, id, s) ==
  s.u \in DOMAIN s.sigs =>
    s.tx # NoTx /\ s.tsigs = s.sigs /\ Valid(n, id, s, s.tx)

SignedMessages ==
  \A m \in signeds : Signature(m.vin, m.sig) /\ Owner[m.vin] \notin m.to

SignedShuffles ==
  \A n \in Nodes : \A id \in DOMAIN shuffles[n] :
    /\ \A u \in DOMAIN shuffles[n][id].sigs : Signature(u, shuffles[n][id].sigs[u])
    /\ Own(n, id, shuffles[n][id])

\* The inductive invariant, together with SafeInv.
SentInv ==
  /\ Listed /\ OneMessage /\ OneTx
  /\ SignedMessages /\ SignedShuffles /\ SentComplete

-----------------------------------------------------------------------------
(* Lemmas about lists, coins and transactions. *)

\* A list uniq_specialaddrs returns holds three nodes or more, each once.
LEMMA ListFacts ==
  ASSUME NEW id \in Ids
  PROVE  /\ Len(id.addrs) \in Nat /\ Len(id.addrs) >= 3
         /\ DOMAIN id.addrs = 1..Len(id.addrs)
         /\ \A i \in 1..Len(id.addrs) : id.addrs[i] \in Nodes
         /\ \A i, j \in 1..Len(id.addrs) : id.addrs[i] = id.addrs[j] => i = j
  <1>1. id.addrs \in Lists BY DEF Ids
  <1>2. id.addrs \in Seq(Nodes) BY <1>1, JumblrConstants
  <1>3. QED BY <1>1, <1>2, JumblrConstants

\* What messages and nodes know is known.
LEMMA ToldHas ==
  /\ \A m \in validates : m.tx \in Told(m.id)
  /\ \A m \in signeds : m.sig.tx \in Told(m.id)
  /\ \A n \in Nodes : \A id \in DOMAIN shuffles[n] :
       ToldTo(shuffles[n][id]) \subseteq Told(id)
  BY DEF Told

\* Nothing else is known after a step than what the messages and nodes then
\* know.
LEMMA ToldAfter ==
  ASSUME NEW id, NEW S,
         \A m \in validates' : m.id = id => m.tx \in S,
         \A m \in signeds' : m.id = id => m.sig.tx \in S,
         \A n \in Nodes : id \in DOMAIN shuffles'[n] => ToldTo(shuffles'[n][id]) \subseteq S
  PROVE  Told(id)' \subseteq S
  <1>1. Told(id)' = {m.tx : m \in {v \in validates' : v.id = id}}
          \cup {m.sig.tx : m \in {v \in signeds' : v.id = id}}
          \cup UNION {ToldTo(shuffles'[n][id]) :
                        n \in {x \in Nodes : id \in DOMAIN shuffles'[x]}}
    BY DEF Told, ToldTo
  <1>2. QED BY <1>1

\* A step that keeps the shuffles as they are, and joins the one at hand only
\* with a node that has an order, keeps what the nodes of the list put in.
LEMMA CarriedKept ==
  ASSUME Evolves, NEW id \in Ids, NEW ins, NEW k \in 1..(Len(id.addrs) + 1),
         Carried(id, ins, k),
         \A x \in Nodes : id \in DOMAIN shuffles'[x] =>
                            id \in DOMAIN shuffles[x] \/ quote[x] # 0
  PROVE  Carried(id, ins, k)'
  <1>1. ASSUME NEW i \in 1..(k - 1) PROVE Passed(id.addrs[i], id, ins)'
    <2>1. id.addrs[i] \in Nodes BY ListFacts
    <2>2. PICK n \in Nodes : n = id.addrs[i] BY <2>1
    <2>3. Passed(n, id, ins) BY <2>2 DEF Carried
    <2>4. id \in DOMAIN shuffles'[n] =>
            id \in DOMAIN shuffles[n] /\ shuffles'[n][id].u = shuffles[n][id].u
      BY <2>3 DEF Passed, Evolves
    <2>5. quote'[n] = 0 \/ id \in DOMAIN shuffles'[n]
      BY <2>3 DEF Passed, Evolves
    <2>6. Passed(n, id, ins)' BY <2>3, <2>4, <2>5 DEF Passed
    <2>7. QED BY <2>2, <2>6
  <1>2. QED BY <1>1 DEF Carried

\* The node whose turn it is puts its coin in.
LEMMA CarriedOn ==
  ASSUME SafeInv, Evolves, NEW id \in Ids, NEW ins, NEW k \in 1..Len(id.addrs),
         Carried(id, ins, k), NEW n \in Nodes, n = id.addrs[k],
         id \notin DOMAIN shuffles[n], quote[n] # 0, Joins(n),
         Put(n, id, AfterNext(n)), NEW u, u = coin[n]
  PROVE  Carried(id, ins \cup {u}, k + 1)'
  <1>1. /\ \A x \in Nodes : x # n => shuffles'[x] = shuffles[x]
        /\ id \in DOMAIN shuffles'[n] /\ shuffles'[n][id] = AfterNext(n)
    BY PutFacts DEF SafeInv
  <1>2. Carried(id, ins, k)'
    BY <1>1, CarriedKept, ListFacts
  <1>3. coin[n] \in Coins /\ AfterNext(n).u = coin[n] /\ Owner[coin[n]] = n
    BY AfterNextEntry DEF SafeInv, Holdings
  <1>5. \A v \in ins : Owner[v] # n
    BY ListFacts DEF Carried
  <1>6. ASSUME NEW i \in 1..k PROVE Passed(id.addrs[i], id, ins \cup {u})'
    <2>1. CASE i = k BY <2>1, <1>1, <1>3 DEF Passed
    <2>2. CASE i # k
      <3>1. i \in 1..(k - 1) BY <2>2, ListFacts
      <3>2. Passed(id.addrs[i], id, ins)' BY <1>2, <3>1 DEF Carried
      <3>3. QED BY <3>2 DEF Passed
    <2>3. QED BY <2>1, <2>2
  <1>7. \A v \in ins \cup {u} : \E i \in 1..k : Owner[v] = id.addrs[i]
    BY <1>3, ListFacts DEF Carried
  <1>8. /\ ins \cup {u} \subseteq Coins /\ ins \cup {u} # {}
        /\ \A v, w \in ins \cup {u} : Owner[v] = Owner[w] => v = w
    BY <1>3, <1>5 DEF Carried
  <1>9. (k + 1) - 1 = k BY ListFacts
  <1>10. \A i \in 1..((k + 1) - 1) : Passed(id.addrs[i], id, ins \cup {u})'
    BY <1>6, <1>9
  <1>11. QED BY <1>7, <1>8, <1>9, <1>10 DEF Carried

\* n joins the shuffle id in this step only if it has an order.
JoinsInOrder(id) ==
  \A x \in Nodes : id \in DOMAIN shuffles'[x] =>
                     id \in DOMAIN shuffles[x] \/ quote[x] # 0

\* A message that is under way stays what it is.
LEMMA ArrivesKept ==
  ASSUME Evolves, NEW m, m.id \in Ids, Arrives(m), JoinsInOrder(m.id)
  PROVE  Arrives(m)'
  <1>1. PICK k \in 2..Len(m.id.addrs) : m.to = m.id.addrs[k] /\ Carried(m.id, m.ins, k)
    BY DEF Arrives
  <1>2. k \in 1..(Len(m.id.addrs) + 1) BY ListFacts
  <1>3. Carried(m.id, m.ins, k)' BY <1>1, <1>2, CarriedKept DEF JoinsInOrder
  <1>4. QED BY <1>1, <1>3 DEF Arrives

\* So does a transaction.
LEMMA TxKept ==
  ASSUME Evolves, NEW id \in Ids, OneTxOf(id), Told(id)' \subseteq Told(id),
         Told(id)' # {} => JoinsInOrder(id)
  PROVE  OneTxOf(id)'
  <1>1. ASSUME NEW tx \in Told(id)'
        PROVE  /\ Carried(id, tx.ins, Len(id.addrs) + 1)'
               /\ \A other \in Told(id)' : other = tx
    <2>1. tx \in Told(id) /\ JoinsInOrder(id) BY <1>1
    <2>2. Carried(id, tx.ins, Len(id.addrs) + 1) /\ \A other \in Told(id) : other = tx
      BY <2>1 DEF OneTxOf
    <2>3. Len(id.addrs) + 1 \in 1..(Len(id.addrs) + 1) BY ListFacts
    <2>4. Carried(id, tx.ins, Len(id.addrs) + 1)'
      BY <2>1, <2>2, <2>3, CarriedKept DEF JoinsInOrder
    <2>5. QED BY <2>2, <2>4
  <1>2. QED BY <1>1 DEF OneTxOf

\* A shuffle that is taken over as it is, or that has no signatures yet,
\* keeps the signatures in order.
LEMMA SignsKept ==
  ASSUME SignedShuffles, SentComplete, sent' = sent,
         \A x \in Nodes : \A i \in DOMAIN shuffles'[x] :
           \/ i \in DOMAIN shuffles[x] /\ shuffles'[x][i] = shuffles[x][i]
           \/ shuffles'[x][i].sigs = <<>>
  PROVE  SignedShuffles' /\ SentComplete'
  <1>1. SentComplete' BY DEF SentComplete
  <1>2. ASSUME NEW x \in Nodes, NEW i \in DOMAIN shuffles'[x]
        PROVE  /\ \A u \in DOMAIN shuffles'[x][i].sigs :
                    Signature(u, shuffles'[x][i].sigs[u])
               /\ Own(x, i, shuffles'[x][i])
    <2>1. CASE i \in DOMAIN shuffles[x] /\ shuffles'[x][i] = shuffles[x][i]
      BY <2>1 DEF SignedShuffles
    <2>2. CASE shuffles'[x][i].sigs = <<>> BY <2>2 DEF Own
    <2>3. QED BY <2>1, <2>2
  <1>3. QED BY <1>1, <1>2 DEF SignedShuffles

\* Steps that add no message to a node and no shuffle.
LEMMA AnsweredSent ==
  ASSUME SentInv, Evolves, pms' \subseteq pms,
         \A x \in Nodes : \A i \in DOMAIN shuffles'[x] :
           i \in DOMAIN shuffles[x] /\ ToldTo(shuffles'[x][i]) \subseteq Told(i),
         \A m \in validates' : m.id \in Ids /\ m.tx \in Told(m.id),
         \A m \in signeds' : m.id \in Ids /\ m.sig.tx \in Told(m.id),
         SignedMessages', SignedShuffles', SentComplete'
  PROVE  SentInv'
  <1>1. Listed' BY DEF SentInv, Listed
  <1>2. \A id : JoinsInOrder(id) BY DEF JoinsInOrder
  <1>3. \A id : Told(id)' \subseteq Told(id) BY ToldAfter
  <1>4. OneTx' BY <1>2, <1>3, TxKept DEF SentInv, OneTx
  <1>5. ASSUME NEW m \in pms' PROVE m.id \in Ids /\ Arrives(m)' /\ Told(m.id)' = {}
    <2>1. m \in pms /\ m.id \in Ids /\ Arrives(m) /\ Told(m.id) = {}
      BY <1>5 DEF SentInv, OneMessage
    <2>2. QED BY <2>1, <1>2, <1>3, ArrivesKept
  <1>6. OneMessage' BY <1>5 DEF SentInv, OneMessage
  <1>7. QED BY <1>1, <1>4, <1>6 DEF SentInv

\* Steps that send nothing and add no shuffle: jumblr_idle and a restart.
LEMMA QuietSent ==
  ASSUME SentInv, Evolves, UNCHANGED <<validates, signeds, sent>>, pms' \subseteq pms,
         \A x \in Nodes : \A i \in DOMAIN shuffles'[x] :
           i \in DOMAIN shuffles[x] /\ shuffles'[x][i] = shuffles[x][i]
  PROVE  SentInv'
  <1>1. SignedMessages' BY DEF SentInv, SignedMessages
  <1>2. SignedShuffles' /\ SentComplete' BY SignsKept DEF SentInv
  <1>3. \A x \in Nodes : \A i \in DOMAIN shuffles'[x] :
          i \in DOMAIN shuffles[x] /\ ToldTo(shuffles'[x][i]) \subseteq Told(i)
    BY ToldHas
  <1>4. /\ \A m \in validates' : m.id \in Ids /\ m.tx \in Told(m.id)
        /\ \A m \in signeds' : m.id \in Ids /\ m.sig.tx \in Told(m.id)
    BY ToldHas DEF SentInv, Listed
  <1>5. QED BY <1>1, <1>2, <1>3, <1>4, AnsweredSent

\* A shuffle jumblr_create made, with or without jumblr_next, has neither
\* transaction nor signatures.
LEMMA AddedSent ==
  ASSUME SafeInv, SentInv, NEW n \in Nodes, NEW id \in Ids, id \notin DOMAIN shuffles[n],
         \E i \in 1..Len(id.addrs) : id.addrs[i] = n,
         NEW s, s.tx = NoTx, s.sigs = <<>>, Put(n, id, s), signeds' = signeds, sent' = sent,
         \A m \in validates' : m.id \in Ids
  PROVE  /\ Listed' /\ SignedMessages' /\ SignedShuffles' /\ SentComplete'
         /\ \A i \in Ids : i # id \/ quote[n] # 0 => JoinsInOrder(i)
         /\ \A i \in Ids : \A S :
              (Told(i) \subseteq S /\ \A m \in validates' : m.id = i => m.tx \in S)
                => Told(i)' \subseteq S
  <1>1. /\ DOMAIN shuffles'[n] = DOMAIN shuffles[n] \cup {id}
        /\ shuffles'[n][id] = s
        /\ \A i \in DOMAIN shuffles[n] : i # id => shuffles'[n][i] = shuffles[n][i]
        /\ \A x \in Nodes : x # n => shuffles'[x] = shuffles[x]
    BY PutFacts DEF SafeInv
  <1>2. \A x \in Nodes : \A i \in DOMAIN shuffles'[x] :
          \/ i \in DOMAIN shuffles[x] /\ shuffles'[x][i] = shuffles[x][i]
          \/ x = n /\ i = id /\ shuffles'[x][i] = s
    BY <1>1
  <1>3. Listed' BY <1>2 DEF SentInv, Listed
  <1>4. SignedMessages' BY DEF SentInv, SignedMessages
  <1>5. SignedShuffles' /\ SentComplete' BY <1>2, SignsKept DEF SentInv
  <1>6. \A i \in Ids : i # id \/ quote[n] # 0 => JoinsInOrder(i)
    BY <1>2 DEF JoinsInOrder
  <1>7. ASSUME NEW i \in Ids, NEW S, Told(i) \subseteq S,
               \A m \in validates' : m.id = i => m.tx \in S
        PROVE  Told(i)' \subseteq S
    <2>1. ToldTo(s) = {} BY DEF ToldTo
    <2>2. /\ \A m \in signeds' : m.id = i => m.sig.tx \in S
          /\ \A x \in Nodes : i \in DOMAIN shuffles'[x] =>
               ToldTo(shuffles'[x][i]) \subseteq S
      BY <1>2, <1>7, <2>1, ToldHas
    <2>3. QED BY <1>7, <2>2, ToldAfter
  <1>8. QED BY <1>3, <1>4, <1>5, <1>6, <1>7

\* What jumblr_create and jumblr_next leave has neither.
LEMMA NothingSigned ==
  ASSUME NEW n
  PROVE  /\ Created.tx = NoTx /\ Created.sigs = <<>>
         /\ AfterNext(n).tx = NoTx /\ AfterNext(n).sigs = <<>>
  BY DEF AfterNext, Created

\* jumblr_start: the first node of a list starts its shuffle only once.
LEMMA StartSent ==
  ASSUME SafeInv, SentInv, Evolves, NEW n \in Nodes, NEW id \in Ids, Start(n, id)
  PROVE  SentInv'
  <1>1. /\ UNCHANGED <<quote, validates, signeds, sent>> /\ quote[n] # 0
        /\ id \notin DOMAIN shuffles[n] /\ \E i \in DOMAIN id.addrs : id.addrs[i] = n
    BY DEF Start
  <1>2. \E i \in 1..Len(id.addrs) : id.addrs[i] = n BY <1>1, ListFacts
  <1>3. \E s : s.tx = NoTx /\ s.sigs = <<>> /\ Put(n, id, s)
    BY NothingSigned DEF Start, Put
  <1>4. \A m \in validates' : m.id \in Ids BY <1>1 DEF SentInv, Listed
  <1>5. /\ Listed' /\ SignedMessages' /\ SignedShuffles' /\ SentComplete'
        /\ \A i \in Ids : JoinsInOrder(i)
        /\ \A i \in Ids : \A S :
             (Told(i) \subseteq S /\ \A m \in validates' : m.id = i => m.tx \in S)
               => Told(i)' \subseteq S
    BY <1>1, <1>2, <1>3, <1>4, AddedSent
  <1>6. \A i \in Ids : Told(i)' \subseteq Told(i)
    BY <1>1, <1>5, ToldHas
  <1>7. OneTx' BY <1>5, <1>6, TxKept DEF SentInv, OneTx
  <1>8. ASSUME NEW m \in pms PROVE m.id \in Ids /\ Arrives(m)' /\ Told(m.id)' = {}
    <2>1. m.id \in Ids /\ Arrives(m) /\ Told(m.id) = {}
      BY <1>8 DEF SentInv, OneMessage
    <2>2. QED BY <2>1, <1>5, <1>6, ArrivesKept
  <1>9. CASE pms' = pms
    <2>1. OneMessage' BY <1>8, <1>9 DEF SentInv, OneMessage
    <2>2. QED BY <1>5, <1>7, <2>1 DEF SentInv
  <1>10. CASE pms' # pms
    <2>0. PICK u, M : u = coin[n] /\ M = Pm(id.addrs[2], id, {u}, Outputs(n, id, AfterNext(n)))
      OBVIOUS
    <2>1. /\ id.addrs[1] = n /\ Joins(n) /\ pms' = pms \cup {M}
          /\ Put(n, id, AfterNext(n))
      <3>1. id.addrs[1] = n BY <1>10 DEF Start
      <3>2. Put(n, id, AfterNext(n)) BY <3>1 DEF Start, Put
      <3>3. pms' = IF Joins(n) THEN pms \cup {M} ELSE pms BY <2>0, <3>1 DEF Start
      <3>4. QED BY ONLY <1>10, <3>1, <3>2, <3>3
    <2>2. M.id = id /\ M.to = id.addrs[2] /\ M.ins = {u} BY <2>0 DEF Pm
    <2>3. Carried(id, {}, 1)
      <3>1. \A i : i \notin 1..(1 - 1) OBVIOUS
      <3>2. QED BY ONLY <3>1 DEF Carried
    <2>4. Carried(id, {} \cup {u}, 1 + 1)'
      <3>1. 1 \in 1..Len(id.addrs) BY ListFacts
      <3>2. QED
        BY ONLY <1>1, <2>0, <2>1, <2>3, <3>1, CarriedOn, SafeInv, Evolves, id \in Ids, n \in Nodes
    <2>5. {} \cup {u} = M.ins /\ 1 + 1 = 2 BY <2>2
    <2>6. Carried(id, M.ins, 2)' BY <2>4, <2>5
    <2>7. Arrives(M)' BY <2>2, <2>6, ListFacts DEF Arrives
    <2>8. ASSUME NEW ins, NEW k \in 2..(Len(id.addrs) + 1), Carried(id, ins, k)
          PROVE  FALSE
      <3>1. 1 \in 1..(k - 1) BY <2>8, ListFacts
      <3>2. Passed(n, id, ins) BY <2>1, <2>8, <3>1 DEF Carried
      <3>3. QED BY <1>1, <3>2 DEF Passed
    <2>9. \A m \in pms : m.id # id
      BY <2>8, ListFacts DEF SentInv, OneMessage, Arrives
    <2>10. Told(id) = {}
      BY <2>8, ListFacts DEF SentInv, OneTx, OneTxOf
    <2>11. Told(id)' = {} BY <1>6, <2>10
    <2>12. OneMessage'
      <3>1. \A m \in pms' : m.id \in Ids /\ Arrives(m)' /\ Told(m.id)' = {}
        BY <1>8, <2>1, <2>2, <2>7, <2>11
      <3>2. \A m, x \in pms' : m.id = x.id => m = x
        BY <2>1, <2>2, <2>9 DEF SentInv, OneMessage
      <3>3. QED BY <3>1, <3>2 DEF OneMessage
    <2>13. QED BY <1>5, <1>7, <2>12 DEF SentInv
  <1>11. QED BY <1>9, <1>10

=============================================================================
