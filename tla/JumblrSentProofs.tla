-------------------------- MODULE JumblrSentProofs ---------------------------
(***************************************************************************)
(* The transaction that a node sends is the one that every node of the     *)
(* shuffle checked and signed (Jumblr), for any number of nodes, coins and *)
(* lists: the second half of the argument that JumblrProofs begins, with   *)
(* the steps that make the transaction, sign it and collect signatures.    *)
(***************************************************************************)
EXTENDS JumblrProofs, FiniteSetTheorems

\* As many signatures as the list has nodes are all signatures: the bitweight
\* of jumblr_send.
LEMMA AllSigned ==
  ASSUME NEW id \in Ids, NEW ins, Carried(id, ins, Len(id.addrs) + 1),
         NEW D \in SUBSET ins, Cardinality(D) >= Len(id.addrs)
  PROVE  D = ins
  <1> DEFINE n == Len(id.addrs)
             f == [u \in ins |-> CHOOSE i \in 1..n : Owner[u] = id.addrs[i]]
             T == 1..n
  <1>1. n \in Nat /\ n >= 3 /\ (n + 1) - 1 = n BY ListFacts
  <1>2. \A u \in ins : f[u] \in 1..n /\ Owner[u] = id.addrs[f[u]]
    <2>1. \A u \in ins : \E i \in 1..n : Owner[u] = id.addrs[i]
      BY <1>1 DEF Carried
    <2> HIDE DEF n
    <2>2. QED BY <2>1
  <1>3. \A u, v \in ins : f[u] = f[v] => u = v
    <2>1. \A u, v \in ins : Owner[u] = Owner[v] => u = v BY DEF Carried
    <2> HIDE DEF f
    <2>2. QED BY <1>2, <2>1
  <1>4. IsFiniteSet(T) /\ Cardinality(T) = n
    <2> HIDE DEF n
    <2>1. 1 \in Int /\ n \in Int /\ ~(1 > n) /\ n - 1 + 1 = n BY <1>1
    <2>2. QED BY ONLY <2>1, FS_Interval DEF T
  <1>5. f \in [ins -> T] BY <1>2
  <1> HIDE DEF f, T, n
  <1>6. f \in Injection(ins, T)
    BY <1>3, <1>5 DEF Injection, IsInjective
  <1>7. IsFiniteSet(ins) /\ Cardinality(ins) <= Cardinality(T)
    BY ONLY <1>4, <1>6, FS_Injection
  <1>8. /\ IsFiniteSet(D) /\ Cardinality(D) <= Cardinality(ins)
        /\ Cardinality(ins) = Cardinality(D) => ins = D
    BY ONLY <1>7, D \in SUBSET ins, FS_Subset
  <1>9. Cardinality(ins) \in Nat /\ Cardinality(D) \in Nat
    BY <1>7, <1>8, FS_CardinalityType
  <1>10. Cardinality(D) >= n BY DEF n
  <1>11. QED BY <1>1, <1>4, <1>7, <1>8, <1>9, <1>10

\* jumblr_incoming: the message is passed on once, or becomes the transaction.
LEMMA IncomingSent ==
  ASSUME SafeInv, SentInv, Evolves, NEW n \in Nodes, NEW m \in pms, Incoming(n, m)
  PROVE  SentInv'
  <1> DEFINE id == m.id
             last == id.addrs[Len(id.addrs)] = n
             next == id.addrs[1 + CHOOSE i \in DOMAIN id.addrs : id.addrs[i] = n]
             new == id \notin DOMAIN shuffles[n]
             joins == new /\ quote[n] # 0 /\ Joins(n)
             makes(ins, outs) == joins /\ last /\ CanMakeTx(ins, outs)
  <1>0. PICK u, ins, outs : /\ u = coin[n] /\ ins = m.ins \cup {u}
                            /\ outs = m.outs \cup Outputs(n, id, AfterNext(n))
    OBVIOUS
  <1>a. PICK tx : tx = [ins |-> ins, outs |-> CoinTxOuts(n, id, ins, outs)]
    OBVIOUS
  <1> DEFINE V == [id |-> id, to |-> Nodes, tx |-> tx]
             M == Pm(next, id, ins, outs)
  <1>1. UNCHANGED <<quote, signeds, sent>> /\ m.to = n BY DEF Incoming
  <1>2. /\ pms' = (pms \ {m}) \cup (IF joins /\ ~last THEN {M} ELSE {})
        /\ validates' = IF makes(ins, outs) THEN validates \cup {V} ELSE validates
    BY <1>0, <1>a DEF Incoming
  <1>3. CASE ~new
    <2>1. pms' \subseteq pms /\ validates' = validates /\ shuffles' = shuffles
      BY <1>2, <1>3 DEF Incoming
    <2>2. QED BY <1>1, <2>1, QuietSent
  <1>4. CASE new
    <2>1. id \in Ids /\ Arrives(m) /\ Told(id) = {} BY DEF SentInv, OneMessage
    <2>2. PICK k \in 2..Len(id.addrs) : n = id.addrs[k] /\ Carried(id, m.ins, k)
      BY <1>1, <2>1 DEF Arrives
    <2>3. /\ k \in 1..Len(id.addrs)
          /\ \A i \in 1..Len(id.addrs) : id.addrs[i] = n => i = k
          /\ Len(id.addrs) \in Nat /\ DOMAIN id.addrs = 1..Len(id.addrs)
      <3>1. /\ Len(id.addrs) \in Nat /\ DOMAIN id.addrs = 1..Len(id.addrs)
            /\ \A i, j \in 1..Len(id.addrs) : id.addrs[i] = id.addrs[j] => i = j
        BY <2>1, ListFacts
      <3>2. k \in 1..Len(id.addrs) BY <3>1
      <3>3. QED BY ONLY <2>2, <3>1, <3>2
    <2>4. (CHOOSE i \in DOMAIN id.addrs : id.addrs[i] = n) = k BY <2>2, <2>3
    <2>5. next = id.addrs[1 + k] /\ (last <=> k = Len(id.addrs))
      <3>1. Len(id.addrs) \in 1..Len(id.addrs) BY <2>3
      <3>2. last <=> k = Len(id.addrs) BY <2>2, <2>3, <3>1
      <3>3. QED BY <2>4, <3>2
    <2>6. M.id = id /\ M.to = next /\ M.ins = ins BY DEF Pm
    <2>7. V.id = id /\ V.tx = tx /\ tx.ins = ins BY <1>a
    <2>8. PICK s : /\ s.tx = NoTx /\ s.sigs = <<>> /\ Put(n, id, s)
                   /\ joins => s = AfterNext(n)
      <3>1. CASE quote[n] # 0
        <4>1. Put(n, id, AfterNext(n)) BY <1>4, <3>1 DEF Incoming, Put
        <4>2. QED BY <4>1, NothingSigned
      <3>2. CASE quote[n] = 0
        <4>1. Put(n, id, Created) BY <1>4, <3>2 DEF Incoming, Put
        <4>2. QED BY <3>2, <4>1, NothingSigned
      <3>3. QED BY <3>1, <3>2
    <2> HIDE DEF M, V, next, last
    <2>9. \A x \in validates' : x.id \in Ids
      BY <1>2, <2>1, <2>7 DEF SentInv, Listed
    <2>10. /\ Listed' /\ SignedMessages' /\ SignedShuffles' /\ SentComplete'
           /\ \A i \in Ids : i # id \/ quote[n] # 0 => JoinsInOrder(i)
           /\ \A i \in Ids : \A S :
                (Told(i) \subseteq S /\ \A x \in validates' : x.id = i => x.tx \in S)
                  => Told(i)' \subseteq S
      BY <1>1, <1>4, <2>1, <2>2, <2>3, <2>8, <2>9, AddedSent
    <2>11. \A i \in Ids : i # id => Told(i)' \subseteq Told(i)
      BY <1>2, <2>7, <2>10, ToldHas
    <2>12. ~makes(ins, outs) => Told(id)' = {}
      BY <1>2, <2>1, <2>10, ToldHas
    <2>13. makes(ins, outs) => Told(id)' \subseteq {tx}
      <3>1. \A x \in validates : x.id # id BY <2>1, ToldHas
      <3>2. Told(id) \subseteq {tx} BY <2>1
      <3>3. makes(ins, outs) => \A x \in validates' : x.id = id => x.tx \in {tx}
        BY <1>2, <2>7, <3>1
      <3>4. QED BY <2>1, <2>10, <3>2, <3>3
    <2>14. joins => Carried(id, ins, k + 1)'
      BY <1>0, <2>1, <2>2, <2>3, <2>8, CarriedOn
    <2>15. OneTxOf(id)'
      <3>1. CASE makes(ins, outs)
        <4>1. k = Len(id.addrs) BY <3>1, <2>5
        <4>2. Carried(id, tx.ins, Len(id.addrs) + 1)' BY <3>1, <4>1, <2>7, <2>14
        <4>3. \A t \in Told(id)' : t = tx BY <3>1, <2>13
        <4>4. QED BY <4>2, <4>3 DEF OneTxOf
      <3>2. CASE ~makes(ins, outs) BY <3>2, <2>12 DEF OneTxOf
      <3>3. QED BY <3>1, <3>2
    <2>16. \A i \in Ids : i # id => OneTxOf(i)'
      BY <2>10, <2>11, TxKept DEF SentInv, OneTx
    <2>17. OneTx' BY <2>15, <2>16 DEF OneTx
    <2>18. \A x \in pms : x # m => x.id # id BY DEF SentInv, OneMessage
    <2>19. ASSUME NEW x \in pms, x # m
           PROVE  x.id \in Ids /\ Arrives(x)' /\ Told(x.id)' = {}
      <3>1. x.id \in Ids /\ Arrives(x) /\ Told(x.id) = {} /\ x.id # id
        BY <2>18, <2>19 DEF SentInv, OneMessage
      <3>2. QED BY <3>1, <2>10, <2>11, ArrivesKept
    <2>20. ASSUME joins, ~last PROVE Arrives(M)' /\ Told(id)' = {}
      <3>1. k + 1 \in 2..Len(id.addrs) /\ M.to = id.addrs[k + 1]
        BY <2>20, <2>2, <2>3, <2>5, <2>6
      <3>2. Carried(M.id, M.ins, k + 1)' BY <2>20, <2>6, <2>14
      <3>3. Arrives(M)' BY <2>6, <3>1, <3>2 DEF Arrives
      <3>4. QED BY <2>20, <2>12, <3>3
    <2>21. OneMessage'
      <3>1. \A x \in pms' : x.id \in Ids /\ Arrives(x)' /\ Told(x.id)' = {}
        BY <1>2, <2>1, <2>6, <2>19, <2>20
      <3>2. \A x, y \in pms' : x.id = y.id => x = y
        BY <1>2, <2>6, <2>18 DEF SentInv, OneMessage
      <3>3. QED BY <3>1, <3>2 DEF OneMessage
    <2>22. QED BY <2>10, <2>17, <2>21 DEF SentInv
  <1>5. QED BY <1>3, <1>4

\* A shuffle of a node is replaced by one whose signatures are in order.
LEMMA PutSigns ==
  ASSUME SafeInv, SignedShuffles, NEW n \in Nodes, NEW id \in DOMAIN shuffles[n], NEW s,
         \A u \in DOMAIN s.sigs : Signature(u, s.sigs[u]), Own(n, id, s), Put(n, id, s)
  PROVE  /\ SignedShuffles'
         /\ \A x \in Nodes : \A i \in DOMAIN shuffles'[x] :
              /\ i \in DOMAIN shuffles[x]
              /\ \/ i = id /\ shuffles'[x][i] = s
                 \/ shuffles'[x][i] = shuffles[x][i]
  <1>1. /\ DOMAIN shuffles'[n] = DOMAIN shuffles[n] \cup {id}
        /\ shuffles'[n][id] = s
        /\ \A i \in DOMAIN shuffles[n] : i # id => shuffles'[n][i] = shuffles[n][i]
        /\ \A x \in Nodes : x # n => shuffles'[x] = shuffles[x]
    BY PutFacts DEF SafeInv
  <1>2. \A x \in Nodes : \A i \in DOMAIN shuffles'[x] :
          /\ i \in DOMAIN shuffles[x]
          /\ \/ x = n /\ i = id /\ shuffles'[x][i] = s
             \/ shuffles'[x][i] = shuffles[x][i]
    BY <1>1
  <1>3. SignedShuffles' BY <1>2 DEF SignedShuffles
  <1>4. QED BY <1>2, <1>3

\* jumblr_send sends only with all signatures: the node's own is among them,
\* and with that all it has are in the transaction.
LEMMA SendSent ==
  ASSUME SafeInv, SignedShuffles, SentComplete, NEW n \in Nodes,
         NEW id \in DOMAIN shuffles[n], id \in Ids, NEW s, DOMAIN s = Fields,
         \A u \in DOMAIN s.sigs : Signature(u, s.sigs[u]), Own(n, id, s),
         s.tx # NoTx => /\ Carried(id, s.tx.ins, Len(id.addrs) + 1)
                        /\ s.u \in s.tx.ins
                        /\ \A u \in DOMAIN s.sigs : s.sigs[u].tx = s.tx,
         Send(n, id, s)
  PROVE  /\ SignedShuffles' /\ SentComplete'
         /\ \A x \in Nodes : \A i \in DOMAIN shuffles'[x] :
              /\ i \in DOMAIN shuffles[x]
              /\ \/ i = id /\ ToldTo(shuffles'[x][i]) \subseteq ToldTo(s)
                 \/ shuffles'[x][i] = shuffles[x][i]
  <1> DEFINE full == s.tx # NoTx /\ Cardinality(DOMAIN s.sigs) >= Len(id.addrs)
             t == [s EXCEPT !.done = @ \/ full]
  <1>1. Put(n, id, t) BY DEF Send, Put
  <1>a. sent' = IF full /\ ~s.done
                THEN sent \cup {[tx |-> s.tx, sigs |-> s.tsigs]} ELSE sent
    BY DEF Send
  <1>2. ASSUME full PROVE /\ DOMAIN s.tsigs = s.tx.ins
                          /\ \A u \in s.tx.ins : s.tsigs[u] = Sig(Owner[u], s.tx)
    <2>1. DOMAIN s.sigs \in SUBSET s.tx.ins BY <1>2 DEF Signature
    <2>2. DOMAIN s.sigs = s.tx.ins
      BY <1>2, <2>1, AllSigned
    <2>3. s.tsigs = s.sigs BY <1>2, <2>2 DEF Own
    <2>4. QED BY <1>2, <2>2, <2>3 DEF Signature
  <1> HIDE DEF full
  <1>3. /\ t.u = s.u /\ t.amount = s.amount /\ t.change = s.change
        /\ t.tx = s.tx /\ t.sigs = s.sigs /\ t.tsigs = s.tsigs
    BY DEF Fields
  <1> HIDE DEF t
  <1>4. ToldTo(t) = ToldTo(s) BY <1>3 DEF ToldTo
  <1>5. Own(n, id, t) BY <1>3 DEF Own, Valid
  <1>6. \A u \in DOMAIN t.sigs : Signature(u, t.sigs[u]) BY <1>3
  <1>7. /\ SignedShuffles'
        /\ \A x \in Nodes : \A i \in DOMAIN shuffles'[x] :
             /\ i \in DOMAIN shuffles[x]
             /\ \/ i = id /\ shuffles'[x][i] = t
                \/ shuffles'[x][i] = shuffles[x][i]
    BY ONLY <1>1, <1>5, <1>6, PutSigns, SafeInv, SignedShuffles, n \in Nodes,
            id \in DOMAIN shuffles[n]
  <1>8. SentComplete'
    <2>1. CASE full
      <3>1. /\ DOMAIN s.tsigs = s.tx.ins
            /\ \A u \in s.tx.ins : s.tsigs[u] = Sig(Owner[u], s.tx)
        BY <1>2, <2>1
      <3>2. sent' \subseteq sent \cup {[tx |-> s.tx, sigs |-> s.tsigs]} BY ONLY <1>a
      <3>3. QED BY ONLY <3>1, <3>2, SentComplete DEF SentComplete
    <2>2. CASE ~full
      BY ONLY <1>a, <2>2, SentComplete DEF SentComplete
    <2>3. QED BY <2>1, <2>2
  <1>9. QED BY <1>4, <1>7, <1>8

\* What the one transaction of a shuffle is to a node that has the shuffle.
LEMMA TxFacts ==
  ASSUME SafeInv, SentInv, NEW n \in Nodes, NEW id \in DOMAIN shuffles[n],
         NEW tx \in Told(id)
  PROVE  /\ id \in Ids /\ tx # NoTx /\ tx.ins \subseteq Coins
         /\ Carried(id, tx.ins, Len(id.addrs) + 1)
         /\ shuffles[n][id].u \in tx.ins /\ shuffles[n][id].u \in Coins
         /\ Owner[shuffles[n][id].u] = n
         /\ shuffles[n][id].tx # NoTx => shuffles[n][id].tx = tx
         /\ \A u \in DOMAIN shuffles[n][id].sigs : shuffles[n][id].sigs[u].tx = tx
  <1>1. id \in Ids /\ \E i \in 1..Len(id.addrs) : id.addrs[i] = n
    BY DEF SentInv, Listed
  <1>2. Carried(id, tx.ins, Len(id.addrs) + 1) /\ \A other \in Told(id) : other = tx
    BY <1>1 DEF SentInv, OneTx, OneTxOf
  <1>3. Len(id.addrs) + 1 # 1 /\ (Len(id.addrs) + 1) - 1 = Len(id.addrs)
    BY <1>1, ListFacts
  <1>4. tx.ins # {} /\ tx.ins \subseteq Coins BY <1>2, <1>3 DEF Carried
  <1>5. NoTx.ins = {} BY DEF NoTx
  <1>6. shuffles[n][id].u \in tx.ins
    <2>1. Passed(n, id, tx.ins) BY <1>1, <1>2, <1>3 DEF Carried
    <2>2. QED BY <2>1 DEF Passed
  <1>7. Entry(n, shuffles[n][id]) BY DEF SafeInv, Records
  <1>8. shuffles[n][id].u \in Coins /\ Owner[shuffles[n][id].u] = n
    BY <1>4, <1>6, <1>7, Kinds DEF Entry
  <1>9. ToldTo(shuffles[n][id]) \subseteq Told(id) BY ToldHas
  <1>10. /\ shuffles[n][id].tx # NoTx => shuffles[n][id].tx = tx
         /\ \A u \in DOMAIN shuffles[n][id].sigs : shuffles[n][id].sigs[u].tx = tx
    BY <1>2, <1>9 DEF ToldTo
  <1>11. QED BY <1>1, <1>2, <1>4, <1>5, <1>6, <1>8, <1>10

\* One signature more.
LEMMA SignatureWith ==
  ASSUME NEW f, NEW u, NEW sig, \A v \in DOMAIN f : Signature(v, f[v]), Signature(u, sig)
  PROVE  \A v \in DOMAIN With(f, u, sig) : Signature(v, With(f, u, sig)[v])
  <1>1. /\ DOMAIN With(f, u, sig) = DOMAIN f \cup {u} /\ With(f, u, sig)[u] = sig
        /\ \A v \in DOMAIN f : v # u => With(f, u, sig)[v] = f[v]
    BY DEF With
  <1>2. QED BY <1>1

\* And all are of one transaction still.
LEMMA TxWith ==
  ASSUME NEW f, NEW u, NEW sig, NEW tx, \A v \in DOMAIN f : f[v].tx = tx, sig.tx = tx
  PROVE  \A v \in DOMAIN With(f, u, sig) : With(f, u, sig)[v].tx = tx
  <1>1. /\ DOMAIN With(f, u, sig) = DOMAIN f \cup {u} /\ With(f, u, sig)[u] = sig
        /\ \A v \in DOMAIN f : v # u => With(f, u, sig)[v] = f[v]
    BY DEF With
  <1>2. QED BY <1>1

\* jumblr_validate signs the one transaction, with what signatures there are.
LEMMA ValidateSent ==
  ASSUME SafeInv, SentInv, Evolves, NEW n \in Nodes, NEW m \in validates, Validate(n, m)
  PROVE  SentInv'
  <1> DEFINE id == m.id
             old == shuffles[n][id]
             s == [old EXCEPT !.tx = m.tx, !.tsigs = <<>>]
             sig == Sig(n, m.tx)
             t == Signed(s, sig)
             says == [id |-> id, to |-> Nodes \ {n}, vin |-> s.u, sig |-> sig]
  <1>1. pms' = pms /\ validates' = Handled(validates, m, n) BY DEF Validate
  <1>2. DOMAIN m = {"id", "to", "tx"} BY DEF SafeInv, Messages
  <1>3. m.tx \in Told(id) /\ id \in Ids BY ToldHas DEF SentInv, Listed
  <1>4. \A x \in validates' : x.id \in Ids /\ x.tx \in Told(x.id)
    <2>1. \A x \in validates' : x \in validates \/ (x.id = m.id /\ x.tx = m.tx)
      BY <1>1, <1>2, HandledValidate
    <2>2. QED BY <1>3, <2>1, ToldHas DEF SentInv, Listed
  <1>5. /\ \A x \in signeds : x.id \in Ids /\ x.sig.tx \in Told(x.id)
        /\ \A x \in Nodes : \A i \in DOMAIN shuffles[x] :
             ToldTo(shuffles[x][i]) \subseteq Told(i)
    BY ToldHas DEF SentInv, Listed
  <1>6. CASE id \notin DOMAIN shuffles[n]
    <2>1. UNCHANGED <<shuffles, signeds, sent>> BY <1>6 DEF Validate
    <2>2. SignedMessages' BY <2>1 DEF SentInv, SignedMessages
    <2>3. SignedShuffles' /\ SentComplete' BY <2>1, SignsKept DEF SentInv
    <2>4. \A x \in signeds' : x.id \in Ids /\ x.sig.tx \in Told(x.id)
      BY <1>5, <2>1
    <2>5. \A x \in Nodes : \A i \in DOMAIN shuffles'[x] :
            i \in DOMAIN shuffles[x] /\ ToldTo(shuffles'[x][i]) \subseteq Told(i)
      BY <1>5, <2>1
    <2>6. QED BY <1>1, <1>4, <2>2, <2>3, <2>4, <2>5, AnsweredSent
  <1>7. CASE id \in DOMAIN shuffles[n]
    <2>1. Entry(n, old) /\ Own(n, id, old) /\ \A u \in DOMAIN old.sigs : Signature(u, old.sigs[u])
      BY <1>7 DEF SafeInv, Records, SentInv, SignedShuffles
    <2>2. /\ DOMAIN s = Fields /\ s.u = old.u /\ s.amount = old.amount
          /\ s.change = old.change /\ s.sigs = old.sigs /\ s.tsigs = <<>> /\ s.tx = m.tx
      BY <2>1 DEF Entry, Fields
    <2>3. /\ m.tx # NoTx /\ Carried(id, m.tx.ins, Len(id.addrs) + 1)
          /\ old.u \in m.tx.ins /\ Owner[old.u] = n
          /\ old.tx # NoTx => old.tx = m.tx
          /\ \A u \in DOMAIN old.sigs : old.sigs[u].tx = m.tx
      BY ONLY <1>3, <1>7, TxFacts, SafeInv, SentInv, n \in Nodes
    <2> HIDE DEF old, s
    <2>4. CASE ~Valid(n, id, s, m.tx)
      <3>1. Put(n, id, s) /\ UNCHANGED <<signeds, sent>>
        BY <1>7, <2>4 DEF Validate, Put, old, s
      <3>2. Own(n, id, s)
        BY <2>1, <2>2, <2>3, <2>4 DEF Own, Valid
      <3>3. /\ SignedShuffles'
            /\ \A x \in Nodes : \A i \in DOMAIN shuffles'[x] :
                 /\ i \in DOMAIN shuffles[x]
                 /\ \/ i = id /\ shuffles'[x][i] = s
                    \/ shuffles'[x][i] = shuffles[x][i]
        <4>1. \A u \in DOMAIN s.sigs : Signature(u, s.sigs[u]) BY <2>1, <2>2
        <4>2. SignedShuffles BY DEF SentInv
        <4>3. QED BY ONLY <1>7, <3>1, <3>2, <4>1, <4>2, PutSigns, SafeInv, n \in Nodes
      <3>4. ToldTo(s) \subseteq Told(id)
        BY <1>3, <2>2, <2>3 DEF ToldTo
      <3>5. \A x \in Nodes : \A i \in DOMAIN shuffles'[x] :
              i \in DOMAIN shuffles[x] /\ ToldTo(shuffles'[x][i]) \subseteq Told(i)
        BY <1>5, <3>3, <3>4
      <3>6. SignedMessages' /\ SentComplete'
        BY <3>1 DEF SentInv, SignedMessages, SentComplete
      <3>7. \A x \in signeds' : x.id \in Ids /\ x.sig.tx \in Told(x.id)
        BY <1>5, <3>1
      <3>8. QED BY <1>1, <1>4, <3>3, <3>5, <3>6, <3>7, AnsweredSent
    <2>5. CASE Valid(n, id, s, m.tx)
      <3>1. Send(n, id, t) /\ signeds' = signeds \cup {says}
        BY <1>7, <2>5 DEF Validate, old, s
      <3>2. sig.tx = m.tx /\ Signature(s.u, sig)
        BY <2>2, <2>3 DEF Signature, Sig
      <3>3. /\ says.id = id /\ says.vin = s.u /\ says.sig = sig /\ says.to = Nodes \ {n}
        OBVIOUS
      <3> HIDE DEF sig
      <3>4. /\ DOMAIN t = Fields /\ t.u = s.u /\ t.amount = s.amount
            /\ t.change = s.change /\ t.sigs = With(s.sigs, s.u, sig)
            /\ t.tsigs = With(s.sigs, s.u, sig) /\ t.tx = m.tx
        BY <2>2 DEF Signed, Fields
      <3> HIDE DEF t, says
      <3>5. \A u \in DOMAIN t.sigs : Signature(u, t.sigs[u])
        BY <2>1, <2>2, <3>2, <3>4, SignatureWith
      <3>6. Own(n, id, t) BY <2>3, <2>5, <3>4 DEF Own, Valid
      <3>7. \A u \in DOMAIN t.sigs : t.sigs[u].tx = m.tx
        BY <2>2, <2>3, <3>2, <3>4, TxWith
      <3>8. /\ SignedShuffles' /\ SentComplete'
            /\ \A x \in Nodes : \A i \in DOMAIN shuffles'[x] :
                 /\ i \in DOMAIN shuffles[x]
                 /\ \/ i = id /\ ToldTo(shuffles'[x][i]) \subseteq ToldTo(t)
                    \/ shuffles'[x][i] = shuffles[x][i]
        <4>1. t.tx # NoTx => /\ Carried(id, t.tx.ins, Len(id.addrs) + 1) /\ t.u \in t.tx.ins
                             /\ \A u \in DOMAIN t.sigs : t.sigs[u].tx = t.tx
          BY <2>2, <2>3, <3>4, <3>7
        <4>2. SignedShuffles /\ SentComplete BY DEF SentInv
        <4>3. id \in Ids /\ DOMAIN t = Fields BY <1>3, <3>4
        <4>4. QED BY ONLY <1>7, <3>1, <3>5, <3>6, <4>1, <4>2, <4>3, SendSent,
                SafeInv, n \in Nodes
      <3>9. ToldTo(t) \subseteq Told(id) BY <1>3, <3>4, <3>7 DEF ToldTo
      <3>10. \A x \in Nodes : \A i \in DOMAIN shuffles'[x] :
              i \in DOMAIN shuffles[x] /\ ToldTo(shuffles'[x][i]) \subseteq Told(i)
        BY <1>5, <3>8, <3>9
      <3>11. SignedMessages'
        <4>1. Signature(says.vin, says.sig) /\ Owner[says.vin] \notin says.to
          BY <2>2, <2>3, <3>2, <3>3
        <4>2. QED BY <3>1, <4>1 DEF SentInv, SignedMessages
      <3>12. \A x \in signeds' : x.id \in Ids /\ x.sig.tx \in Told(x.id)
        BY <1>3, <1>5, <3>1, <3>2, <3>3
      <3>13. QED BY <1>1, <1>4, <3>8, <3>10, <3>11, <3>12, AnsweredSent
    <2>6. QED BY <2>4, <2>5
  <1>8. QED BY <1>6, <1>7

\* The "signed" handler: a signature goes into the transaction, or waits for
\* it in sp->sigs.
LEMMA GotSignedSent ==
  ASSUME SafeInv, SentInv, Evolves, NEW n \in Nodes, NEW m \in signeds, GotSigned(n, m)
  PROVE  SentInv'
  <1> DEFINE id == m.id
             s == shuffles[n][id]
             tsigs == IF s.tx = NoTx THEN s.tsigs ELSE With(s.tsigs, m.vin, m.sig)
             t == [s EXCEPT !.sigs = With(@, m.vin, m.sig),
                            !.tsigs = IF s.tx = NoTx THEN @
                                      ELSE With(@, m.vin, m.sig)]
  <1>1. /\ UNCHANGED <<pms, validates>> /\ signeds' = Handled(signeds, m, n) /\ n \in m.to
    BY DEF GotSigned
  <1>2. DOMAIN m = {"id", "to", "vin", "sig"} BY DEF SafeInv, Messages
  <1>3. m.sig.tx \in Told(id) /\ id \in Ids BY ToldHas DEF SentInv, Listed
  <1>4. Signature(m.vin, m.sig) /\ Owner[m.vin] # n /\ Owner[m.vin] \notin m.to
    BY <1>1 DEF SentInv, SignedMessages
  <1>5. /\ \A x \in signeds' : x.id \in Ids /\ x.sig.tx \in Told(x.id)
        /\ SignedMessages'
    <2>1. \A x \in signeds' :
            x \in signeds \/ (/\ x.id = m.id /\ x.vin = m.vin /\ x.sig = m.sig
                              /\ x.to \subseteq m.to)
      BY <1>1, <1>2, HandledSigned
    <2>2. QED BY <1>3, <1>4, <2>1, ToldHas DEF SentInv, Listed, SignedMessages
  <1>6. /\ \A x \in validates' : x.id \in Ids /\ x.tx \in Told(x.id)
        /\ \A x \in Nodes : \A i \in DOMAIN shuffles[x] :
             ToldTo(shuffles[x][i]) \subseteq Told(i)
    BY <1>1, ToldHas DEF SentInv, Listed
  <1>7. CASE id \notin DOMAIN shuffles[n]
    <2>1. UNCHANGED <<shuffles, sent>> BY <1>7 DEF GotSigned
    <2>2. SignedShuffles' /\ SentComplete' BY <2>1, SignsKept DEF SentInv
    <2>3. \A x \in Nodes : \A i \in DOMAIN shuffles'[x] :
            i \in DOMAIN shuffles[x] /\ ToldTo(shuffles'[x][i]) \subseteq Told(i)
      BY <1>6, <2>1
    <2>4. QED BY <1>1, <1>5, <1>6, <2>2, <2>3, AnsweredSent
  <1>8. CASE id \in DOMAIN shuffles[n]
    <2>1. Send(n, id, t) BY <1>8 DEF GotSigned
    <2>2. Entry(n, s) /\ Own(n, id, s) /\ \A u \in DOMAIN s.sigs : Signature(u, s.sigs[u])
      BY <1>8 DEF SafeInv, Records, SentInv, SignedShuffles
    <2>3. /\ m.sig.tx # NoTx /\ Carried(id, m.sig.tx.ins, Len(id.addrs) + 1)
          /\ s.u \in m.sig.tx.ins /\ Owner[s.u] = n
          /\ s.tx # NoTx => s.tx = m.sig.tx
          /\ \A u \in DOMAIN s.sigs : s.sigs[u].tx = m.sig.tx
      BY ONLY <1>3, <1>8, TxFacts, SafeInv, SentInv, n \in Nodes
    <2>4. /\ DOMAIN t = Fields /\ t.u = s.u /\ t.amount = s.amount
          /\ t.change = s.change /\ t.sigs = With(s.sigs, m.vin, m.sig)
          /\ t.tsigs = tsigs /\ t.tx = s.tx
      BY <2>2 DEF Entry, Fields
    <2> HIDE DEF t, s
    <2>5. \A u \in DOMAIN t.sigs : Signature(u, t.sigs[u])
      BY <1>4, <2>2, <2>4, SignatureWith
    <2>6. \A u \in DOMAIN t.sigs : t.sigs[u].tx = m.sig.tx
      BY ONLY <2>3, <2>4, TxWith
    <2>7. Own(n, id, t)
      <3>1. SUFFICES ASSUME t.u \in DOMAIN t.sigs
                     PROVE  t.tx # NoTx /\ t.tsigs = t.sigs /\ Valid(n, id, t, t.tx)
        BY DEF Own
      <3>2. t.u # m.vin BY <1>4, <2>3, <2>4
      <3>3. s.u \in DOMAIN s.sigs
        <4>1. DOMAIN With(s.sigs, m.vin, m.sig) = DOMAIN s.sigs \cup {m.vin} BY DEF With
        <4>2. QED BY <2>4, <3>1, <3>2, <4>1
      <3>4. s.tx # NoTx /\ s.tsigs = s.sigs /\ Valid(n, id, s, s.tx)
        BY <2>2, <3>3 DEF Own
      <3>5. QED BY <2>4, <3>4 DEF Valid
    <2>8. t.tx # NoTx => /\ Carried(id, t.tx.ins, Len(id.addrs) + 1) /\ t.u \in t.tx.ins
                         /\ \A u \in DOMAIN t.sigs : t.sigs[u].tx = t.tx
      BY <2>3, <2>4, <2>6
    <2>9. /\ SignedShuffles' /\ SentComplete'
          /\ \A x \in Nodes : \A i \in DOMAIN shuffles'[x] :
               /\ i \in DOMAIN shuffles[x]
               /\ \/ i = id /\ ToldTo(shuffles'[x][i]) \subseteq ToldTo(t)
                  \/ shuffles'[x][i] = shuffles[x][i]
      <3>1. SignedShuffles /\ SentComplete BY DEF SentInv
      <3>2. id \in Ids /\ DOMAIN t = Fields BY <1>3, <2>4
      <3>3. QED BY ONLY <1>8, <2>1, <2>5, <2>7, <2>8, <3>1, <3>2, SendSent,
                SafeInv, n \in Nodes
    <2>10. ToldTo(t) \subseteq Told(id) BY <1>3, <2>3, <2>4, <2>6 DEF ToldTo
    <2>11. \A x \in Nodes : \A i \in DOMAIN shuffles'[x] :
             i \in DOMAIN shuffles[x] /\ ToldTo(shuffles'[x][i]) \subseteq Told(i)
      BY <1>6, <2>9, <2>10
    <2>12. QED BY <1>1, <1>5, <1>6, <2>9, <2>11, AnsweredSent
  <1>9. QED BY <1>7, <1>8

\* The second invariant holds in every state of every execution as well.
THEOREM ShufflesSound == Spec => []SentInv
  <1>1. Init => SentInv
    <2> SUFFICES ASSUME Init PROVE SentInv
      OBVIOUS
    <2>1. /\ pms = {} /\ validates = {} /\ signeds = {} /\ sent = {}
          /\ \A n \in Nodes : DOMAIN shuffles[n] = {}
      BY DEF Init
    <2>2. Listed /\ OneMessage BY ONLY <2>1 DEF Listed, OneMessage
    <2>3. \A id \in Ids : Told(id) = {} BY ONLY <2>1 DEF Told
    <2>4. OneTx BY ONLY <2>3 DEF OneTx, OneTxOf
    <2>5. SignedMessages /\ SignedShuffles BY ONLY <2>1 DEF SignedMessages, SignedShuffles
    <2>6. SentComplete BY ONLY <2>1 DEF SentComplete
    <2>7. QED BY ONLY <2>2, <2>4, <2>5, <2>6 DEF SentInv
  <1>2. SafeInv /\ SentInv /\ [Next]_vars => SentInv'
    <2> SUFFICES ASSUME SafeInv, SentInv, [Next]_vars PROVE SentInv'
      OBVIOUS
    <2>1. CASE UNCHANGED vars
      <3>1. Evolves BY <2>1 DEF vars, Evolves
      <3>2. QED BY <2>1, <3>1, QuietSent DEF vars
    <2>2. ASSUME NEW n \in Nodes, Prepare(n) PROVE SentInv'
      BY <2>2, PrepareSafe, QuietSent DEF Prepare, network
    <2>3. ASSUME NEW n \in Nodes, Crash(n) PROVE SentInv'
      <3>1. \A x \in Nodes : \A i \in DOMAIN shuffles'[x] :
              i \in DOMAIN shuffles[x] /\ shuffles'[x][i] = shuffles[x][i]
        BY <2>3 DEF Crash, SafeInv, Records
      <3>2. QED BY <2>3, <3>1, CrashSafe, QuietSent DEF Crash, network
    <2>4. ASSUME NEW n \in Nodes, NEW id \in Ids, Start(n, id) PROVE SentInv'
      BY <2>4, StartSafe, StartSent
    <2>5. ASSUME NEW n \in Nodes, NEW id \in DOMAIN shuffles[n], Purge(n, id)
          PROVE  SentInv'
      <3>1. \A x \in Nodes : \A i \in DOMAIN shuffles'[x] :
              i \in DOMAIN shuffles[x] /\ shuffles'[x][i] = shuffles[x][i]
        BY <2>5 DEF Purge, SafeInv, Records
      <3>2. QED BY <2>5, <3>1, PurgeSafe, QuietSent DEF Purge, network
    <2>6. ASSUME NEW n \in Nodes, NEW m \in pms, Incoming(n, m) PROVE SentInv'
      BY <2>6, IncomingSafe, IncomingSent
    <2>7. ASSUME NEW n \in Nodes, NEW m \in validates, Validate(n, m) PROVE SentInv'
      BY <2>7, ValidateSafe, ValidateSent
    <2>8. ASSUME NEW n \in Nodes, NEW m \in signeds, GotSigned(n, m) PROVE SentInv'
      BY <2>8, GotSignedSafe, GotSignedSent
    <2>9. QED
      BY <2>1, <2>2, <2>3, <2>4, <2>5, <2>6, <2>7, <2>8 DEF Next, Handle
  <1>3. QED BY <1>1, <1>2, JumblrSafe, PTL DEF Spec

\* For any nodes, lists, coins and order of arrival, jumblr_send passes on
\* only a transaction that every owner of an input has signed: the bits of
\* sigmask it counts are the signatures in the transaction.
THEOREM SentIsComplete == Spec => []SentComplete
  <1>1. SentInv => SentComplete BY DEF SentInv
  <1>2. QED BY <1>1, ShufflesSound, PTL
=============================================================================
