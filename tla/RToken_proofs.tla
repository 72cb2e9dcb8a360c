------------------------- MODULE RToken_proofs -------------------------
(***************************************************************************)
(* Proofs about RToken: types, the issuers' deposits are held, the order   *)
(* and the backing of the issuance queues, that nothing but a change of    *)
(* the basket can leave the RToken undercollateralised, the throttle, and  *)
(* that each deposit is counted once and found when it is due.             *)
(***************************************************************************)
EXTENDS RToken, DataLemmas, SequenceTheorems

----------------------------------------------------------------------
\* Amounts of every token

\* Amounts of every token are closed under the operators of the model.
LEMMA NoneType == None \in Quantities
  BY DEF None, Quantities

\* Deposits and payments add up.
LEMMA PlusType ==
    ASSUME NEW f \in Quantities, NEW g \in Quantities
    PROVE  Plus(f, g) \in Quantities /\ Covers(Plus(f, g), f) /\ Covers(Plus(f, g), g)
  BY DEF Plus, Covers, Quantities

\* A payment that is covered leaves an amount.
LEMMA MinusType ==
    ASSUME NEW f \in Quantities, NEW g \in Quantities, Covers(f, g)
    PROVE  Minus(f, g) \in Quantities /\ Covers(f, Minus(f, g))
  BY DEF Minus, Covers, Quantities

\* What is taken from both sides, or added to both, does not matter.
LEMMA CoversMinus ==
    ASSUME NEW f \in Quantities, NEW g \in Quantities, NEW h \in Quantities, Covers(f, g)
    PROVE  Covers(Minus(f, h), Minus(g, h)) /\ Covers(Plus(f, h), Plus(g, h))
  BY DEF Minus, Plus, Covers, Quantities

\* A quote rounded up pays for the baskets.
LEMMA QuoteUpPays ==
    ASSUME quantity \in Quantities, NEW baskets \in Nat
    PROVE  /\ QuoteUp(baskets) \in Quantities
           /\ \A t \in Tokens : quantity[t] * baskets <= FIX_ONE * QuoteUp(baskets)[t]
<1>1. FIX_ONE \in Nat \ {0}
  BY BatteryAssumption
<1>2. ASSUME NEW t \in Tokens
      PROVE  /\ DivUp(quantity[t] * baskets, FIX_ONE) \in Nat
             /\ quantity[t] * baskets <= FIX_ONE * DivUp(quantity[t] * baskets, FIX_ONE)
  <2>1. quantity[t] \in Nat
    BY DEF Quantities
  <2>2. quantity[t] * baskets \in Nat
    BY <2>1, SMT
  <2>3. /\ DivUp(quantity[t] * baskets, FIX_ONE) \in Nat
        /\ quantity[t] * baskets <= DivUp(quantity[t] * baskets, FIX_ONE) * FIX_ONE
    BY <1>1, <2>2, DivUpBounds
  <2>4. \A x \in Nat : x * FIX_ONE = FIX_ONE * x
    BY <1>1, SMT
  <2> QED BY <2>3, <2>4
<1> QED BY <1>2 DEF QuoteUp, Quantities

----------------------------------------------------------------------
\* Queues

QueueOrdered(q, end) ==
    /\ IF q.items = <<>> THEN q.left = 0 ELSE q.left < Len(q.items)
    /\ \A i, j \in 0 .. Len(q.items) : i < j =>
          /\ item(q, i).when < item(q, j).when
          /\ item(q, i).amtRToken < item(q, j).amtRToken
          /\ item(q, i).amtBaskets <= item(q, j).amtBaskets
          /\ Covers(item(q, j).deposits, item(q, i).deposits)
    /\ item(q, Len(q.items)).when <= end

\* Every span of pending issuances has deposits for its baskets.
QueueBacked(q, quantities) ==
    \A i, j \in q.left .. Len(q.items) : i <= j =>
        \A t \in Tokens :
            quantities[t] * SpanBaskets(q, i, j) <= FIX_ONE * SpanDeposits(q, i, j)[t]

\* The fields of an issuance queue.
LEMMA QueueFields ==
    ASSUME NEW q \in IssueQueue
    PROVE  /\ q.items \in Seq(IssueItem) /\ Len(q.items) \in Nat /\ q.left \in Nat
           /\ q.basketNonce \in Nat
  BY DEF IssueQueue

\* The fields of an entry.
LEMMA ItemFields ==
    ASSUME NEW x \in IssueItem
    PROVE  /\ x.when \in Nat /\ x.amtRToken \in Nat /\ x.amtBaskets \in Nat
           /\ x.deposits \in Quantities
  BY DEF IssueItem

\* item(q, i) is an entry, the zero entry before the first.
LEMMA ItemType ==
    ASSUME NEW q \in IssueQueue, NEW i \in 0 .. Len(q.items)
    PROVE  item(q, i) \in IssueItem
<1>1. q.items \in Seq(IssueItem) /\ Len(q.items) \in Nat
  BY QueueFields
<1>2. ZeroItem \in IssueItem
  BY NoneType DEF ZeroItem, IssueItem
<1>3. i # 0 => i \in 1 .. Len(q.items)
  BY <1>1
<1>4. i # 0 => q.items[i] \in IssueItem
  BY <1>1, <1>3
<1> QED BY <1>2, <1>4 DEF item

\* The amounts of a span are natural numbers.
LEMMA SpanType ==
    ASSUME NEW q \in IssueQueue, NEW end, QueueOrdered(q, end),
           NEW i \in 0 .. Len(q.items), NEW j \in 0 .. Len(q.items), i <= j
    PROVE  /\ SpanDeposits(q, i, j) \in Quantities
           /\ SpanRToken(q, i, j) \in Nat /\ SpanBaskets(q, i, j) \in Nat
           /\ item(q, i).when \in Nat /\ item(q, j).when \in Nat
           /\ item(q, i).when <= item(q, j).when
<1>1. Len(q.items) \in Nat
  BY QueueFields
<1>2. item(q, i) \in IssueItem /\ item(q, j) \in IssueItem
  BY ItemType
<1>3. /\ item(q, i).when \in Nat /\ item(q, j).when \in Nat
      /\ item(q, i).amtRToken \in Nat /\ item(q, j).amtRToken \in Nat
      /\ item(q, i).amtBaskets \in Nat /\ item(q, j).amtBaskets \in Nat
      /\ item(q, i).deposits \in Quantities /\ item(q, j).deposits \in Quantities
  BY <1>2, ItemFields
<1>4. /\ item(q, i).when <= item(q, j).when
      /\ item(q, i).amtRToken <= item(q, j).amtRToken
      /\ item(q, i).amtBaskets <= item(q, j).amtBaskets
      /\ Covers(item(q, j).deposits, item(q, i).deposits)
  <2>1. CASE i < j
    BY <1>3, <2>1, SMTT(60) DEF QueueOrdered
  <2>2. CASE i = j
    BY <1>3, <2>2 DEF Covers, Quantities
  <2> QED BY <1>1, <2>1, <2>2
<1>5. SpanDeposits(q, i, j) \in Quantities
  BY <1>3, <1>4, MinusType DEF SpanDeposits
<1> QED BY <1>3, <1>4, <1>5 DEF SpanRToken, SpanBaskets

\* A queue without a span at either end: what is left are the same entries.
LEMMA WithoutSpanItems ==
    ASSUME NEW q \in IssueQueue,
           IF q.items = <<>> THEN q.left = 0 ELSE q.left < Len(q.items),
           NEW left \in q.left .. Len(q.items), NEW right \in q.left .. Len(q.items),
           left < right, left = q.left \/ right = Len(q.items)
    PROVE  LET w == WithoutSpan(q, left, right) IN
           /\ w \in IssueQueue /\ w.basketNonce = q.basketNonce
           /\ w.items = <<>> => w.left = 0
           /\ w.items # <<>> => q.left <= w.left /\ w.left < Len(w.items)
           /\ Len(w.items) <= Len(q.items)
           /\ \A i \in 0 .. Len(w.items) : item(w, i) = item(q, i)
           /\ Pending(w) \subseteq Pending(q)
           /\ left = q.left => Pending(w) = Pending(q) \ ((left + 1) .. right)
<1> DEFINE w == WithoutSpan(q, left, right)
<1>1. /\ q.items \in Seq(IssueItem) /\ Len(q.items) \in Nat /\ q.left \in Nat
      /\ q.basketNonce \in Nat
      /\ q = [basketNonce |-> q.basketNonce, left |-> q.left, items |-> q.items]
  BY DEF IssueQueue
<1>2. left \in Nat /\ right \in Nat /\ left <= Len(q.items) /\ right <= Len(q.items)
      /\ q.left <= left
  BY <1>1
<1>3. CASE left = q.left /\ right = Len(q.items)
  <2>1. w = [basketNonce |-> q.basketNonce, left |-> 0, items |-> <<>>]
    BY <1>1, <1>3 DEF WithoutSpan, Emptied
  <2>2. w \in IssueQueue /\ w.items = <<>> /\ w.left = 0 /\ w.basketNonce = q.basketNonce
    BY <1>1, <2>1 DEF IssueQueue
  <2>3. Len(w.items) = 0
    BY <2>2
  <2>4. \A i \in 0 .. Len(w.items) : item(w, i) = item(q, i)
    BY <2>3 DEF item
  <2>5. Pending(w) = {}
    BY <2>2, <2>3 DEF Pending
  <2>6. Pending(q) \ ((left + 1) .. right) = {}
    BY <1>3 DEF Pending
  <2> HIDE DEF w
  <2> QED BY <1>1, <2>2, <2>3, <2>4, <2>5, <2>6 DEF w
<1>4. CASE left = q.left /\ right # Len(q.items)
  <2>1. w = [basketNonce |-> q.basketNonce, left |-> right, items |-> q.items]
    BY <1>1, <1>4 DEF WithoutSpan
  <2>2. w \in IssueQueue /\ w.items = q.items /\ w.left = right /\ w.basketNonce = q.basketNonce
    BY <1>1, <1>2, <2>1 DEF IssueQueue
  <2>3. \A i \in 0 .. Len(w.items) : item(w, i) = item(q, i)
    BY <2>2 DEF item
  <2>4. Pending(w) \subseteq Pending(q) /\ Pending(w) = Pending(q) \ ((left + 1) .. right)
    BY <1>1, <1>2, <1>4, <2>2 DEF Pending
  <2>5. w.items # <<>>
    BY <1>2, <1>4, <2>2
  <2> HIDE DEF w
  <2> QED BY <1>1, <1>2, <1>4, <2>2, <2>3, <2>4, <2>5 DEF w
<1>5. CASE left # q.left
  <2>1. w = [basketNonce |-> q.basketNonce, left |-> q.left, items |-> SubSeq(q.items, 1, left)]
    BY <1>1, <1>5 DEF WithoutSpan
  <2>2. /\ SubSeq(q.items, 1, left) \in Seq(IssueItem)
        /\ Len(SubSeq(q.items, 1, left)) = left
        /\ \A i \in 1 .. left : SubSeq(q.items, 1, left)[i] = q.items[i]
    <3>1. left \in 1 .. Len(q.items)
      BY <1>1, <1>2, <1>5
    <3>2. \A i \in 1 .. left : q.items[i] \in IssueItem
      BY <1>1, <3>1
    <3> QED BY <1>1, <1>2, <3>1, <3>2, SubSeqProperties
  <2>3. /\ w \in IssueQueue /\ w.items = SubSeq(q.items, 1, left) /\ w.left = q.left
        /\ w.basketNonce = q.basketNonce /\ Len(w.items) = left
    BY <1>1, <2>1, <2>2 DEF IssueQueue
  <2> HIDE DEF w
  <2>4. \A i \in 0 .. Len(w.items) : item(w, i) = item(q, i)
    BY <1>2, <2>2, <2>3 DEF item
  <2>5. Pending(w) \subseteq Pending(q)
    BY <1>1, <1>2, <2>3 DEF Pending
  <2>6. q.left < left
    BY <1>1, <1>2, <1>5
  <2> QED BY <1>1, <1>2, <1>5, <2>3, <2>4, <2>5, <2>6 DEF w
<1> QED BY <1>3, <1>4, <1>5

\* A queue that holds a prefix of the entries is ordered and backed as well.
LEMMA PrefixOrdered ==
    ASSUME NEW q \in IssueQueue, NEW w \in IssueQueue, NEW end \in Nat, NEW quantities,
           QueueOrdered(q, end),
           w.items = <<>> => w.left = 0,
           w.items # <<>> => q.left <= w.left /\ w.left < Len(w.items),
           Len(w.items) <= Len(q.items),
           \A i \in 0 .. Len(w.items) : item(w, i) = item(q, i)
    PROVE  /\ QueueOrdered(w, end)
           /\ quantities \in Quantities /\ QueueBacked(q, quantities) => QueueBacked(w, quantities)
<1>1. /\ Len(q.items) \in Nat /\ Len(w.items) \in Nat /\ q.left \in Nat /\ w.left \in Nat
      /\ w.items \in Seq(IssueItem)
  BY QueueFields
<1>2. 0 .. Len(w.items) \subseteq 0 .. Len(q.items)
  BY <1>1
<1>3. item(w, Len(w.items)).when <= end
  <2>1. Len(w.items) \in 0 .. Len(q.items) /\ Len(q.items) \in 0 .. Len(q.items)
    BY <1>1
  <2>2. /\ item(q, Len(w.items)).when \in Nat /\ item(q, Len(q.items)).when \in Nat
        /\ item(q, Len(w.items)).when <= item(q, Len(q.items)).when
    BY <2>1, SpanType
  <2>3. item(q, Len(q.items)).when <= end
    BY DEF QueueOrdered
  <2>4. item(w, Len(w.items)) = item(q, Len(w.items))
    BY <1>1
  <2> QED BY <2>2, <2>3, <2>4
<1>4. QueueOrdered(w, end)
  BY <1>1, <1>2, <1>3 DEF QueueOrdered
<1>5. ASSUME quantities \in Quantities, QueueBacked(q, quantities),
             NEW i \in w.left .. Len(w.items), NEW j \in w.left .. Len(w.items), i <= j,
             NEW t \in Tokens
      PROVE  quantities[t] * SpanBaskets(w, i, j) <= FIX_ONE * SpanDeposits(w, i, j)[t]
  <2>1. i \in 0 .. Len(w.items) /\ j \in 0 .. Len(w.items)
    BY <1>1
  <2>2. SpanBaskets(w, i, j) = SpanBaskets(q, i, j) /\ SpanDeposits(w, i, j) = SpanDeposits(q, i, j)
    BY <2>1 DEF SpanBaskets, SpanDeposits
  <2>3. CASE w.items = <<>>
    <3>1. i = 0 /\ j = 0
      BY <1>1, <2>3
    <3>2. SpanBaskets(w, i, j) = 0 /\ SpanDeposits(w, i, j)[t] = 0
      BY <3>1 DEF SpanBaskets, SpanDeposits, item, ZeroItem, None, Minus
    <3>3. quantities[t] \in Nat /\ FIX_ONE \in Nat
      BY <1>5, BatteryAssumption DEF Quantities
    <3> QED BY <3>2, <3>3
  <2>4. CASE w.items # <<>>
    <3>1. i \in q.left .. Len(q.items) /\ j \in q.left .. Len(q.items)
      BY <1>1, <2>4
    <3> QED BY <1>5, <2>2, <3>1 DEF QueueBacked
  <2> QED BY <2>3, <2>4
<1> QED BY <1>4, <1>5 DEF QueueBacked

\* A new entry at the end of a queue.
Appended(q, iss, n) == [basketNonce |-> n, left |-> q.left, items |-> Append(q.items, iss)]

\* The entries of the old queue stay, and the new one is pending.
LEMMA AppendItems ==
    ASSUME NEW q \in IssueQueue, NEW iss \in IssueItem, NEW n \in Nat
    PROVE  LET w == Appended(q, iss, n) IN
           /\ w \in IssueQueue /\ w.basketNonce = n /\ w.left = q.left
           /\ Len(w.items) = Len(q.items) + 1 /\ w.items # <<>>
           /\ \A i \in 0 .. Len(q.items) : item(w, i) = item(q, i)
           /\ item(w, Len(q.items) + 1) = iss
           /\ Pending(q) \subseteq Pending(w)
<1> DEFINE w == Appended(q, iss, n)
<1>1. q.items \in Seq(IssueItem) /\ Len(q.items) \in Nat /\ q.left \in Nat
  BY QueueFields
<1>3. /\ Append(q.items, iss) \in Seq(IssueItem)
      /\ Len(Append(q.items, iss)) = Len(q.items) + 1
      /\ \A i \in 1 .. Len(q.items) : Append(q.items, iss)[i] = q.items[i]
      /\ Append(q.items, iss)[Len(q.items) + 1] = iss
  BY <1>1
<1>4. /\ w \in IssueQueue /\ w.basketNonce = n /\ w.left = q.left
      /\ w.items = Append(q.items, iss)
  BY <1>1, <1>3 DEF IssueQueue, Appended
<1> HIDE DEF w
<1>5. \A i \in 0 .. Len(q.items) : item(w, i) = item(q, i)
  BY <1>1, <1>3, <1>4 DEF item
<1>6. item(w, Len(q.items) + 1) = iss
  BY <1>1, <1>3, <1>4 DEF item
<1>7. Pending(q) \subseteq Pending(w)
  BY <1>1, <1>3, <1>4 DEF Pending
<1>8. w.items # <<>>
  BY <1>1, <1>3, <1>4
<1> QED BY <1>3, <1>4, <1>5, <1>6, <1>7, <1>8 DEF w

\* An entry that comes last in time, and adds to every sum, keeps the order.
LEMMA AppendOrdered ==
    ASSUME NEW q \in IssueQueue, NEW w \in IssueQueue, NEW iss \in IssueItem, NEW end \in Nat,
           QueueOrdered(q, end), w.left = q.left,
           Len(w.items) = Len(q.items) + 1, w.items # <<>>,
           \A i \in 0 .. Len(q.items) : item(w, i) = item(q, i),
           item(w, Len(q.items) + 1) = iss,
           end < iss.when,
           item(q, Len(q.items)).amtRToken < iss.amtRToken,
           item(q, Len(q.items)).amtBaskets <= iss.amtBaskets,
           Covers(iss.deposits, item(q, Len(q.items)).deposits)
    PROVE  QueueOrdered(w, iss.when)
<1> DEFINE last == Len(q.items)
<1>1. last \in Nat /\ q.left \in Nat /\ q.items \in Seq(IssueItem)
  BY QueueFields
<1>2. IF w.items = <<>> THEN w.left = 0 ELSE w.left < Len(w.items)
  <2>1. CASE q.items = <<>>
    BY <1>1, <2>1 DEF QueueOrdered
  <2>2. CASE q.items # <<>>
    BY <1>1, <2>2 DEF QueueOrdered
  <2> QED BY <2>1, <2>2
<1>3. item(w, Len(w.items)).when <= iss.when
  BY ItemFields
<1>4. ASSUME NEW i \in 0 .. Len(w.items), NEW j \in 0 .. Len(w.items), i < j
      PROVE  /\ item(w, i).when < item(w, j).when
             /\ item(w, i).amtRToken < item(w, j).amtRToken
             /\ item(w, i).amtBaskets <= item(w, j).amtBaskets
             /\ Covers(item(w, j).deposits, item(w, i).deposits)
  <2>1. i \in 0 .. last
    BY <1>1, <1>4
  <2>2. CASE j <= last
    <3>1. j \in 0 .. last
      BY <1>1, <1>4, <2>2
    <3> QED BY <1>4, <2>1, <3>1 DEF QueueOrdered
  <2>3. CASE j = last + 1
    <3>1. last \in 0 .. last /\ i <= last
      BY <1>1, <2>1
    <3>2. item(q, i) \in IssueItem /\ item(q, last) \in IssueItem
      BY <2>1, <3>1, ItemType
    <3>3. /\ item(q, i).when \in Nat /\ item(q, last).when \in Nat /\ iss.when \in Nat
          /\ item(q, i).amtRToken \in Nat /\ item(q, last).amtRToken \in Nat
          /\ iss.amtRToken \in Nat
          /\ item(q, i).amtBaskets \in Nat /\ item(q, last).amtBaskets \in Nat
          /\ iss.amtBaskets \in Nat
          /\ item(q, i).deposits \in Quantities /\ item(q, last).deposits \in Quantities
          /\ iss.deposits \in Quantities
      BY <3>2, ItemFields
    <3>4. /\ item(q, i).when <= item(q, last).when
          /\ item(q, i).amtRToken <= item(q, last).amtRToken
          /\ item(q, i).amtBaskets <= item(q, last).amtBaskets
          /\ Covers(item(q, last).deposits, item(q, i).deposits)
      <4>1. CASE i < last
        <5>1. /\ item(q, i).when < item(q, last).when
              /\ item(q, i).amtRToken < item(q, last).amtRToken
              /\ item(q, i).amtBaskets <= item(q, last).amtBaskets
              /\ Covers(item(q, last).deposits, item(q, i).deposits)
          BY <2>1, <3>1, <4>1 DEF QueueOrdered
        <5> QED BY <3>3, <5>1, SMTT(60)
      <4>2. CASE i = last
        <5>1. Covers(item(q, i).deposits, item(q, i).deposits)
          BY <3>3 DEF Covers, Quantities
        <5> QED BY <3>3, <4>2, <5>1
      <4> QED BY <1>1, <3>1, <4>1, <4>2
    <3>5. item(q, last).when <= end
      BY DEF QueueOrdered
    <3>6. item(w, i) = item(q, i) /\ item(w, j) = iss
      BY <2>1, <2>3
    <3>7. Covers(iss.deposits, item(q, i).deposits)
      BY <3>3, <3>4 DEF Covers, Quantities
    <3>8. /\ item(q, i).when < iss.when /\ item(q, i).amtRToken < iss.amtRToken
          /\ item(q, i).amtBaskets <= iss.amtBaskets
      <4>1. item(q, last).amtRToken < iss.amtRToken /\ item(q, last).amtBaskets <= iss.amtBaskets
        OBVIOUS
      <4> HIDE DEF last
      <4>2. item(q, i).when < iss.when
        BY <3>3, <3>4, <3>5
      <4>3. item(q, i).amtRToken < iss.amtRToken /\ item(q, i).amtBaskets <= iss.amtBaskets
        BY <3>3, <3>4, <4>1, SMTT(60)
      <4> QED BY <4>2, <4>3
    <3> QED BY <3>6, <3>7, <3>8
  <2> QED BY <1>1, <1>4, <2>2, <2>3
<1> QED BY <1>2, <1>3, <1>4 DEF QueueOrdered

\* Deposits that pay for the new baskets keep every span backed.
LEMMA AppendBacked ==
    ASSUME NEW q \in IssueQueue, NEW w \in IssueQueue, NEW iss \in IssueItem, NEW end \in Nat,
           NEW quantities \in Quantities,
           QueueOrdered(q, end), QueueBacked(q, quantities),
           w.left = q.left, Len(w.items) = Len(q.items) + 1,
           \A i \in 0 .. Len(q.items) : item(w, i) = item(q, i),
           item(w, Len(q.items) + 1) = iss,
           \A t \in Tokens :
               quantities[t] * (iss.amtBaskets - item(q, Len(q.items)).amtBaskets)
                   <= FIX_ONE * (iss.deposits[t] - item(q, Len(q.items)).deposits[t])
    PROVE  QueueBacked(w, quantities)
<1> DEFINE last == Len(q.items)
<1>1. last \in Nat /\ q.left \in Nat /\ FIX_ONE \in Nat
  BY QueueFields, BatteryAssumption
<1>2. q.left <= last
  BY <1>1 DEF QueueOrdered
<1> SUFFICES ASSUME NEW i \in w.left .. Len(w.items), NEW j \in w.left .. Len(w.items), i <= j,
                    NEW t \in Tokens
             PROVE  quantities[t] * SpanBaskets(w, i, j) <= FIX_ONE * SpanDeposits(w, i, j)[t]
  BY DEF QueueBacked
<1>3. i \in Nat /\ j \in Nat /\ quantities[t] \in Nat
  BY <1>1 DEF Quantities
<1>4. CASE j <= last
  <2>1. i \in q.left .. last /\ j \in q.left .. last
    BY <1>1, <1>3, <1>4
  <2>2. i \in 0 .. last /\ j \in 0 .. last
    BY <1>1, <2>1
  <2> QED BY <2>1, <2>2 DEF QueueBacked, SpanBaskets, SpanDeposits
<1>5. CASE i = last + 1
  <2>1. j = last + 1
    BY <1>1, <1>3, <1>5
  <2>2. iss.amtBaskets \in Nat /\ iss.deposits[t] \in Nat
    BY ItemFields DEF Quantities
  <2>3. SpanBaskets(w, i, j) = 0 /\ SpanDeposits(w, i, j)[t] = 0
    BY <1>5, <2>1, <2>2 DEF SpanBaskets, SpanDeposits, Minus
  <2> QED BY <1>1, <1>3, <2>3
<1>6. CASE i <= last /\ j = last + 1
  <2>1. i \in q.left .. last /\ last \in q.left .. last /\ i \in 0 .. last /\ last \in 0 .. last
    BY <1>1, <1>2, <1>3, <1>6
  <2>2. /\ SpanBaskets(q, i, last) \in Nat /\ SpanDeposits(q, i, last) \in Quantities
    BY <1>6, <2>1, SpanType
  <2>3. item(q, i) \in IssueItem /\ item(q, last) \in IssueItem
    BY <2>1, ItemType
  <2>4. /\ item(q, i).amtBaskets \in Nat /\ item(q, last).amtBaskets \in Nat
        /\ iss.amtBaskets \in Nat
        /\ item(q, i).deposits[t] \in Nat /\ item(q, last).deposits[t] \in Nat
        /\ iss.deposits[t] \in Nat
    BY <2>3, ItemFields DEF Quantities
  <2> DEFINE b1 == SpanBaskets(q, i, last)  d1 == SpanDeposits(q, i, last)[t]
             b2 == iss.amtBaskets - item(q, last).amtBaskets
             d2 == iss.deposits[t] - item(q, last).deposits[t]
  <2>5. b1 \in Int /\ d1 \in Int /\ b2 \in Int /\ d2 \in Int
    <3>1. SpanDeposits(q, i, last)[t] \in Nat
      BY <2>2 DEF Quantities
    <3>2. b1 \in Int /\ d1 \in Int
      BY <2>2, <3>1
    <3>3. b2 \in Int /\ d2 \in Int
      BY <2>4, SMTT(60)
    <3> QED BY <3>2, <3>3
  <2>6. quantities[t] * b1 <= FIX_ONE * d1 /\ quantities[t] * b2 <= FIX_ONE * d2
    BY <1>6, <2>1 DEF QueueBacked
  <2>7. SpanBaskets(w, i, j) = b1 + b2 /\ SpanDeposits(w, i, j)[t] = d1 + d2
    <3>1. item(w, i) = item(q, i) /\ item(w, j) = iss
      BY <1>6, <2>1
    <3>2. /\ SpanBaskets(w, i, j) = iss.amtBaskets - item(q, i).amtBaskets
          /\ SpanDeposits(w, i, j)[t] = iss.deposits[t] - item(q, i).deposits[t]
      BY <3>1 DEF SpanBaskets, SpanDeposits, Minus
    <3>3. /\ b1 = item(q, last).amtBaskets - item(q, i).amtBaskets
          /\ d1 = item(q, last).deposits[t] - item(q, i).deposits[t]
      BY DEF SpanBaskets, SpanDeposits, Minus
    <3>4. /\ b2 = iss.amtBaskets - item(q, last).amtBaskets
          /\ d2 = iss.deposits[t] - item(q, last).deposits[t]
      OBVIOUS
    <3> HIDE DEF last, b1, b2, d1, d2
    <3>5. iss.amtBaskets - item(q, i).amtBaskets
              = (item(q, last).amtBaskets - item(q, i).amtBaskets)
                    + (iss.amtBaskets - item(q, last).amtBaskets)
      BY <2>4, SMTT(60)
    <3>6. iss.deposits[t] - item(q, i).deposits[t]
              = (item(q, last).deposits[t] - item(q, i).deposits[t])
                    + (iss.deposits[t] - item(q, last).deposits[t])
      BY <2>4, SMTT(60)
    <3> QED BY <3>2, <3>3, <3>4, <3>5, <3>6, Zenon
  <2> HIDE DEF b1, b2, d1, d2
  <2>8. quantities[t] * (b1 + b2) = quantities[t] * b1 + quantities[t] * b2
    BY <1>3, <2>5, SMT
  <2>9. FIX_ONE * (d1 + d2) = FIX_ONE * d1 + FIX_ONE * d2
    BY <1>1, <2>5, SMT
  <2>10. /\ quantities[t] * b1 \in Int /\ quantities[t] * b2 \in Int
         /\ FIX_ONE * d1 \in Int /\ FIX_ONE * d2 \in Int
    BY <1>1, <1>3, <2>5, SMT
  <2> QED BY <2>6, <2>7, <2>8, <2>9, <2>10
<1> QED BY <1>1, <1>3, <1>4, <1>5, <1>6

\* A queue that was emptied, or never used.
LEMMA NoItems ==
    ASSUME NEW q \in IssueQueue, q.items = <<>>, q.left = 0, NEW end \in Nat,
           NEW quantities \in Quantities
    PROVE  QueueOrdered(q, end) /\ QueueBacked(q, quantities) /\ Pending(q) = {}
<1>1. Len(q.items) = 0
  OBVIOUS
<1>2. ZeroItem.when = 0 /\ ZeroItem.amtBaskets = 0
      /\ \A t \in Tokens : ZeroItem.deposits[t] = 0
  BY DEF ZeroItem, None
<1>3. item(q, 0) = ZeroItem
  BY DEF item
<1>4. QueueOrdered(q, end)
  BY <1>1, <1>2, <1>3 DEF QueueOrdered
<1>5. ASSUME NEW i \in q.left .. Len(q.items), NEW j \in q.left .. Len(q.items),
             NEW t \in Tokens
      PROVE  quantities[t] * SpanBaskets(q, i, j) <= FIX_ONE * SpanDeposits(q, i, j)[t]
  <2>1. i = 0 /\ j = 0
    BY <1>1
  <2>2. SpanBaskets(q, i, j) = 0 /\ SpanDeposits(q, i, j)[t] = 0
    BY <1>2, <1>3, <2>1 DEF SpanBaskets, SpanDeposits, Minus
  <2>3. quantities[t] \in Nat /\ FIX_ONE \in Nat
    BY BatteryAssumption DEF Quantities
  <2> QED BY <2>2, <2>3
<1> QED BY <1>1, <1>4, <1>5 DEF QueueBacked, Pending

\* A refund of all pending issuances leaves an empty queue of the same basket.
LEMMA EmptiedType ==
    ASSUME NEW q \in IssueQueue
    PROVE  /\ Emptied(q) \in IssueQueue /\ Emptied(q).items = <<>> /\ Emptied(q).left = 0
           /\ Emptied(q).basketNonce = q.basketNonce
  BY DEF Emptied, IssueQueue

\* An issuance that is pending comes after another one, or is the first.
LEMMA PendingItem ==
    ASSUME NEW q \in IssueQueue, NEW end \in Nat, QueueOrdered(q, end), NEW i \in Pending(q)
    PROVE  /\ i \in 1 .. Len(q.items) /\ q.items[i] = item(q, i)
           /\ item(q, i).when \in Nat /\ item(q, i).when <= end
<1>1. Len(q.items) \in Nat /\ q.left \in Nat
  BY QueueFields
<1>2. i \in 1 .. Len(q.items) /\ i # 0
  BY <1>1 DEF Pending
<1>3. i \in 0 .. Len(q.items) /\ Len(q.items) \in 0 .. Len(q.items) /\ i <= Len(q.items)
  BY <1>1, <1>2
<1>4. /\ item(q, i).when \in Nat /\ item(q, Len(q.items)).when \in Nat
      /\ item(q, i).when <= item(q, Len(q.items)).when
  BY <1>3, SpanType
<1>5. item(q, Len(q.items)).when <= end
  BY DEF QueueOrdered
<1>6. item(q, i).when <= end
  BY <1>4, <1>5
<1> QED BY <1>2, <1>4, <1>6 DEF item

----------------------------------------------------------------------
\* The inductive invariant.  What an action needs of an issuance queue is that
\* every span of it is ordered and, against the current basket, backed; that the
\* current nonce is the highest ever used keeps a basket change from making an
\* old queue current again.

QueuesOK ==
    \A a \in Accounts :
        /\ QueueOrdered(queues[a], allVestAt)
        /\ queues[a].basketNonce = nonce => QueueBacked(queues[a], quantity)

NoncesOK ==
    /\ nonce = 0 => status = "DISABLED"
    /\ \A a \in Accounts : /\ queues[a].basketNonce <= nonce
                           /\ queues[a].basketNonce = 0 => queues[a].items = <<>>

IInv == TypeOK /\ LiabilitiesCovered /\ QueuesOK /\ NoncesOK /\ OneSchedule

\* A step that leaves the queues, the schedule and the basket alone.
LEMMA QuietQueues ==
    ASSUME IInv, UNCHANGED <<queues, allVestAt, nonce, quantity, status>>
    PROVE  QueuesOK' /\ NoncesOK' /\ OneSchedule'
<1>1. QueuesOK'
  BY DEF IInv, QueuesOK
<1>2. NoncesOK'
  BY DEF IInv, NoncesOK
<1>3. OneSchedule'
  BY DEF IInv, OneSchedule
<1> QED BY <1>1, <1>2, <1>3

----------------------------------------------------------------------
\* Types of what the actions compute

\* The constants, as the assumptions type them.
LEMMA ConstantTypes ==
    /\ FIX_ONE \in Nat \ {0} /\ BLOCKS_PER_HOUR \in Nat \ {0}
    /\ MIN_BLOCK_ISSUANCE_LIMIT \in Nat \ {0}
    /\ MIN_BU_RATE \in Nat /\ MAX_BU_RATE \in Nat
    /\ Wallet \in Quantities /\ Amounts \subseteq Nat
    /\ IssuanceRates \subseteq Nat /\ Floors \subseteq Nat /\ Rates \subseteq Nat
    /\ backingBuffer \in Nat /\ Shares \in Nat \ {0}
    /\ MaxAuction \in Nat /\ MaxBlock \in Nat /\ MaxItems \in Nat
  BY RTokenAssumption, BatteryAssumption

\* A quote rounded down is within the value of the baskets.
LEMMA QuoteDownType ==
    ASSUME quantity \in Quantities, NEW baskets \in Nat
    PROVE  /\ QuoteDown(baskets) \in Quantities
           /\ \A t \in Tokens : FIX_ONE * QuoteDown(baskets)[t] <= quantity[t] * baskets
<1>1. ASSUME NEW t \in Tokens
      PROVE  /\ (quantity[t] * baskets) \div FIX_ONE \in Nat
             /\ FIX_ONE * ((quantity[t] * baskets) \div FIX_ONE) <= quantity[t] * baskets
  <2>1. quantity[t] \in Nat
    BY DEF Quantities
  <2>2. quantity[t] * baskets \in Nat
    BY <2>1, MulNat
  <2> DEFINE a == quantity[t] * baskets
  <2> HIDE DEF a
  <2>3. a \div FIX_ONE \in Nat /\ (a \div FIX_ONE) * FIX_ONE <= a
    BY <2>2, ConstantTypes, DivFloor DEF a
  <2>4. (a \div FIX_ONE) * FIX_ONE = FIX_ONE * (a \div FIX_ONE)
    BY <2>3, ConstantTypes, MulNat
  <2> QED BY <2>3, <2>4 DEF a
<1> QED BY <1>1 DEF QuoteDown, Quantities

\* issue() never divides by a rate of zero.
LEMMA IssRateType ==
    ASSUME TypeOK, NEW supply \in Nat
    PROVE  IssRate(supply) \in Nat \ {0}
<1>1. CASE lastIssRateBlock < block
  <2>1. issuanceRate * supply \in Nat
    BY MulNat DEF TypeOK
  <2>2. (issuanceRate * supply) \div FIX_ONE \in Nat
    BY <2>1, ConstantTypes, DivFloor
  <2> QED BY <1>1, <2>2, ConstantTypes DEF IssRate, fixMax
<1>2. CASE ~(lastIssRateBlock < block)
  BY <1>2 DEF IssRate, TypeOK
<1> QED BY <1>1, <1>2

\* A new issuance finishes after all others.
LEMMA whenFinishedType ==
    ASSUME TypeOK, NEW amtRToken \in Nat \ {0}, NEW supply \in Nat
    PROVE  whenFinished(amtRToken, supply) \in Nat /\ allVestAt < whenFinished(amtRToken, supply)
<1>1. FIX_ONE * amtRToken \in Nat /\ FIX_ONE * amtRToken > 0
  BY ConstantTypes, SMT
<1>2. /\ DivUp(FIX_ONE * amtRToken, IssRate(supply)) \in Nat
      /\ DivUp(FIX_ONE * amtRToken, IssRate(supply)) > 0
  BY <1>1, IssRateType, DivUpBounds, DivUpPositive
<1>3. FIX_ONE * (block - 1) \in Nat
  BY ConstantTypes, MulNat DEF TypeOK
<1>4. allVestAt \in Nat
  BY DEF TypeOK
<1>5. fixMax(allVestAt, FIX_ONE * (block - 1)) \in Nat
      /\ allVestAt <= fixMax(allVestAt, FIX_ONE * (block - 1))
  BY <1>3, <1>4 DEF fixMax
<1> QED BY <1>2, <1>4, <1>5 DEF whenFinished

\* The baskets of an issuance.
LEMMA BasketsForType ==
    ASSUME TypeOK, NEW amtRToken \in Nat, NEW supply \in Nat
    PROVE  BasketsFor(amtRToken, supply) \in Nat
<1>1. basketsNeeded * amtRToken \in Nat
  BY MulNat DEF TypeOK
<1>2. CASE supply > 0
  BY <1>1, <1>2, DivFloor DEF BasketsFor
<1> QED BY <1>2 DEF BasketsFor

\* What a discharged battery holds.
LEMMA DischargeType ==
    ASSUME NEW b \in Battery, NEW s \in Nat, NEW amt \in Nat, NEW n \in Nat,
           b.lastBlock <= n, Dischargeable(b, s, amt, n)
    PROVE  discharge(b, s, amt, n) \in Battery /\ discharge(b, s, amt, n).lastBlock <= n
<1>1. /\ b.redemptionRateFloor \in Nat /\ b.scalingRedemptionRate \in Nat
      /\ b.lastBlock \in Nat /\ b.lastCharge \in Nat
  BY DEF Battery
<1>2. amtPerHour(b, s) \in Nat
  <2>1. s * b.scalingRedemptionRate \in Nat
    BY <1>1, MulNat
  <2>2. (s * b.scalingRedemptionRate) \div FIX_ONE \in Nat
    BY <2>1, ConstantTypes, DivFloor
  <2> QED BY <1>1, <2>2 DEF amtPerHour, fixMax
<1>3. Recharge(b, s, n) \in Nat
  <2>1. n - b.lastBlock \in Nat
    BY <1>1
  <2>2. amtPerHour(b, s) * (n - b.lastBlock) \in Nat
    BY <1>2, <2>1, MulNat
  <2> QED BY <2>2, ConstantTypes, DivFloor DEF Recharge
<1>4. currentCharge(b, s, n) \in Nat
  BY <1>1, <1>2, <1>3 DEF currentCharge, fixMin
<1>5. CASE Unthrottled(b)
  BY <1>5 DEF discharge
<1>6. CASE ~Unthrottled(b)
  <2> DEFINE c == currentCharge(b, s, n) - amt
             d == discharge(b, s, amt, n)
  <2>1. c \in Nat
    BY <1>4, <1>6 DEF Dischargeable
  <2>2. d = [b EXCEPT !.lastBlock = n, !.lastCharge = c]
    BY <1>6 DEF discharge
  <2> HIDE DEF c, d
  <2>3. d \in Battery /\ d.lastBlock = n
    BY <2>1, <2>2 DEF Battery
  <2> QED BY <2>3 DEF d
<1> QED BY <1>5, <1>6

\* What the supply is after a melt.
LEMMA MeltType ==
    ASSUME TypeOK, NEW melted \in 0 .. totalSupply
    PROVE  totalSupply - melted \in Nat
  BY DEF TypeOK

----------------------------------------------------------------------
\* Steps that leave the queues and the basket alone

\* Governance, blocks, pausing and freezing.
LEMMA SettersKeepIInv ==
    ASSUME IInv,
           \/ \E r \in IssuanceRates : setIssuanceRate(r)
           \/ \E r \in Rates : setScalingRedemptionRate(r)
           \/ \E f \in Floors : setRedemptionRateFloor(f)
           \/ NextBlock \/ SetAccess
    PROVE  IInv'
<1> USE DEF supplyVars, vestVars, collVars, basketVars
<1>1. ASSUME NEW r \in IssuanceRates, setIssuanceRate(r) PROVE IInv'
  <2>1. UNCHANGED <<queues, allVestAt, nonce, quantity, status>>
    BY <1>1 DEF setIssuanceRate
  <2>2. issuanceRate' \in 1 .. FIX_ONE
    BY <1>1, ConstantTypes DEF setIssuanceRate
  <2>3. TypeOK'
    BY <1>1, <2>2 DEF IInv, TypeOK, setIssuanceRate
  <2>4. LiabilitiesCovered'
    BY <1>1 DEF IInv, LiabilitiesCovered, setIssuanceRate
  <2> QED BY <2>1, <2>3, <2>4, QuietQueues DEF IInv
<1>2. ASSUME NEW r \in Rates, setScalingRedemptionRate(r) PROVE IInv'
  <2>1. UNCHANGED <<queues, allVestAt, nonce, quantity, status>>
    BY <1>2 DEF setScalingRedemptionRate
  <2>2. battery' \in Battery /\ battery'.lastBlock <= block
    <3>1. battery \in Battery /\ battery.lastBlock <= block /\ r \in Nat
      BY ConstantTypes DEF IInv, TypeOK
    <3>2. battery' = [battery EXCEPT !.scalingRedemptionRate = r]
      BY <1>2 DEF setScalingRedemptionRate
    <3> QED BY <3>1, <3>2 DEF Battery
  <2>3. TypeOK'
    BY <1>2, <2>2 DEF IInv, TypeOK, setScalingRedemptionRate
  <2>4. LiabilitiesCovered'
    BY <1>2 DEF IInv, LiabilitiesCovered, setScalingRedemptionRate
  <2> QED BY <2>1, <2>3, <2>4, QuietQueues DEF IInv
<1>3. ASSUME NEW f \in Floors, setRedemptionRateFloor(f) PROVE IInv'
  <2>1. UNCHANGED <<queues, allVestAt, nonce, quantity, status>>
    BY <1>3 DEF setRedemptionRateFloor
  <2>2. battery' \in Battery /\ battery'.lastBlock <= block
    <3>1. battery \in Battery /\ battery.lastBlock <= block /\ f \in Nat
      BY ConstantTypes DEF IInv, TypeOK
    <3>2. battery' = [battery EXCEPT !.redemptionRateFloor = f]
      BY <1>3 DEF setRedemptionRateFloor
    <3> QED BY <3>1, <3>2 DEF Battery
  <2>3. TypeOK'
    BY <1>3, <2>2 DEF IInv, TypeOK, setRedemptionRateFloor
  <2>4. LiabilitiesCovered'
    BY <1>3 DEF IInv, LiabilitiesCovered, setRedemptionRateFloor
  <2> QED BY <2>1, <2>3, <2>4, QuietQueues DEF IInv
<1>4. ASSUME NextBlock PROVE IInv'
  <2>1. UNCHANGED <<queues, allVestAt, nonce, quantity, status>>
    BY <1>4 DEF NextBlock
  <2>2. battery.lastBlock \in Nat
    BY DEF IInv, TypeOK, Battery
  <2>3. TypeOK'
    BY <1>4, <2>2 DEF IInv, TypeOK, NextBlock
  <2>4. LiabilitiesCovered'
    BY <1>4 DEF IInv, LiabilitiesCovered, NextBlock
  <2> QED BY <2>1, <2>3, <2>4, QuietQueues DEF IInv
<1>5. ASSUME SetAccess PROVE IInv'
  <2>1. UNCHANGED <<queues, allVestAt, nonce, quantity, status>>
    BY <1>5 DEF SetAccess
  <2>3. TypeOK'
    BY <1>5 DEF IInv, TypeOK, SetAccess
  <2>4. LiabilitiesCovered'
    BY <1>5 DEF IInv, LiabilitiesCovered, SetAccess
  <2> QED BY <2>1, <2>3, <2>4, QuietQueues DEF IInv
<1> QED BY <1>1, <1>2, <1>3, <1>4, <1>5

\* Tokens sent to the contracts, and trades.
LEMMA TransfersKeepIInv ==
    ASSUME IInv,
           \/ \E t \in Tokens, n \in 1 .. MaxAuction : Donate(t, n)
           \/ \E s, b \in Tokens, x, y \in 0 .. MaxAuction : Auction(s, b, x, y)
    PROVE  IInv'
<1> USE DEF supplyVars, vestVars, collVars, basketVars
<1>1. wallet \in Quantities /\ escrow \in Quantities /\ backing \in Quantities
      /\ liabilities \in Quantities /\ Covers(escrow, liabilities)
  BY DEF IInv, TypeOK, LiabilitiesCovered
<1>2. ASSUME NEW t \in Tokens, NEW n \in 1 .. MaxAuction, Donate(t, n) PROVE IInv'
  <2>1. UNCHANGED <<queues, allVestAt, nonce, quantity, status>>
    BY <1>2 DEF Donate
  <2>2. n \in Nat /\ n <= wallet[t] /\ wallet' = [wallet EXCEPT ![t] = @ - n]
    BY <1>2, ConstantTypes DEF Donate
  <2>3. wallet' \in Quantities
    BY <1>1, <2>2 DEF Quantities
  <2>4. escrow' \in Quantities /\ backing' \in Quantities /\ Covers(escrow', liabilities)
    <3>1. CASE escrow' = [escrow EXCEPT ![t] = @ + n] /\ backing' = backing
      BY <1>1, <2>2, <3>1 DEF Quantities, Covers
    <3>2. CASE backing' = [backing EXCEPT ![t] = @ + n] /\ escrow' = escrow
      BY <1>1, <2>2, <3>2 DEF Quantities
    <3> QED BY <1>2, <3>1, <3>2 DEF Donate
  <2>5. TypeOK'
    BY <1>2, <2>3, <2>4 DEF IInv, TypeOK, Donate
  <2>6. LiabilitiesCovered'
    BY <1>2, <2>4 DEF LiabilitiesCovered, Donate
  <2> QED BY <2>1, <2>5, <2>6, QuietQueues DEF IInv
<1>3. ASSUME NEW s \in Tokens, NEW b \in Tokens, NEW x \in 0 .. MaxAuction,
             NEW y \in 0 .. MaxAuction, Auction(s, b, x, y)
      PROVE  IInv'
  <2>1. UNCHANGED <<queues, allVestAt, nonce, quantity, status>>
    BY <1>3 DEF Auction
  <2>2. /\ x \in Nat /\ y \in Nat /\ s # b /\ x <= backing[s] /\ y <= wallet[b]
        /\ backing' = [backing EXCEPT ![s] = @ - x, ![b] = @ + y]
        /\ wallet' = [wallet EXCEPT ![s] = @ + x, ![b] = @ - y]
    BY <1>3, ConstantTypes DEF Auction
  <2>3. wallet' \in Quantities
    BY <1>1, <2>2 DEF Quantities
  <2>4. backing' \in Quantities
    BY <1>1, <2>2 DEF Quantities
  <2>5. TypeOK'
    BY <1>3, <2>3, <2>4 DEF IInv, TypeOK, Auction
  <2>6. LiabilitiesCovered'
    BY <1>1, <1>3 DEF LiabilitiesCovered, Auction
  <2> QED BY <2>1, <2>5, <2>6, QuietQueues DEF IInv
<1> QED BY <1>2, <1>3

----------------------------------------------------------------------
\* Changes of the basket

\* Deposits for a basket are enough for a cheaper one.
LEMMA CheaperBacked ==
    ASSUME NEW q \in IssueQueue, NEW end, QueueOrdered(q, end),
           NEW quantities \in Quantities, NEW cheaper \in Quantities,
           Covers(quantities, cheaper), QueueBacked(q, quantities)
    PROVE  QueueBacked(q, cheaper)
<1> SUFFICES ASSUME NEW i \in q.left .. Len(q.items), NEW j \in q.left .. Len(q.items), i <= j,
                    NEW t \in Tokens
             PROVE  cheaper[t] * SpanBaskets(q, i, j) <= FIX_ONE * SpanDeposits(q, i, j)[t]
  BY DEF QueueBacked
<1>1. q.left \in Nat /\ Len(q.items) \in Nat /\ FIX_ONE \in Nat
  BY QueueFields, ConstantTypes
<1>2. i \in 0 .. Len(q.items) /\ j \in 0 .. Len(q.items)
  BY <1>1
<1>3. SpanBaskets(q, i, j) \in Nat /\ SpanDeposits(q, i, j) \in Quantities
  BY <1>2, SpanType
<1>4. /\ quantities[t] \in Nat /\ cheaper[t] \in Nat /\ cheaper[t] <= quantities[t]
      /\ SpanDeposits(q, i, j)[t] \in Nat
  BY <1>3 DEF Quantities, Covers
<1>5. cheaper[t] * SpanBaskets(q, i, j) <= quantities[t] * SpanBaskets(q, i, j)
  BY <1>3, <1>4, MulMono
<1>6. quantities[t] * SpanBaskets(q, i, j) <= FIX_ONE * SpanDeposits(q, i, j)[t]
  BY DEF QueueBacked
<1>7. /\ cheaper[t] * SpanBaskets(q, i, j) \in Nat /\ quantities[t] * SpanBaskets(q, i, j) \in Nat
      /\ FIX_ONE * SpanDeposits(q, i, j)[t] \in Nat
  BY <1>1, <1>3, <1>4, MulNat
<1> QED BY <1>5, <1>6, <1>7

\* A switch of the basket, a change of its status, appreciation.
LEMMA BasketStepsKeepIInv ==
    ASSUME IInv, SwitchBasket \/ SetStatus \/ Appreciate
    PROVE  IInv'
<1> USE DEF supplyVars, vestVars, collVars, basketVars
<1>1. UNCHANGED <<queues, allVestAt, escrow, liabilities>>
  BY DEF SwitchBasket, SetStatus, Appreciate
<1>2. LiabilitiesCovered' /\ OneSchedule'
  BY <1>1 DEF IInv, LiabilitiesCovered, OneSchedule
<1>3. CASE SwitchBasket
  <2>1. nonce \in Nat /\ nonce' = nonce + 1 /\ quantity' \in Baskets[nonce'] /\ nonce' \in DOMAIN Baskets
        /\ status' \in {"SOUND", "IFFY"}
    BY <1>3 DEF SwitchBasket, IInv, TypeOK
  <2>2. quantity' \in Quantities
    BY <2>1, BasketAssumption
  <2>3. TypeOK'
    BY <1>3, <2>1, <2>2 DEF IInv, TypeOK, Statuses, SwitchBasket
  <2>4. \A a \in Accounts : queues[a].basketNonce \in Nat /\ queues[a].basketNonce <= nonce
    BY QueueFields DEF IInv, TypeOK, NoncesOK
  <2>5. QueuesOK'
    BY <1>1, <2>1, <2>4 DEF IInv, QueuesOK
  <2>6. NoncesOK'
    BY <1>1, <2>1, <2>4 DEF IInv, NoncesOK
  <2> QED BY <1>2, <2>3, <2>5, <2>6 DEF IInv
<1>4. CASE SetStatus
  <2>1. status # "DISABLED" /\ status' \in Statuses /\ UNCHANGED <<nonce, quantity>>
    BY <1>4 DEF SetStatus
  <2>2. TypeOK'
    BY <1>4, <2>1 DEF IInv, TypeOK, SetStatus
  <2>3. QueuesOK' /\ NoncesOK'
    BY <1>1, <2>1 DEF IInv, QueuesOK, NoncesOK
  <2> QED BY <1>2, <2>2, <2>3 DEF IInv
<1>5. CASE Appreciate
  <2>1. /\ nonce' = nonce /\ status' = status /\ quantity \in Quantities
        /\ quantity' \in Quantities /\ Covers(quantity, quantity')
    BY <1>5, BasketAssumption DEF Appreciate, IInv, TypeOK
  <2>2. TypeOK'
    BY <1>5, <2>1 DEF IInv, TypeOK, Appreciate
  <2>3. NoncesOK'
    BY <1>1, <2>1 DEF IInv, NoncesOK
  <2>4. ASSUME NEW a \in Accounts
        PROVE  /\ QueueOrdered(queues[a], allVestAt)
               /\ queues[a].basketNonce = nonce => QueueBacked(queues[a], quantity')
    <3>1. queues[a] \in IssueQueue /\ QueueOrdered(queues[a], allVestAt)
      BY DEF IInv, TypeOK, QueuesOK
    <3>2. queues[a].basketNonce = nonce => QueueBacked(queues[a], quantity)
      BY DEF IInv, QueuesOK
    <3> QED BY <2>1, <3>1, <3>2, CheaperBacked
  <2>5. QueuesOK'
    BY <1>1, <2>1, <2>4 DEF QueuesOK
  <2> QED BY <1>2, <2>2, <2>3, <2>5 DEF IInv
<1> QED BY <1>3, <1>4, <1>5

\* Collateral that appreciates does not unback the RToken.
LEMMA AppreciateKeepsBacking ==
    ASSUME TypeOK, Appreciate, Backed
    PROVE  Backed'
<1>1. /\ quantity \in Quantities /\ quantity' \in Quantities /\ Covers(quantity, quantity')
      /\ UNCHANGED <<backing, basketsNeeded>>
  BY BasketAssumption DEF Appreciate, TypeOK, supplyVars, collVars
<1>2. basketsNeeded \in Nat /\ backing \in Quantities /\ FIX_ONE \in Nat
  BY ConstantTypes DEF TypeOK
<1>3. ASSUME NEW t \in Tokens
      PROVE  basketsNeeded * quantity'[t] <= backing[t] * FIX_ONE
  <2>1. /\ quantity[t] \in Nat /\ quantity'[t] \in Nat /\ quantity'[t] <= quantity[t]
        /\ backing[t] \in Nat
    BY <1>1, <1>2 DEF Quantities, Covers
  <2>2. basketsNeeded * quantity'[t] <= basketsNeeded * quantity[t]
    BY <1>2, <2>1, MulMono
  <2>3. basketsNeeded * quantity[t] <= backing[t] * FIX_ONE
    BY DEF Backed, Holds
  <2>4. /\ basketsNeeded * quantity'[t] \in Nat /\ basketsNeeded * quantity[t] \in Nat
        /\ backing[t] * FIX_ONE \in Nat
    BY <1>2, <2>1, MulNat
  <2> QED BY <2>2, <2>3, <2>4
<1> QED BY <1>1, <1>3 DEF Backed, Holds

----------------------------------------------------------------------
\* Redemption

\* Multiplication by a positive number keeps order both ways.
LEMMA MulCancelWeak ==
    ASSUME NEW x \in Nat, NEW y \in Nat, NEW c \in Nat \ {0}, x * c <= y * c
    PROVE  x <= y
<1>1. x * c \in Nat /\ y * c \in Nat
  BY MulNat
<1>2. CASE y + 1 <= x
  <2>1. (y + 1) * c <= x * c
    BY <1>2, MulMono
  <2>2. (y + 1) * c = y * c + c
    BY SMT
  <2> QED BY <1>1, <2>1, <2>2
<1> QED BY <1>2

\* The factors of a product can be taken in any order.
LEMMA MulAssoc ==
    ASSUME NEW x \in Nat, NEW y \in Nat, NEW z \in Nat
    PROVE  (x * y) * z = (x * z) * y /\ (x * y) * z = (y * z) * x
  BY SMT

\* A share p / fix, rounded down, of b is no more than the exact share.
LEMMA ShareBound ==
    ASSUME NEW a \in Nat, NEW b \in Nat, NEW amt \in Nat, NEW supply \in Nat, NEW p \in Nat,
           NEW fix \in Nat \ {0}, p * supply <= fix * amt, a * fix <= p * b
    PROVE  a * supply <= amt * b
<1>1. /\ a * fix \in Nat /\ p * b \in Nat /\ p * supply \in Nat /\ fix * amt \in Nat
      /\ a * supply \in Nat /\ amt * b \in Nat
  BY MulNat
<1>2. (a * fix) * supply <= (p * b) * supply
  BY <1>1, MulMono
<1>3. (p * supply) * b <= (fix * amt) * b
  BY <1>1, MulMono
<1>4. (a * fix) * supply = (a * supply) * fix /\ (p * b) * supply = (p * supply) * b
      /\ (fix * amt) * b = (amt * b) * fix
  BY MulAssoc
<1>5. (a * supply) * fix \in Nat /\ (p * supply) * b \in Nat /\ (amt * b) * fix \in Nat
  BY <1>1, MulNat
<1>6. (a * supply) * fix <= (amt * b) * fix
  BY <1>2, <1>3, <1>4, <1>5
<1> QED BY <1>1, <1>6, MulCancelWeak

\* Taking a share of amt / supply out of b leaves enough for the rest.
LEMMA ShareLeaves ==
    ASSUME NEW a \in Nat, NEW b \in Nat, NEW amt \in Nat, NEW supply \in Nat, NEW total \in Nat,
           a <= b, amt <= supply, supply <= total, a * supply <= amt * b
    PROVE  (b - a) * total >= b * (supply - amt)
<1>1. b - a \in Nat /\ supply - amt \in Nat
  OBVIOUS
<1>2. (b - a) * supply <= (b - a) * total
  BY <1>1, MulMono
<1>3. (b - a) * supply = b * supply - a * supply
  BY SMT
<1>4. b * (supply - amt) = b * supply - amt * b
  BY SMT
<1>5. /\ (b - a) * supply \in Nat /\ (b - a) * total \in Nat /\ b * supply \in Nat
      /\ a * supply \in Nat /\ amt * b \in Nat
  BY <1>1, MulNat
<1> QED BY <1>2, <1>3, <1>4, <1>5

\* What a redemption pays is within the quote and within the share of the supply.
LEMMA RedemptionAmountsType ==
    ASSUME TypeOK, NEW amt \in Nat \ {0}, NEW supply \in Nat, amt <= supply,
           NEW baskets \in Nat
    PROVE  LET amounts == RedemptionAmounts(amt, supply, baskets) IN
           /\ amounts \in Quantities
           /\ \A t \in Tokens : /\ FIX_ONE * amounts[t] <= quantity[t] * baskets
                                /\ amounts[t] * supply <= amt * backing[t]
<1> DEFINE prorate == (FIX_ONE * amt) \div supply
           amounts == RedemptionAmounts(amt, supply, baskets)
<1>1. FIX_ONE \in Nat \ {0} /\ supply \in Nat \ {0} /\ quantity \in Quantities
      /\ backing \in Quantities
  BY ConstantTypes DEF TypeOK
<1>2. prorate \in Nat /\ prorate * supply <= FIX_ONE * amt
  <2>1. FIX_ONE * amt \in Nat
    BY <1>1, MulNat
  <2> QED BY <1>1, <2>1, DivFloor
<1> HIDE DEF prorate
<1>3. ASSUME NEW t \in Tokens
      PROVE  /\ amounts[t] \in Nat
             /\ FIX_ONE * amounts[t] <= quantity[t] * baskets
             /\ amounts[t] * supply <= amt * backing[t]
  <2> DEFINE share == (prorate * backing[t]) \div FIX_ONE
             quote == QuoteDown(baskets)[t]
             a     == amounts[t]
  <2>1. backing[t] \in Nat /\ quantity[t] \in Nat
    BY <1>1 DEF Quantities
  <2>2. quote \in Nat /\ FIX_ONE * quote <= quantity[t] * baskets
    BY <1>1, QuoteDownType DEF Quantities
  <2>3. share \in Nat /\ share * FIX_ONE <= prorate * backing[t]
    <3>1. prorate * backing[t] \in Nat
      BY <1>2, <2>1, MulNat
    <3> QED BY <1>1, <3>1, DivFloor
  <2>4. a = fixMin(quote, share)
    BY DEF RedemptionAmounts, prorate
  <2> HIDE DEF share, quote, a
  <2>5. a \in Nat /\ a <= quote /\ a <= share
    BY <2>2, <2>3, <2>4 DEF fixMin
  <2>6. FIX_ONE * a <= FIX_ONE * quote
    BY <1>1, <2>2, <2>5, MulMono
  <2>7. a * FIX_ONE <= share * FIX_ONE
    BY <1>1, <2>3, <2>5, MulMono
  <2>8. /\ FIX_ONE * a \in Nat /\ FIX_ONE * quote \in Nat /\ quantity[t] * baskets \in Nat
        /\ a * FIX_ONE \in Nat /\ share * FIX_ONE \in Nat /\ prorate * backing[t] \in Nat
    BY <1>1, <1>2, <2>1, <2>2, <2>3, <2>5, MulNat
  <2>9. FIX_ONE * a <= quantity[t] * baskets
    BY <2>2, <2>6, <2>8
  <2>10. a * FIX_ONE <= prorate * backing[t]
    BY <2>3, <2>7, <2>8
  <2>11. a * supply <= amt * backing[t]
    BY <1>1, <1>2, <2>1, <2>5, <2>10, ShareBound
  <2> QED BY <2>5, <2>9, <2>11 DEF a
<1>4. amounts \in Quantities
  BY <1>3 DEF RedemptionAmounts, Quantities
<1> QED BY <1>3, <1>4

\* redeem() keeps the invariant and the backing, and dilutes nobody.
LEMMA RedeemStep ==
    ASSUME IInv, NEW m \in 0 .. totalSupply, NEW amt \in 1 .. totalSupply - m, Redeem(amt, m)
    PROVE  /\ IInv' /\ (Backed => Backed')
           /\ totalSupply' < totalSupply /\ UNCHANGED queues
           /\ \A t \in Tokens : backing'[t] * totalSupply >= backing[t] * totalSupply'
           /\ basketsNeeded' * totalSupply >= basketsNeeded * totalSupply'
<1> DEFINE supply  == totalSupply - m
           baskets == (basketsNeeded * amt) \div supply
           amounts == RedemptionAmounts(amt, supply, baskets)
<1>1. /\ totalSupply \in Nat /\ basketsNeeded \in Nat /\ supply \in Nat \ {0}
      /\ amt \in Nat \ {0} /\ amt <= supply /\ supply <= totalSupply
      /\ FIX_ONE \in Nat \ {0}
      /\ wallet \in Quantities /\ backing \in Quantities /\ quantity \in Quantities
  BY ConstantTypes DEF IInv, TypeOK
<1>2. /\ Dischargeable(battery, supply, amt, block)
      /\ battery' = discharge(battery, supply, amt, block)
      /\ totalSupply' = supply - amt
      /\ basketsNeeded' = basketsNeeded - baskets
      /\ Covers(backing, amounts)
      /\ backing' = Minus(backing, amounts)
      /\ wallet' = Plus(wallet, amounts)
      /\ UNCHANGED <<queues, liabilities, vestVars, issuanceRate, escrow, basketVars,
                     block, access>>
  BY DEF Redeem
<1> HIDE DEF supply
<1>3. baskets \in Nat /\ baskets * supply <= basketsNeeded * amt
  <2>1. basketsNeeded * amt \in Nat
    BY <1>1, MulNat
  <2> QED BY <1>1, <2>1, DivFloor
<1> HIDE DEF baskets
<1>4. baskets <= basketsNeeded
  <2>1. basketsNeeded * amt <= basketsNeeded * supply
    BY <1>1, MulMono
  <2>2. /\ baskets * supply \in Nat /\ basketsNeeded * amt \in Nat
        /\ basketsNeeded * supply \in Nat
    BY <1>1, <1>3, MulNat
  <2>3. baskets * supply <= basketsNeeded * supply
    BY <1>3, <2>1, <2>2
  <2> QED BY <1>1, <1>3, <2>3, MulCancelWeak
<1>5. /\ amounts \in Quantities
      /\ \A t \in Tokens : /\ FIX_ONE * amounts[t] <= quantity[t] * baskets
                           /\ amounts[t] * supply <= amt * backing[t]
  BY <1>1, <1>3, RedemptionAmountsType DEF IInv
<1> HIDE DEF amounts
<1>6. TypeOK'
  <2>1. battery' \in Battery /\ battery'.lastBlock <= block
    BY <1>1, <1>2, DischargeType DEF IInv, TypeOK
  <2>2. totalSupply' \in Nat /\ basketsNeeded' \in Nat
    BY <1>1, <1>2, <1>3, <1>4
  <2>3. wallet' \in Quantities /\ backing' \in Quantities
    BY <1>1, <1>2, <1>5, PlusType, MinusType
  <2> QED BY <1>2, <2>1, <2>2, <2>3 DEF IInv, TypeOK, vestVars, basketVars
<1>7. LiabilitiesCovered'
  BY <1>2 DEF IInv, LiabilitiesCovered
<1>8. IInv'
  BY <1>2, <1>6, <1>7, QuietQueues DEF IInv, vestVars, basketVars
<1>9. ASSUME Backed, NEW t \in Tokens
      PROVE  basketsNeeded' * quantity[t] <= backing'[t] * FIX_ONE
  <2>1. /\ quantity[t] \in Nat /\ backing[t] \in Nat /\ amounts[t] \in Nat
        /\ amounts[t] <= backing[t] /\ backing'[t] = backing[t] - amounts[t]
    BY <1>1, <1>2, <1>5 DEF Quantities, Covers, Minus
  <2>2. basketsNeeded * quantity[t] <= backing[t] * FIX_ONE
    BY <1>9 DEF Backed, Holds
  <2>3. FIX_ONE * amounts[t] <= quantity[t] * baskets
    BY <1>5
  <2>4. (basketsNeeded - baskets) * quantity[t] = basketsNeeded * quantity[t] - quantity[t] * baskets
    BY <1>1, <1>3, <2>1, SMT
  <2>5. (backing[t] - amounts[t]) * FIX_ONE = backing[t] * FIX_ONE - FIX_ONE * amounts[t]
    BY <1>1, <2>1, SMT
  <2>6. /\ basketsNeeded * quantity[t] \in Nat /\ quantity[t] * baskets \in Nat
        /\ backing[t] * FIX_ONE \in Nat /\ FIX_ONE * amounts[t] \in Nat
    BY <1>1, <1>3, <2>1, MulNat
  <2>7. (basketsNeeded - baskets) * quantity[t] <= (backing[t] - amounts[t]) * FIX_ONE
    BY <2>2, <2>3, <2>4, <2>5, <2>6
  <2> QED BY <1>2, <2>1, <2>7
<1>10. Backed => Backed'
  BY <1>2, <1>9 DEF Backed, Holds, basketVars
<1>11. ASSUME NEW t \in Tokens
       PROVE  backing'[t] * totalSupply >= backing[t] * totalSupply'
  <2>1. /\ backing[t] \in Nat /\ amounts[t] \in Nat
        /\ amounts[t] <= backing[t] /\ backing'[t] = backing[t] - amounts[t]
        /\ amounts[t] * supply <= amt * backing[t]
    BY <1>1, <1>2, <1>5 DEF Quantities, Covers, Minus
  <2>2. (backing[t] - amounts[t]) * totalSupply >= backing[t] * (supply - amt)
    BY <1>1, <2>1, ShareLeaves
  <2> QED BY <1>2, <2>1, <2>2
<1>12. basketsNeeded' * totalSupply >= basketsNeeded * totalSupply'
  <2>1. baskets * supply <= amt * basketsNeeded
    BY <1>1, <1>3, MulNat
  <2>2. (basketsNeeded - baskets) * totalSupply >= basketsNeeded * (supply - amt)
    BY <1>1, <1>3, <1>4, <2>1, ShareLeaves
  <2> QED BY <1>2, <2>2
<1>13. totalSupply' < totalSupply
  BY <1>1, <1>2
<1> QED BY <1>2, <1>8, <1>10, <1>11, <1>12, <1>13

\* Melting takes supply only.
LEMMA MeltStep ==
    ASSUME IInv, NEW amt \in 1 .. totalSupply, Melt(amt)
    PROVE  /\ IInv' /\ totalSupply' <= totalSupply
           /\ UNCHANGED <<basketsNeeded, backing, nonce, quantity, queues>>
<1> USE DEF supplyVars, vestVars, collVars, basketVars
<1>1. totalSupply' \in Nat /\ totalSupply' <= totalSupply
  BY DEF Melt, Meltable, IInv, TypeOK
<1>2. TypeOK'
  BY <1>1 DEF Melt, IInv, TypeOK
<1>3. LiabilitiesCovered'
  BY DEF Melt, IInv, LiabilitiesCovered
<1>4. UNCHANGED <<queues, allVestAt, nonce, quantity, status>>
  BY DEF Melt
<1>5. IInv'
  BY <1>2, <1>3, <1>4, QuietQueues DEF IInv
<1> QED BY <1>1, <1>5 DEF Melt

\* A sweep leaves what is owed to the issuers.
LEMMA SweepRewardsStep ==
    ASSUME IInv, NEW tokens \in SUBSET Tokens, SweepRewards(tokens)
    PROVE  /\ IInv' /\ Covers(backing', backing)
           /\ UNCHANGED <<totalSupply, basketsNeeded, nonce, quantity, queues>>
<1> USE DEF supplyVars, vestVars, collVars, basketVars
<1> DEFINE swept == [t \in Tokens |-> IF t \in tokens THEN Excess(t) ELSE 0]
<1>1. /\ escrow \in Quantities /\ backing \in Quantities /\ liabilities \in Quantities
      /\ Covers(escrow, liabilities)
  BY DEF IInv, TypeOK, LiabilitiesCovered
<1>2. /\ escrow' = Minus(escrow, swept) /\ backing' = Plus(backing, swept)
      /\ UNCHANGED <<supplyVars, queues, liabilities, vestVars, issuanceRate, battery,
                     wallet, basketVars, block, access>>
  BY DEF SweepRewards
<1>3. /\ swept \in Quantities /\ Covers(escrow, swept)
      /\ \A t \in Tokens : swept[t] <= escrow[t] - liabilities[t]
  BY <1>1 DEF Excess, Quantities, Covers
<1> HIDE DEF swept
<1>4. /\ escrow' \in Quantities /\ backing' \in Quantities /\ Covers(backing', backing)
  BY <1>1, <1>2, <1>3, PlusType, MinusType
<1>5. Covers(escrow', liabilities)
  BY <1>1, <1>2, <1>3 DEF Covers, Minus, Quantities
<1>6. TypeOK'
  BY <1>2, <1>4 DEF IInv, TypeOK
<1>7. LiabilitiesCovered'
  BY <1>2, <1>5 DEF LiabilitiesCovered
<1>8. IInv'
  BY <1>2, <1>6, <1>7, QuietQueues DEF IInv
<1> QED BY <1>2, <1>4, <1>8

----------------------------------------------------------------------
\* Revenue and the haircut

\* The baskets held are a number.
LEMMA HeldOfType ==
    ASSUME TypeOK, NEW held \in HeldOf
    PROVE  held \in Nat
<1>1. PICK t \in {u \in Tokens : quantity[u] > 0} : held = (backing[t] * FIX_ONE) \div quantity[t]
  BY DEF HeldOf
<1>2. quantity[t] \in Nat \ {0} /\ backing[t] \in Nat
  BY <1>1 DEF TypeOK, Quantities
<1>3. backing[t] * FIX_ONE \in Nat
  BY <1>2, ConstantTypes, MulNat
<1> QED BY <1>1, <1>2, <1>3, DivFloor

\* After any part of the surplus is gone the needed baskets are still held.
LEMMA SurplusLeavesBaskets ==
    ASSUME TypeOK, NEW needed \in Nat, Holds(needed), NEW t \in Tokens
    PROVE  /\ Surplus(t, needed) \in Nat
           /\ \A s \in Nat : s <= Surplus(t, needed) =>
                 /\ s <= backing[t]
                 /\ needed * quantity[t] <= (backing[t] - s) * FIX_ONE
<1> DEFINE a == needed * (FIX_ONE + backingBuffer)
           buffered == DivRound(a, FIX_ONE)
           kept == DivUp(buffered * quantity[t], FIX_ONE)
<1>1. /\ FIX_ONE \in Nat \ {0} /\ backingBuffer \in Nat /\ backing[t] \in Nat
      /\ quantity[t] \in Nat
  BY ConstantTypes DEF TypeOK, Quantities
<1>2. a \in Nat /\ needed * FIX_ONE <= a
  <2>1. FIX_ONE + backingBuffer \in Nat /\ FIX_ONE <= FIX_ONE + backingBuffer
    BY <1>1
  <2> QED BY <1>1, <2>1, MulNat, MulMono
<1> HIDE DEF a
<1>3. buffered \in Nat /\ needed <= buffered
  <2>1. buffered \in Nat /\ a + FIX_ONE \div 2 < buffered * FIX_ONE + FIX_ONE
    BY <1>1, <1>2, DivRoundBounds
  <2> HIDE DEF buffered
  <2>2. FIX_ONE \div 2 \in Nat
    BY <1>1, DivFloor
  <2>3. (buffered + 1) * FIX_ONE = buffered * FIX_ONE + FIX_ONE
    BY <1>1, <2>1, SMT
  <2>4. needed * FIX_ONE \in Nat /\ buffered * FIX_ONE \in Nat
    BY <1>1, <2>1, MulNat
  <2>5. needed * FIX_ONE < (buffered + 1) * FIX_ONE
    BY <1>1, <1>2, <2>1, <2>2, <2>3, <2>4
  <2>6. needed < buffered + 1
    BY <1>1, <2>1, <2>5, MulCancel
  <2> QED BY <2>1, <2>6
<1> HIDE DEF buffered
<1>4. buffered * quantity[t] \in Nat /\ needed * quantity[t] <= buffered * quantity[t]
      /\ needed * quantity[t] \in Nat
  BY <1>1, <1>3, MulNat, MulMono
<1>5. kept \in Nat /\ needed * quantity[t] <= kept * FIX_ONE
  <2>1. kept \in Nat /\ buffered * quantity[t] <= kept * FIX_ONE
    BY <1>1, <1>4, DivUpBounds
  <2>2. kept * FIX_ONE \in Nat
    BY <1>1, <2>1, MulNat
  <2> QED BY <1>4, <2>1, <2>2
<1>6. Surplus(t, needed) = fixMax(0, backing[t] - kept)
  BY DEF Surplus, kept, buffered, a
<1> HIDE DEF kept
<1>7. Surplus(t, needed) \in Nat
  BY <1>1, <1>5, <1>6 DEF fixMax
<1>8. ASSUME NEW s \in Nat, s <= Surplus(t, needed)
      PROVE  /\ s <= backing[t]
             /\ needed * quantity[t] <= (backing[t] - s) * FIX_ONE
  <2>1. CASE s = 0
    BY <1>1, <2>1 DEF Holds
  <2>2. CASE s # 0
    <3>1. s <= backing[t] - kept
      BY <1>1, <1>5, <1>6, <1>8, <2>2 DEF fixMax
    <3>2. kept <= backing[t] - s /\ s <= backing[t] /\ backing[t] - s \in Nat
      BY <1>1, <1>5, <3>1
    <3>3. kept * FIX_ONE <= (backing[t] - s) * FIX_ONE
      BY <1>1, <1>5, <3>2, MulMono
    <3>4. kept * FIX_ONE \in Nat /\ (backing[t] - s) * FIX_ONE \in Nat
      BY <1>1, <1>5, <3>2, MulNat
    <3> QED BY <1>4, <1>5, <3>2, <3>3, <3>4
  <2> QED BY <2>1, <2>2
<1> QED BY <1>7, <1>8

\* Minting against excess baskets does not lower the exchange rate.
LEMMA RevenueForType ==
    ASSUME TypeOK, NEW held \in Nat, held > basketsNeeded
    PROVE  /\ RevenueFor(held) \in Nat
           /\ held * totalSupply >= basketsNeeded * (totalSupply + RevenueFor(held))
<1> DEFINE more == held - basketsNeeded
           rev  == RevenueFor(held)
<1>1. more \in Nat /\ basketsNeeded \in Nat /\ totalSupply \in Nat
  BY DEF TypeOK
<1>2. more * totalSupply \in Nat /\ held * totalSupply \in Nat
  BY <1>1, MulNat
<1>3. CASE basketsNeeded > 0
  <2>1. rev = (more * totalSupply) \div basketsNeeded
    BY <1>3 DEF RevenueFor
  <2>2. rev \in Nat /\ rev * basketsNeeded <= more * totalSupply
    BY <1>1, <1>2, <1>3, <2>1, DivFloor
  <2> HIDE DEF rev
  <2>3. held * totalSupply = basketsNeeded * totalSupply + more * totalSupply
    BY <1>1, SMT
  <2>4. basketsNeeded * (totalSupply + rev) = basketsNeeded * totalSupply + rev * basketsNeeded
    BY <1>1, <2>2, SMT
  <2>5. basketsNeeded * totalSupply \in Nat /\ rev * basketsNeeded \in Nat
    BY <1>1, <2>2, MulNat
  <2>6. held * totalSupply >= basketsNeeded * (totalSupply + rev)
    BY <1>2, <2>2, <2>3, <2>4, <2>5
  <2> QED BY <2>2, <2>6 DEF rev
<1>4. CASE basketsNeeded = 0
  <2>1. rev \in Nat
    BY <1>1, <1>4 DEF RevenueFor
  <2>2. basketsNeeded * (totalSupply + rev) = 0
    BY <1>1, <1>4, <2>1
  <2> QED BY <1>2, <2>1, <2>2
<1> QED BY <1>1, <1>3, <1>4

\* handing out revenue keeps the invariant, the backing and the exchange rate.
LEMMA HandoutStep ==
    ASSUME IInv, NEW held \in HeldOf, NEW erc20s \in SUBSET Tokens,
           HandoutExcessAssets(held, erc20s)
    PROVE  /\ IInv' /\ Backed' /\ totalSupply' >= totalSupply /\ UNCHANGED queues
           /\ basketsNeeded' * totalSupply >= basketsNeeded * totalSupply'
<1> USE DEF vestVars, basketVars
<1> DEFINE revenue == IF held > basketsNeeded THEN RevenueFor(held) ELSE 0
           handed  == [t \in Tokens |->
                         IF t \in erc20s THEN (Surplus(t, held) \div Shares) * Shares ELSE 0]
<1>1. /\ held \in Nat /\ totalSupply \in Nat /\ basketsNeeded \in Nat /\ FIX_ONE \in Nat
      /\ wallet \in Quantities /\ backing \in Quantities /\ quantity \in Quantities
  BY HeldOfType, ConstantTypes DEF IInv, TypeOK
<1>2. /\ Holds(held) /\ held >= basketsNeeded
      /\ totalSupply' = totalSupply + revenue
      /\ basketsNeeded' = held
      /\ backing' = Minus(backing, handed)
      /\ wallet' = Plus(wallet, handed)
      /\ UNCHANGED <<queues, liabilities, vestVars, issuanceRate, battery, escrow,
                     basketVars, block, access>>
  BY DEF HandoutExcessAssets
<1>3. revenue \in Nat /\ held * totalSupply >= basketsNeeded * (totalSupply + revenue)
  <2>1. CASE held > basketsNeeded
    BY <1>1, <2>1, RevenueForType DEF IInv
  <2>2. CASE held = basketsNeeded
    <3>1. revenue = 0
      BY <1>1, <2>2
    <3>2. totalSupply + revenue = totalSupply
      BY <1>1, <3>1
    <3>3. held * totalSupply \in Nat
      BY <1>1, MulNat
    <3> QED BY <2>2, <3>1, <3>2, <3>3
  <2> QED BY <1>1, <1>2, <2>1, <2>2
<1> HIDE DEF revenue
<1>4. ASSUME NEW t \in Tokens
      PROVE  /\ handed[t] \in Nat /\ handed[t] <= backing[t]
             /\ held * quantity[t] <= (backing[t] - handed[t]) * FIX_ONE
  <2>1. /\ Surplus(t, held) \in Nat
        /\ \A s \in Nat : s <= Surplus(t, held) =>
              /\ s <= backing[t]
              /\ held * quantity[t] <= (backing[t] - s) * FIX_ONE
    BY <1>1, <1>2, SurplusLeavesBaskets DEF IInv
  <2>2. /\ (Surplus(t, held) \div Shares) * Shares \in Nat
        /\ (Surplus(t, held) \div Shares) * Shares <= Surplus(t, held)
    BY <2>1, ConstantTypes, DivFloor, MulNat
  <2>3. handed[t] \in Nat /\ handed[t] <= Surplus(t, held)
    BY <2>1, <2>2
  <2> HIDE DEF handed
  <2> QED BY <2>1, <2>3
<1>5. handed \in Quantities /\ Covers(backing, handed)
  BY <1>4 DEF Quantities, Covers
<1> HIDE DEF handed
<1>6. Backed'
  <2>1. ASSUME NEW t \in Tokens PROVE basketsNeeded' * quantity'[t] <= backing'[t] * FIX_ONE
    BY <1>2, <1>4 DEF Minus
  <2> QED BY <2>1 DEF Backed, Holds
<1>7. totalSupply' \in Nat /\ totalSupply' >= totalSupply
  BY <1>1, <1>2, <1>3
<1>8. wallet' \in Quantities /\ backing' \in Quantities
  BY <1>1, <1>2, <1>5, PlusType, MinusType
<1>9. TypeOK'
  BY <1>1, <1>2, <1>7, <1>8 DEF IInv, TypeOK
<1>10. LiabilitiesCovered'
  BY <1>2 DEF IInv, LiabilitiesCovered
<1>11. IInv'
  BY <1>2, <1>9, <1>10, QuietQueues DEF IInv
<1> QED BY <1>2, <1>3, <1>6, <1>7, <1>11

\* The haircut keeps the invariant, and the RToken is backed after it.
LEMMA CompromiseStep ==
    ASSUME IInv, NEW held \in HeldOf, CompromiseBasketsNeeded(held)
    PROVE  /\ IInv' /\ Backed' /\ basketsNeeded' < basketsNeeded
           /\ UNCHANGED <<totalSupply, queues>>
<1> USE DEF supplyVars, vestVars, collVars, basketVars
<1>1. held \in Nat /\ basketsNeeded' = held /\ Holds(held) /\ held < basketsNeeded
  BY HeldOfType DEF IInv, CompromiseBasketsNeeded
<1>2. UNCHANGED <<totalSupply, queues, liabilities, vestVars, issuanceRate, battery,
                  collVars, basketVars, block, access>>
  BY DEF CompromiseBasketsNeeded
<1>3. TypeOK'
  BY <1>1, <1>2 DEF IInv, TypeOK
<1>4. LiabilitiesCovered'
  BY <1>2 DEF IInv, LiabilitiesCovered
<1>5. Backed'
  BY <1>1, <1>2 DEF Backed, Holds
<1>6. IInv'
  BY <1>2, <1>3, <1>4, QuietQueues DEF IInv
<1> QED BY <1>1, <1>2, <1>5, <1>6

----------------------------------------------------------------------
\* Queues that lose a span

\* The queues and the schedule after one queue lost a span at either end.
LEMMA SpanLeaves ==
    ASSUME IInv, NEW a \in Accounts, NEW left, NEW right,
           left \in queues[a].left .. Len(queues[a].items),
           right \in queues[a].left .. Len(queues[a].items), left < right,
           left = queues[a].left \/ right = Len(queues[a].items),
           queues' = [queues EXCEPT ![a] = WithoutSpan(@, left, right)],
           UNCHANGED <<allVestAt, nonce, quantity, status>>
    PROVE  /\ queues' \in [Accounts -> IssueQueue]
           /\ QueuesOK' /\ NoncesOK' /\ OneSchedule'
<1> DEFINE q == queues[a]
           w == WithoutSpan(q, left, right)
<1>1. /\ queues \in [Accounts -> IssueQueue] /\ q \in IssueQueue /\ allVestAt \in Nat
      /\ quantity \in Quantities
      /\ QueueOrdered(q, allVestAt)
      /\ q.basketNonce = nonce => QueueBacked(q, quantity)
  BY DEF IInv, TypeOK, QueuesOK
<1>2. IF q.items = <<>> THEN q.left = 0 ELSE q.left < Len(q.items)
  BY <1>1 DEF QueueOrdered
<1>3. /\ w \in IssueQueue /\ w.basketNonce = q.basketNonce
      /\ w.items = <<>> => w.left = 0
      /\ w.items # <<>> => q.left <= w.left /\ w.left < Len(w.items)
      /\ Len(w.items) <= Len(q.items)
      /\ \A i \in 0 .. Len(w.items) : item(w, i) = item(q, i)
      /\ Pending(w) \subseteq Pending(q)
  BY <1>1, <1>2, WithoutSpanItems
<1>4. queues' = [queues EXCEPT ![a] = w]
  OBVIOUS
<1> HIDE DEF w
<1>5. queues' \in [Accounts -> IssueQueue]
  BY <1>1, <1>3, <1>4
<1>6. /\ QueueOrdered(w, allVestAt)
      /\ w.basketNonce = nonce => QueueBacked(w, quantity)
  BY <1>1, <1>3, PrefixOrdered
<1>7. \A b \in Accounts : queues'[b] = IF b = a THEN w ELSE queues[b]
  BY <1>1, <1>4
<1>8. QueuesOK'
  BY <1>6, <1>7 DEF IInv, QueuesOK
<1>9. NoncesOK'
  <2>1. ASSUME w.basketNonce = 0 PROVE w.items = <<>>
    <3>1. q.items = <<>> /\ Len(q.items) = 0
      <4>1. q.items = <<>>
        BY <1>3, <2>1 DEF IInv, NoncesOK
      <4> QED BY <4>1, EmptySeq
    <3>2. Len(w.items) = 0 /\ w.items \in Seq(IssueItem)
      <4>1. Len(w.items) \in Nat /\ w.items \in Seq(IssueItem)
        BY <1>3, QueueFields
      <4> QED BY <1>3, <3>1, <4>1
    <3> QED BY <3>2, EmptySeq
  <2> QED BY <1>3, <1>7, <2>1 DEF IInv, NoncesOK
<1>10. OneSchedule'
  <2> SUFFICES ASSUME NEW b \in Accounts, NEW c \in Accounts,
                      NEW i \in Pending(queues'[b]), NEW j \in Pending(queues'[c]),
                      queues'[b].items[i].when = queues'[c].items[j].when
               PROVE  b = c /\ i = j
    BY DEF OneSchedule
  <2>1. ASSUME NEW d \in Accounts, NEW k \in Pending(queues'[d])
        PROVE  k \in Pending(queues[d]) /\ queues'[d].items[k] = queues[d].items[k]
    <3>1. CASE d = a
      <4>1. queues'[d] = w /\ k \in Pending(w) /\ k \in Pending(q)
        BY <1>3, <1>7, <3>1
      <4>2. k \in 1 .. Len(w.items) /\ w.items[k] = item(w, k)
        BY <1>1, <1>3, <1>6, <4>1, PendingItem
      <4>3. q.items[k] = item(q, k)
        BY <1>1, <4>1, PendingItem
      <4> QED BY <1>3, <3>1, <4>1, <4>2, <4>3
    <3>2. CASE d # a
      BY <1>7, <3>2
    <3> QED BY <3>1, <3>2
  <2>2. i \in Pending(queues[b]) /\ j \in Pending(queues[c])
        /\ queues[b].items[i].when = queues[c].items[j].when
    BY <2>1
  <2> QED BY <2>2 DEF IInv, OneSchedule
<1> QED BY <1>5, <1>8, <1>9, <1>10

\* refundSpan() keeps the invariant.
LEMMA RefundStep ==
    ASSUME IInv, NEW a \in Accounts, NEW left, NEW right,
           left \in queues[a].left .. Len(queues[a].items),
           right \in queues[a].left .. Len(queues[a].items),
           left = queues[a].left \/ right = Len(queues[a].items),
           RefundSpan(a, left, right)
    PROVE  /\ IInv'
           /\ UNCHANGED <<totalSupply, basketsNeeded, backing, nonce, quantity>>
<1> USE DEF supplyVars, vestVars, basketVars
<1> DEFINE q == queues[a]
           deposits == SpanDeposits(q, left, right)
<1>1. /\ left < right /\ Payable(deposits)
      /\ queues' = [queues EXCEPT ![a] = WithoutSpan(@, left, right)]
      /\ liabilities' = Minus(liabilities, deposits)
      /\ escrow' = Minus(escrow, deposits)
      /\ wallet' = Plus(wallet, deposits)
      /\ UNCHANGED <<supplyVars, vestVars, issuanceRate, battery, backing, basketVars,
                     block, access>>
  BY DEF RefundSpan
<1>2. /\ q \in IssueQueue /\ QueueOrdered(q, allVestAt)
      /\ wallet \in Quantities /\ escrow \in Quantities /\ liabilities \in Quantities
      /\ Covers(escrow, liabilities)
  BY DEF IInv, TypeOK, QueuesOK, LiabilitiesCovered
<1>3. q.left \in Nat /\ Len(q.items) \in Nat
  BY <1>2, QueueFields
<1>4. left \in 0 .. Len(q.items) /\ right \in 0 .. Len(q.items) /\ left <= right
  BY <1>1, <1>3
<1>5. deposits \in Quantities
  BY <1>2, <1>4, SpanType
<1>6. queues' \in [Accounts -> IssueQueue] /\ QueuesOK' /\ NoncesOK' /\ OneSchedule'
  BY <1>1, SpanLeaves
<1> HIDE DEF deposits
<1>7. /\ liabilities' \in Quantities /\ escrow' \in Quantities /\ wallet' \in Quantities
      /\ Covers(escrow', liabilities')
  BY <1>1, <1>2, <1>5, PlusType, MinusType, CoversMinus DEF Payable
<1>8. TypeOK'
  BY <1>1, <1>6, <1>7 DEF IInv, TypeOK
<1>9. LiabilitiesCovered'
  BY <1>7 DEF LiabilitiesCovered
<1> QED BY <1>1, <1>6, <1>8, <1>9 DEF IInv

\* vestUpTo() keeps the invariant and the backing, and takes due issuances only.
LEMMA VestUpToStep ==
    ASSUME IInv, NEW a \in Accounts, NEW endId, queues[a].basketNonce = nonce,
           VestUpTo(a, endId)
    PROVE  /\ IInv' /\ (Backed => Backed') /\ totalSupply' >= totalSupply
           /\ queues' # queues
           /\ \A b \in Accounts : \A i \in Pending(queues[b]) \ Pending(queues'[b]) :
                 queues[b].items[i].when <= FIX_ONE * block
<1> USE DEF vestVars, basketVars
<1> DEFINE q == queues[a]
           w == WithoutSpan(q, q.left, endId)
           deposits == SpanDeposits(q, q.left, endId)
           baskets  == SpanBaskets(q, q.left, endId)
<1>1. /\ endId \in Pending(q) /\ Due(q, endId) /\ Payable(deposits)
      /\ queues' = [queues EXCEPT ![a] = w]
      /\ basketsNeeded' = basketsNeeded + baskets
      /\ totalSupply' = totalSupply + SpanRToken(q, q.left, endId)
      /\ liabilities' = Minus(liabilities, deposits)
      /\ escrow' = Minus(escrow, deposits)
      /\ backing' = Plus(backing, deposits)
      /\ UNCHANGED <<vestVars, issuanceRate, battery, wallet, basketVars, block, access>>
  BY DEF VestUpTo
<1>2. /\ q \in IssueQueue /\ QueueOrdered(q, allVestAt) /\ QueueBacked(q, quantity)
      /\ backing \in Quantities /\ escrow \in Quantities /\ liabilities \in Quantities
      /\ quantity \in Quantities
      /\ Covers(escrow, liabilities) /\ allVestAt \in Nat
      /\ totalSupply \in Nat /\ basketsNeeded \in Nat /\ block \in Nat /\ FIX_ONE \in Nat
      /\ queues \in [Accounts -> IssueQueue]
  BY ConstantTypes DEF IInv, TypeOK, QueuesOK, LiabilitiesCovered
<1>3. q.left \in Nat /\ Len(q.items) \in Nat
  BY <1>2, QueueFields
<1>4. /\ endId \in 0 .. Len(q.items) /\ q.left \in 0 .. Len(q.items) /\ q.left < endId
      /\ endId \in q.left .. Len(q.items) /\ q.left \in q.left .. Len(q.items)
      /\ q.left <= endId
  BY <1>1, <1>3 DEF Pending
<1>5. deposits \in Quantities /\ baskets \in Nat /\ SpanRToken(q, q.left, endId) \in Nat
  BY <1>2, <1>4, SpanType
<1>6. queues' \in [Accounts -> IssueQueue] /\ QueuesOK' /\ NoncesOK' /\ OneSchedule'
  <2>1. UNCHANGED <<allVestAt, nonce, quantity, status>>
    BY <1>1
  <2>2. queues' = [queues EXCEPT ![a] = WithoutSpan(@, queues[a].left, endId)]
    BY <1>1
  <2> QED BY <1>4, <2>1, <2>2, SpanLeaves
<1>7. ASSUME Backed, NEW t \in Tokens
      PROVE  basketsNeeded' * quantity[t] <= backing'[t] * FIX_ONE
  <2>1. /\ quantity[t] \in Nat /\ backing[t] \in Nat /\ deposits[t] \in Nat
        /\ backing'[t] = backing[t] + deposits[t]
    BY <1>1, <1>2, <1>5 DEF Quantities, Plus
  <2>2. basketsNeeded * quantity[t] <= backing[t] * FIX_ONE
    BY <1>7 DEF Backed, Holds
  <2>3. quantity[t] * baskets <= FIX_ONE * deposits[t]
    BY <1>2, <1>4 DEF QueueBacked
  <2> HIDE DEF deposits, baskets
  <2>4. (basketsNeeded + baskets) * quantity[t] = basketsNeeded * quantity[t] + quantity[t] * baskets
    BY <1>2, <1>5, <2>1, SMT
  <2>5. (backing[t] + deposits[t]) * FIX_ONE = backing[t] * FIX_ONE + FIX_ONE * deposits[t]
    BY <1>2, <2>1, SMT
  <2>6. /\ basketsNeeded * quantity[t] \in Nat /\ quantity[t] * baskets \in Nat
        /\ backing[t] * FIX_ONE \in Nat /\ FIX_ONE * deposits[t] \in Nat
    BY <1>2, <1>5, <2>1, MulNat
  <2>7. (basketsNeeded + baskets) * quantity[t] <= (backing[t] + deposits[t]) * FIX_ONE
    BY <2>2, <2>3, <2>4, <2>5, <2>6
  <2> QED BY <1>1, <2>1, <2>7
<1>8. Backed => Backed'
  BY <1>1, <1>7 DEF Backed, Holds
<1>9. totalSupply' \in Nat /\ basketsNeeded' \in Nat /\ totalSupply' >= totalSupply
  BY <1>1, <1>2, <1>5
<1>10. Pending(w) = Pending(q) \ ((q.left + 1) .. endId)
  BY <1>2, <1>4, WithoutSpanItems DEF QueueOrdered
<1> HIDE DEF w
<1>11. \A b \in Accounts : queues'[b] = IF b = a THEN w ELSE queues[b]
  BY <1>1, <1>2
<1>12. queues' # queues
  <2>1. q.left + 1 \in Pending(q) /\ q.left + 1 \notin Pending(w)
    BY <1>3, <1>4, <1>10 DEF Pending
  <2>2. w # q
    BY <2>1
  <2> QED BY <1>11, <2>2
<1>13. ASSUME NEW b \in Accounts, NEW i \in Pending(queues[b]) \ Pending(queues'[b])
       PROVE  queues[b].items[i].when <= FIX_ONE * block
  <2>1. b = a /\ i \in Pending(q) /\ i \in (q.left + 1) .. endId
    BY <1>10, <1>11
  <2>2. i \in 0 .. Len(q.items) /\ i <= endId
    BY <1>3, <1>4, <2>1
  <2>3. /\ item(q, i).when \in Nat /\ item(q, endId).when \in Nat
        /\ item(q, i).when <= item(q, endId).when
    BY <1>2, <1>4, <2>2, SpanType
  <2>4. item(q, endId).when <= FIX_ONE * block
    BY <1>1 DEF Due
  <2>5. q.items[i] = item(q, i)
    BY <1>2, <2>1, PendingItem
  <2>6. FIX_ONE * block \in Nat
    BY <1>2, MulNat
  <2>7. item(q, i).when <= FIX_ONE * block
    BY <2>3, <2>4, <2>6
  <2> QED BY <2>1, <2>5, <2>7
<1> HIDE DEF deposits, baskets
<1>14. /\ liabilities' \in Quantities /\ escrow' \in Quantities /\ backing' \in Quantities
       /\ Covers(escrow', liabilities')
  BY <1>1, <1>2, <1>5, PlusType, MinusType, CoversMinus DEF Payable
<1>15. TypeOK'
  BY <1>1, <1>6, <1>9, <1>14 DEF IInv, TypeOK
<1>16. LiabilitiesCovered'
  BY <1>14 DEF LiabilitiesCovered
<1>17. IInv'
  BY <1>6, <1>15, <1>16 DEF IInv
<1> QED BY <1>8, <1>9, <1>12, <1>13, <1>17

----------------------------------------------------------------------
\* Issuance

\* The queue of an issuer once issuances against an old basket are refunded.
FreshQueue(q) == IF StaleQueue(q) THEN Emptied(q) ELSE q
Refund(q)     == IF StaleQueue(q) THEN PendingDeposits(q) ELSE None

\* What issue() goes on with: the queue is empty or against this basket.
LEMMA FreshQueueType ==
    ASSUME IInv, NEW a \in Accounts
    PROVE  LET q == queues[a] queue == FreshQueue(q) IN
           /\ queue \in IssueQueue /\ QueueOrdered(queue, allVestAt)
           /\ QueueBacked(queue, quantity)
           /\ queue.basketNonce = q.basketNonce
           /\ Refund(q) \in Quantities
           /\ queue = q \/ (queue.items = <<>> /\ Pending(queue) = {})
           /\ q.basketNonce = nonce => queue = q
<1> DEFINE q == queues[a]
           queue == FreshQueue(q)
<1>1. /\ q \in IssueQueue /\ allVestAt \in Nat /\ quantity \in Quantities
      /\ QueueOrdered(q, allVestAt)
      /\ q.basketNonce = nonce => QueueBacked(q, quantity)
      /\ q.basketNonce = 0 => q.items = <<>>
  BY DEF IInv, TypeOK, QueuesOK, NoncesOK
<1>2. q.left \in Nat /\ Len(q.items) \in Nat /\ q.basketNonce \in Nat
  BY <1>1, QueueFields
<1> HIDE DEF q
<1>3. CASE StaleQueue(q)
  <2>1. /\ Emptied(q) \in IssueQueue /\ Emptied(q).items = <<>> /\ Emptied(q).left = 0
        /\ Emptied(q).basketNonce = q.basketNonce
    BY <1>1, EmptiedType
  <2>2. /\ QueueOrdered(Emptied(q), allVestAt) /\ QueueBacked(Emptied(q), quantity)
        /\ Pending(Emptied(q)) = {}
    BY <1>1, <2>1, NoItems
  <2>3. q.left \in 0 .. Len(q.items) /\ Len(q.items) \in 0 .. Len(q.items)
        /\ q.left <= Len(q.items)
    <3>1. CASE q.items = <<>>
      BY <1>1, <1>2, <3>1 DEF QueueOrdered
    <3>2. CASE q.items # <<>>
      BY <1>1, <1>2, <3>2 DEF QueueOrdered
    <3> QED BY <3>1, <3>2
  <2>4. PendingDeposits(q) \in Quantities
    BY <1>1, <2>3, SpanType DEF PendingDeposits
  <2>5. queue = Emptied(q) /\ Refund(q) = PendingDeposits(q) /\ q.basketNonce # nonce
    BY <1>3 DEF FreshQueue, Refund, StaleQueue
  <2> QED BY <2>1, <2>2, <2>4, <2>5 DEF q
<1>4. CASE ~StaleQueue(q)
  <2>1. queue = q /\ Refund(q) = None
    BY <1>4 DEF FreshQueue, Refund
  <2>2. q.basketNonce = nonce \/ q.items = <<>>
    BY <1>1, <1>2, <1>4 DEF StaleQueue
  <2>3. QueueBacked(q, quantity)
    <3>1. CASE q.items = <<>>
      <4>1. q.left = 0
        BY <1>1, <3>1 DEF QueueOrdered
      <4> QED BY <1>1, <3>1, <4>1, NoItems
    <3> QED BY <1>1, <2>2, <3>1
  <2> QED BY <1>1, <2>1, <2>3, NoneType DEF q
<1> QED BY <1>3, <1>4

\* The part of issue() that both ways of completing it share.
LEMMA IssueCommon ==
    ASSUME IInv, NEW a \in Accounts, NEW amt \in Amounts, NEW m \in 0 .. totalSupply,
           Issue(a, amt, m)
    PROVE  LET refund     == Refund(queues[a])
               supply     == totalSupply - m
               amtBaskets == BasketsFor(amt, supply)
               deposits   == QuoteUp(amtBaskets)
           IN  /\ status = "SOUND" /\ amt \in Nat \ {0} /\ supply \in Nat /\ amtBaskets \in Nat
               /\ deposits \in Quantities /\ refund \in Quantities
               /\ \A t \in Tokens : quantity[t] * amtBaskets <= FIX_ONE * deposits[t]
               /\ allVestAt' \in Nat /\ allVestAt < allVestAt'
               /\ allVestAt' = whenFinished(amt, supply)
               /\ lastIssRate' \in Nat \ {0} /\ lastIssRateBlock' = block
               /\ wallet' \in Quantities
               /\ Minus(liabilities, refund) \in Quantities
               /\ Minus(escrow, refund) \in Quantities
               /\ Covers(Minus(escrow, refund), Minus(liabilities, refund))
               /\ UNCHANGED <<issuanceRate, battery, basketVars, block, access>>
<1> DEFINE refund     == Refund(queues[a])
           supply     == totalSupply - m
           amtBaskets == BasketsFor(amt, supply)
           deposits   == QuoteUp(amtBaskets)
<1>1. /\ amt > 0 /\ status = "SOUND" /\ Payable(refund)
      /\ Covers(Plus(wallet, refund), deposits)
      /\ wallet' = Minus(Plus(wallet, refund), deposits)
      /\ allVestAt' = whenFinished(amt, supply)
      /\ lastIssRate' = IssRate(supply) /\ lastIssRateBlock' = block
      /\ UNCHANGED <<issuanceRate, battery, basketVars, block, access>>
  BY DEF Issue, Refund
<1>2. amt \in Nat \ {0} /\ supply \in Nat
  BY <1>1, ConstantTypes, MeltType DEF IInv
<1> HIDE DEF supply
<1>3. /\ wallet \in Quantities /\ escrow \in Quantities /\ liabilities \in Quantities
      /\ quantity \in Quantities /\ Covers(escrow, liabilities)
  BY DEF IInv, TypeOK, LiabilitiesCovered
<1>4. amtBaskets \in Nat
  BY <1>2, BasketsForType DEF IInv
<1> HIDE DEF amtBaskets
<1>5. deposits \in Quantities /\ \A t \in Tokens : quantity[t] * amtBaskets <= FIX_ONE * deposits[t]
  BY <1>3, <1>4, QuoteUpPays
<1>6. refund \in Quantities
  BY FreshQueueType
<1> HIDE DEF deposits, refund
<1>7. wallet' \in Quantities
  BY <1>1, <1>3, <1>5, <1>6, PlusType, MinusType
<1>8. /\ Minus(liabilities, refund) \in Quantities
      /\ Minus(escrow, refund) \in Quantities
      /\ Covers(Minus(escrow, refund), Minus(liabilities, refund))
  BY <1>1, <1>3, <1>6, MinusType, CoversMinus DEF Payable
<1>9. allVestAt' \in Nat /\ allVestAt < allVestAt'
  BY <1>1, <1>2, whenFinishedType DEF IInv
<1>10. lastIssRate' \in Nat \ {0}
  BY <1>1, <1>2, IssRateType DEF IInv
<1> QED BY <1>1, <1>2, <1>4, <1>5, <1>6, <1>7, <1>8, <1>9, <1>10
            DEF supply, amtBaskets, deposits, refund

\* The schedule may move on.
LEMMA LaterOrdered ==
    ASSUME NEW q \in IssueQueue, NEW end \in Nat, NEW later \in Nat, end <= later,
           QueueOrdered(q, end)
    PROVE  QueueOrdered(q, later)
<1>1. Len(q.items) \in 0 .. Len(q.items) /\ Len(q.items) <= Len(q.items)
  BY QueueFields
<1>2. item(q, Len(q.items)).when \in Nat
  BY <1>1, SpanType
<1>3. item(q, Len(q.items)).when <= end
  BY DEF QueueOrdered
<1>4. item(q, Len(q.items)).when <= later
  BY <1>2, <1>3
<1> QED BY <1>4 DEF QueueOrdered

\* The issuances of one queue finish at different times.
LEMMA SameQueue ==
    ASSUME NEW q \in IssueQueue, NEW end \in Nat, QueueOrdered(q, end),
           NEW i \in Pending(q), NEW j \in Pending(q), q.items[i].when = q.items[j].when
    PROVE  i = j
<1>1. /\ i \in 1 .. Len(q.items) /\ q.items[i] = item(q, i) /\ item(q, i).when \in Nat
      /\ j \in 1 .. Len(q.items) /\ q.items[j] = item(q, j) /\ item(q, j).when \in Nat
      /\ Len(q.items) \in Nat
  BY PendingItem, QueueFields
<1>2. i \in 0 .. Len(q.items) /\ j \in 0 .. Len(q.items)
  BY <1>1
<1>3. CASE i < j
  <2>1. item(q, i).when < item(q, j).when
    BY <1>2, <1>3 DEF QueueOrdered
  <2> QED BY <1>1, <2>1
<1>4. CASE j < i
  <2>1. item(q, j).when < item(q, i).when
    BY <1>2, <1>4 DEF QueueOrdered
  <2> QED BY <1>1, <2>1
<1> QED BY <1>1, <1>3, <1>4

\* The queues after one was replaced by a queue that is in order, and whose only
\* new issuance finishes last of all.
LEMMA IssueQueues ==
    ASSUME IInv, NEW a \in Accounts, NEW w \in IssueQueue,
           queues' = [queues EXCEPT ![a] = w],
           allVestAt' \in Nat, allVestAt < allVestAt', UNCHANGED <<nonce, quantity, status>>,
           QueueOrdered(w, allVestAt'), w.basketNonce = nonce => QueueBacked(w, quantity),
           w.basketNonce <= nonce, w.basketNonce = 0 => w.items = <<>>,
           \A i \in Pending(w) :
               \/ i \in Pending(queues[a]) /\ w.items[i] = queues[a].items[i]
               \/ w.items[i].when = allVestAt'
    PROVE  /\ queues' \in [Accounts -> IssueQueue]
           /\ QueuesOK' /\ NoncesOK' /\ OneSchedule'
<1>1. queues \in [Accounts -> IssueQueue] /\ allVestAt \in Nat /\ allVestAt <= allVestAt'
  BY DEF IInv, TypeOK
<1>2. \A b \in Accounts : queues'[b] = IF b = a THEN w ELSE queues[b]
  BY <1>1
<1>3. queues' \in [Accounts -> IssueQueue]
  BY <1>1
<1>4. \A b \in Accounts : queues[b] \in IssueQueue /\ QueueOrdered(queues[b], allVestAt)
                          /\ QueueOrdered(queues[b], allVestAt')
  BY <1>1, LaterOrdered DEF IInv, QueuesOK
<1>5. QueuesOK'
  BY <1>2, <1>4 DEF IInv, QueuesOK
<1>6. NoncesOK'
  BY <1>2 DEF IInv, NoncesOK
<1>7. ASSUME NEW i \in Pending(w), NEW c \in Accounts, c # a, NEW j \in Pending(queues[c])
      PROVE  w.items[i].when # queues[c].items[j].when
  <2>1. CASE i \in Pending(queues[a]) /\ w.items[i] = queues[a].items[i]
    BY <1>7, <2>1 DEF IInv, OneSchedule
  <2>2. CASE w.items[i].when = allVestAt'
    <3>1. queues[c].items[j].when \in Nat /\ queues[c].items[j].when <= allVestAt
      BY <1>1, <1>4, PendingItem
    <3> QED BY <1>1, <2>2, <3>1
  <2> QED BY <2>1, <2>2
<1>8. OneSchedule'
  <2> SUFFICES ASSUME NEW b \in Accounts, NEW c \in Accounts,
                      NEW i \in Pending(queues'[b]), NEW j \in Pending(queues'[c]),
                      queues'[b].items[i].when = queues'[c].items[j].when
               PROVE  b = c /\ i = j
    BY DEF OneSchedule
  <2>1. CASE b = a /\ c = a
    <3>1. i \in Pending(w) /\ j \in Pending(w) /\ w.items[i].when = w.items[j].when
      BY <1>2, <2>1
    <3>2. i = j
      BY <3>1, SameQueue
    <3> QED BY <2>1, <3>2
  <2>2. CASE b = a /\ c # a
    BY <1>2, <1>7, <2>2
  <2>3. CASE b # a /\ c = a
    BY <1>2, <1>7, <2>3
  <2>4. CASE b # a /\ c # a
    BY <1>2, <2>4 DEF IInv, OneSchedule
  <2> QED BY <2>1, <2>2, <2>3, <2>4
<1> QED BY <1>3, <1>5, <1>6, <1>8

\* issue() completes within the block.
LEMMA IssueAtOnce ==
    ASSUME IInv, NEW a \in Accounts, NEW amt \in Amounts, NEW m \in 0 .. totalSupply,
           Issue(a, amt, m),
           LET refund     == Refund(queues[a])
               supply     == totalSupply - m
               amtBaskets == BasketsFor(amt, supply)
               deposits   == QuoteUp(amtBaskets)
           IN  /\ totalSupply' = supply + amt
               /\ basketsNeeded' = basketsNeeded + amtBaskets
               /\ queues' = [queues EXCEPT ![a] = FreshQueue(queues[a])]
               /\ liabilities' = Minus(liabilities, refund)
               /\ escrow' = Minus(escrow, refund)
               /\ backing' = Plus(backing, deposits)
    PROVE  /\ IInv' /\ (Backed => Backed') /\ Covers(backing', backing)
           /\ basketsNeeded' >= basketsNeeded
           /\ basketsNeeded' > basketsNeeded /\ (\E t \in Tokens : quantity[t] > 0) =>
                 ~Covers(backing, backing')
           /\ \A b \in Accounts : queues[b].basketNonce = nonce =>
                 Pending(queues[b]) \subseteq Pending(queues'[b])
<1> USE DEF basketVars
<1> DEFINE refund     == Refund(queues[a])
           supply     == totalSupply - m
           amtBaskets == BasketsFor(amt, supply)
           deposits   == QuoteUp(amtBaskets)
           w          == FreshQueue(queues[a])
<1>1. /\ totalSupply' = supply + amt
      /\ basketsNeeded' = basketsNeeded + amtBaskets
      /\ queues' = [queues EXCEPT ![a] = w]
      /\ liabilities' = Minus(liabilities, refund)
      /\ escrow' = Minus(escrow, refund)
      /\ backing' = Plus(backing, deposits)
  OBVIOUS
<1>2. /\ status = "SOUND" /\ amt \in Nat \ {0} /\ supply \in Nat /\ amtBaskets \in Nat
      /\ deposits \in Quantities /\ refund \in Quantities
      /\ \A t \in Tokens : quantity[t] * amtBaskets <= FIX_ONE * deposits[t]
      /\ allVestAt' \in Nat /\ allVestAt < allVestAt'
      /\ lastIssRate' \in Nat \ {0} /\ lastIssRateBlock' = block
      /\ wallet' \in Quantities
      /\ Minus(liabilities, refund) \in Quantities
      /\ Minus(escrow, refund) \in Quantities
      /\ Covers(Minus(escrow, refund), Minus(liabilities, refund))
      /\ UNCHANGED <<issuanceRate, battery, basketVars, block, access>>
  BY IssueCommon
<1>3. /\ w \in IssueQueue /\ QueueOrdered(w, allVestAt) /\ QueueBacked(w, quantity)
      /\ w.basketNonce = queues[a].basketNonce
      /\ w = queues[a] \/ (w.items = <<>> /\ Pending(w) = {})
      /\ queues[a].basketNonce = nonce => w = queues[a]
  BY FreshQueueType
<1> HIDE DEF refund, supply, amtBaskets, deposits, w
<1>4. /\ totalSupply \in Nat /\ basketsNeeded \in Nat /\ backing \in Quantities
      /\ quantity \in Quantities /\ FIX_ONE \in Nat \ {0} /\ block \in Nat \ {0}
      /\ queues \in [Accounts -> IssueQueue] /\ allVestAt \in Nat
  BY ConstantTypes DEF IInv, TypeOK
<1>5. queues' \in [Accounts -> IssueQueue] /\ QueuesOK' /\ NoncesOK' /\ OneSchedule'
  <2>1. QueueOrdered(w, allVestAt')
    BY <1>2, <1>3, <1>4, LaterOrdered
  <2>2. w.basketNonce <= nonce /\ (w.basketNonce = 0 => w.items = <<>>)
    BY <1>3 DEF IInv, NoncesOK
  <2>3. UNCHANGED <<nonce, quantity, status>>
    BY <1>2
  <2>4. \A i \in Pending(w) : i \in Pending(queues[a]) /\ w.items[i] = queues[a].items[i]
    BY <1>3
  <2> QED BY <1>1, <1>2, <1>3, <2>1, <2>2, <2>3, <2>4, IssueQueues
<1>6. backing' \in Quantities /\ Covers(backing', backing)
  BY <1>1, <1>2, <1>4, PlusType
<1>7. totalSupply' \in Nat /\ basketsNeeded' \in Nat /\ basketsNeeded' >= basketsNeeded
  BY <1>1, <1>2, <1>4
<1>8. TypeOK'
  BY <1>1, <1>2, <1>4, <1>5, <1>6, <1>7 DEF IInv, TypeOK
<1>9. LiabilitiesCovered'
  BY <1>1, <1>2 DEF LiabilitiesCovered
<1>10. IInv'
  BY <1>5, <1>8, <1>9 DEF IInv
<1>11. ASSUME Backed, NEW t \in Tokens
       PROVE  basketsNeeded' * quantity[t] <= backing'[t] * FIX_ONE
  <2>1. /\ quantity[t] \in Nat /\ backing[t] \in Nat /\ deposits[t] \in Nat
        /\ backing'[t] = backing[t] + deposits[t]
    BY <1>1, <1>2, <1>4 DEF Quantities, Plus
  <2>2. basketsNeeded * quantity[t] <= backing[t] * FIX_ONE
    BY <1>11 DEF Backed, Holds
  <2>3. quantity[t] * amtBaskets <= FIX_ONE * deposits[t]
    BY <1>2
  <2>4. (basketsNeeded + amtBaskets) * quantity[t] = basketsNeeded * quantity[t] + quantity[t] * amtBaskets
    BY <1>2, <1>4, <2>1, SMT
  <2>5. (backing[t] + deposits[t]) * FIX_ONE = backing[t] * FIX_ONE + FIX_ONE * deposits[t]
    BY <1>4, <2>1, SMT
  <2>6. /\ basketsNeeded * quantity[t] \in Nat /\ quantity[t] * amtBaskets \in Nat
        /\ backing[t] * FIX_ONE \in Nat /\ FIX_ONE * deposits[t] \in Nat
    BY <1>2, <1>4, <2>1, MulNat
  <2>7. (basketsNeeded + amtBaskets) * quantity[t] <= (backing[t] + deposits[t]) * FIX_ONE
    BY <2>2, <2>3, <2>4, <2>5, <2>6
  <2> QED BY <1>1, <2>1, <2>7
<1>12. Backed => Backed'
  BY <1>2, <1>11 DEF Backed, Holds
<1>13. ASSUME basketsNeeded' > basketsNeeded, NEW t \in Tokens, quantity[t] > 0
       PROVE  ~Covers(backing, backing')
  <2>1. /\ quantity[t] \in Nat \ {0} /\ backing[t] \in Nat /\ deposits[t] \in Nat
        /\ backing'[t] = backing[t] + deposits[t]
    BY <1>1, <1>2, <1>4, <1>13 DEF Quantities, Plus
  <2>2. amtBaskets \in Nat \ {0}
    BY <1>1, <1>2, <1>4, <1>13
  <2>3. quantity[t] * amtBaskets > 0 /\ quantity[t] * amtBaskets <= FIX_ONE * deposits[t]
    <3>1. \A x, y \in Nat \ {0} : x * y > 0
      BY SMT
    <3> QED BY <1>2, <2>1, <2>2, <3>1
  <2>4. deposits[t] # 0
    <3>1. quantity[t] * amtBaskets \in Nat
      BY <1>2, <2>1, MulNat
    <3>2. FIX_ONE * 0 = 0
      BY <1>4
    <3> QED BY <2>3, <3>1, <3>2
  <2>5. ~(backing'[t] <= backing[t])
    BY <2>1, <2>4
  <2> QED BY <2>5 DEF Covers
<1>14. \A b \in Accounts : queues[b].basketNonce = nonce =>
           Pending(queues[b]) \subseteq Pending(queues'[b])
  BY <1>1, <1>3, <1>4
<1> QED BY <1>6, <1>7, <1>10, <1>12, <1>13, <1>14

\* issue() queues the issuance.
NewItem(queue, amt, supply) ==
    LET amtBaskets == BasketsFor(amt, supply)
        prev       == item(queue, Len(queue.items))
    IN  [when       |-> whenFinished(amt, supply),
         amtRToken  |-> prev.amtRToken + amt,
         amtBaskets |-> prev.amtBaskets + amtBaskets,
         deposits   |-> Plus(prev.deposits, QuoteUp(amtBaskets))]

\* The queue grows by an issuance that finishes last; the backing stays.
LEMMA IssueQueued ==
    ASSUME IInv, NEW a \in Accounts, NEW amt \in Amounts, NEW m \in 0 .. totalSupply,
           Issue(a, amt, m),
           LET refund   == Refund(queues[a])
               supply   == totalSupply - m
               deposits == QuoteUp(BasketsFor(amt, supply))
               queue    == FreshQueue(queues[a])
           IN  /\ totalSupply' = supply
               /\ queues' = [queues EXCEPT ![a] =
                                Appended(queue, NewItem(queue, amt, supply), nonce)]
               /\ liabilities' = Plus(Minus(liabilities, refund), deposits)
               /\ escrow' = Plus(Minus(escrow, refund), deposits)
               /\ UNCHANGED <<basketsNeeded, backing>>
    PROVE  /\ IInv' /\ totalSupply' <= totalSupply
           /\ UNCHANGED <<basketsNeeded, backing, nonce, quantity>>
<1> USE DEF basketVars
<1> DEFINE refund     == Refund(queues[a])
           supply     == totalSupply - m
           amtBaskets == BasketsFor(amt, supply)
           deposits   == QuoteUp(amtBaskets)
           queue      == FreshQueue(queues[a])
           iss        == NewItem(queue, amt, supply)
           prev       == item(queue, Len(queue.items))
           w          == Appended(queue, iss, nonce)
<1>1. /\ totalSupply' = supply
      /\ queues' = [queues EXCEPT ![a] = w]
      /\ liabilities' = Plus(Minus(liabilities, refund), deposits)
      /\ escrow' = Plus(Minus(escrow, refund), deposits)
      /\ UNCHANGED <<basketsNeeded, backing>>
  OBVIOUS
<1>2. /\ status = "SOUND" /\ amt \in Nat \ {0} /\ supply \in Nat /\ amtBaskets \in Nat
      /\ deposits \in Quantities /\ refund \in Quantities
      /\ \A t \in Tokens : quantity[t] * amtBaskets <= FIX_ONE * deposits[t]
      /\ allVestAt' \in Nat /\ allVestAt < allVestAt'
      /\ allVestAt' = whenFinished(amt, supply)
      /\ lastIssRate' \in Nat \ {0} /\ lastIssRateBlock' = block
      /\ wallet' \in Quantities
      /\ Minus(liabilities, refund) \in Quantities
      /\ Minus(escrow, refund) \in Quantities
      /\ Covers(Minus(escrow, refund), Minus(liabilities, refund))
      /\ UNCHANGED <<issuanceRate, battery, basketVars, block, access>>
  BY IssueCommon
<1>3. /\ queue \in IssueQueue /\ QueueOrdered(queue, allVestAt) /\ QueueBacked(queue, quantity)
      /\ queue = queues[a] \/ (queue.items = <<>> /\ Pending(queue) = {})
  BY FreshQueueType
<1>4. /\ totalSupply \in Nat /\ supply <= totalSupply /\ quantity \in Quantities
      /\ block \in Nat \ {0} /\ nonce \in Nat /\ nonce # 0 /\ allVestAt \in Nat
  BY <1>2 DEF IInv, TypeOK, NoncesOK
<1>5. /\ iss.when = allVestAt' /\ iss.amtRToken = prev.amtRToken + amt
      /\ iss.amtBaskets = prev.amtBaskets + amtBaskets
      /\ iss.deposits = Plus(prev.deposits, deposits)
      /\ iss = [when |-> allVestAt', amtRToken |-> prev.amtRToken + amt,
                amtBaskets |-> prev.amtBaskets + amtBaskets,
                deposits |-> Plus(prev.deposits, deposits)]
  BY <1>2 DEF NewItem
<1> HIDE DEF refund, supply, amtBaskets, deposits, queue, iss
<1>6. Len(queue.items) \in 0 .. Len(queue.items) /\ Len(queue.items) \in Nat /\ queue.left \in Nat
  BY <1>3, QueueFields
<1>7. prev \in IssueItem
  BY <1>3, <1>6, ItemType
<1>8. /\ prev.when \in Nat /\ prev.amtRToken \in Nat /\ prev.amtBaskets \in Nat
      /\ prev.deposits \in Quantities
  BY <1>7, ItemFields
<1>9. iss \in IssueItem
  <2>1. Plus(prev.deposits, deposits) \in Quantities
    BY <1>2, <1>8, PlusType
  <2>2. prev.amtRToken + amt \in Nat /\ prev.amtBaskets + amtBaskets \in Nat
    BY <1>2, <1>8, SMTT(60)
  <2> HIDE DEF prev
  <2> QED BY <1>2, <1>5, <2>1, <2>2 DEF IssueItem
<1>10. /\ w \in IssueQueue /\ w.basketNonce = nonce /\ w.left = queue.left
       /\ Len(w.items) = Len(queue.items) + 1 /\ w.items # <<>>
       /\ \A i \in 0 .. Len(queue.items) : item(w, i) = item(queue, i)
       /\ item(w, Len(queue.items) + 1) = iss
       /\ Pending(queue) \subseteq Pending(w)
  BY <1>3, <1>4, <1>9, AppendItems
<1> HIDE DEF w
<1>11. /\ prev.amtRToken < iss.amtRToken /\ prev.amtBaskets <= iss.amtBaskets
       /\ Covers(iss.deposits, prev.deposits)
  <2>1. Covers(Plus(prev.deposits, deposits), prev.deposits)
    BY <1>2, <1>8, PlusType
  <2> HIDE DEF prev
  <2> QED BY <1>2, <1>5, <1>8, <2>1
<1>12. QueueOrdered(w, allVestAt')
  <2>1. QueueOrdered(w, iss.when)
    BY <1>2, <1>3, <1>4, <1>5, <1>9, <1>10, <1>11, AppendOrdered, SMTT(60)
  <2> QED BY <1>5, <2>1
<1>13. ASSUME NEW t \in Tokens
       PROVE  quantity[t] * (iss.amtBaskets - prev.amtBaskets)
                  <= FIX_ONE * (iss.deposits[t] - prev.deposits[t])
  <2>1. iss.amtBaskets - prev.amtBaskets = amtBaskets
    <3> HIDE DEF prev
    <3> QED BY <1>2, <1>5, <1>8
  <2>2. iss.deposits[t] - prev.deposits[t] = deposits[t]
    <3> HIDE DEF prev
    <3> QED BY <1>2, <1>5, <1>8 DEF Plus, Quantities
  <2> QED BY <1>2, <2>1, <2>2
<1>14. QueueBacked(w, quantity)
  BY <1>3, <1>4, <1>9, <1>10, <1>13, AppendBacked
<1>15. ASSUME NEW i \in Pending(w)
       PROVE  \/ i \in Pending(queues[a]) /\ w.items[i] = queues[a].items[i]
              \/ w.items[i].when = allVestAt'
  <2>1. /\ i \in 1 .. Len(w.items) /\ w.items[i] = item(w, i) /\ w.left < i
    <3>1. i \in 1 .. Len(w.items) /\ w.items[i] = item(w, i)
      BY <1>2, <1>10, <1>12, PendingItem
    <3>2. w.left + 1 <= i /\ i \in Int
      BY <1>6, <1>10 DEF Pending
    <3> QED BY <1>6, <1>10, <3>1, <3>2
  <2>2. CASE i = Len(queue.items) + 1
    BY <1>5, <1>10, <2>1, <2>2
  <2>3. CASE i # Len(queue.items) + 1
    <3>1. i \in 0 .. Len(queue.items) /\ i \in Pending(queue)
      BY <1>6, <1>10, <2>1, <2>3 DEF Pending
    <3>2. queue.items[i] = item(queue, i)
      BY <1>3, <1>4, <3>1, PendingItem
    <3>3. queue = queues[a]
      BY <1>3, <3>1
    <3> QED BY <1>10, <2>1, <3>1, <3>2, <3>3
  <2> QED BY <2>2, <2>3
<1>16. queues' \in [Accounts -> IssueQueue] /\ QueuesOK' /\ NoncesOK' /\ OneSchedule'
  <2>1. w.basketNonce <= nonce /\ w.basketNonce # 0
    BY <1>4, <1>10
  <2> QED BY <1>1, <1>2, <1>10, <1>12, <1>14, <1>15, <2>1, IssueQueues
<1>17. /\ liabilities' \in Quantities /\ escrow' \in Quantities /\ Covers(escrow', liabilities')
  BY <1>1, <1>2, PlusType, CoversMinus
<1>18. TypeOK'
  BY <1>1, <1>2, <1>4, <1>16, <1>17 DEF IInv, TypeOK
<1>19. LiabilitiesCovered'
  BY <1>17 DEF LiabilitiesCovered
<1> QED BY <1>1, <1>2, <1>4, <1>16, <1>18, <1>19 DEF IInv

----------------------------------------------------------------------
\* What no step does

KeepsBacking == Backed /\ nonce' = nonce => Backed'
NoDilution ==
    totalSupply' < totalSupply =>
        /\ \A t \in Tokens : backing'[t] * totalSupply >= backing[t] * totalSupply'
        /\ basketsNeeded' * totalSupply >= basketsNeeded * totalSupply'
RevenueFair ==
    queues' = queues /\ basketsNeeded' > basketsNeeded /\ Covers(backing, backing') =>
        basketsNeeded' * totalSupply >= basketsNeeded * totalSupply'
NothingEarly ==
    \A a \in Accounts :
        totalSupply' > totalSupply /\ queues[a].basketNonce = nonce =>
            \A i \in Pending(queues[a]) \ Pending(queues'[a]) :
                queues[a].items[i].when <= FIX_ONE * block

\* Every basket has a token in it, once there is one.
SomeCollateral == status = "SOUND" => \E t \in Tokens : quantity[t] > 0

StepSafe == KeepsBacking /\ NoDilution /\ (SomeCollateral => RevenueFair) /\ NothingEarly

\* A step that leaves the supply alone and raises no claim on the baskets.
LEMMA SameSupplySafe ==
    ASSUME TypeOK, TypeOK', totalSupply' = totalSupply, basketsNeeded' <= basketsNeeded,
           KeepsBacking
    PROVE  StepSafe
<1>1. totalSupply \in Nat /\ basketsNeeded \in Nat /\ basketsNeeded' \in Nat
  BY DEF TypeOK
<1>2. ~(totalSupply' < totalSupply) /\ ~(totalSupply' > totalSupply)
      /\ ~(basketsNeeded' > basketsNeeded)
  BY <1>1
<1> QED BY <1>2 DEF StepSafe, NoDilution, RevenueFair, NothingEarly

\* A step that melts, and adds to nobody's claim.
LEMMA MeltedSafe ==
    ASSUME TypeOK, TypeOK', totalSupply' <= totalSupply,
           UNCHANGED <<basketsNeeded, backing, nonce, quantity>>
    PROVE  StepSafe
<1>1. /\ totalSupply \in Nat /\ totalSupply' \in Nat /\ basketsNeeded \in Nat
      /\ \A t \in Tokens : backing[t] \in Nat
  BY DEF TypeOK, Quantities
<1>2. KeepsBacking
  BY DEF KeepsBacking, Backed, Holds
<1>3. NoDilution
  <2>1. \A n \in Nat : n * totalSupply >= n * totalSupply'
    <3>1. \A n \in Nat : n * totalSupply' <= n * totalSupply
      BY <1>1, MulMono
    <3>2. \A n \in Nat : n * totalSupply' \in Nat /\ n * totalSupply \in Nat
      BY <1>1, MulNat
    <3> QED BY <3>1, <3>2
  <2> QED BY <1>1, <2>1 DEF NoDilution
<1>4. RevenueFair /\ NothingEarly
  <2>1. ~(basketsNeeded' > basketsNeeded) /\ ~(totalSupply' > totalSupply)
    BY <1>1
  <2> QED BY <2>1 DEF RevenueFair, NothingEarly
<1> QED BY <1>2, <1>3, <1>4 DEF StepSafe

\* More tokens and the same claim: still backed.
LEMMA GrowingBacking ==
    ASSUME TypeOK, TypeOK', Covers(backing', backing), UNCHANGED <<basketsNeeded, quantity>>
    PROVE  KeepsBacking
<1> SUFFICES ASSUME Backed, NEW t \in Tokens
             PROVE  basketsNeeded * quantity[t] <= backing'[t] * FIX_ONE
  BY DEF KeepsBacking, Backed, Holds
<1>1. /\ backing[t] \in Nat /\ backing'[t] \in Nat /\ backing[t] <= backing'[t]
      /\ FIX_ONE \in Nat /\ basketsNeeded \in Nat /\ quantity[t] \in Nat
  BY ConstantTypes DEF TypeOK, Quantities, Covers
<1>2. basketsNeeded * quantity[t] <= backing[t] * FIX_ONE
  BY DEF Backed, Holds
<1>3. backing[t] * FIX_ONE <= backing'[t] * FIX_ONE
  BY <1>1, MulMono
<1>4. /\ basketsNeeded * quantity[t] \in Nat /\ backing[t] * FIX_ONE \in Nat
      /\ backing'[t] * FIX_ONE \in Nat
  BY <1>1, MulNat
<1> QED BY <1>2, <1>3, <1>4

\* issue(), in both of its ways.
LEMMA IssueSafe ==
    ASSUME IInv, NEW a \in Accounts, NEW amt \in Amounts, NEW m \in 0 .. totalSupply,
           Issue(a, amt, m)
    PROVE  IInv' /\ StepSafe
<1> DEFINE refund     == Refund(queues[a])
           supply     == totalSupply - m
           amtBaskets == BasketsFor(amt, supply)
           deposits   == QuoteUp(amtBaskets)
           queue      == FreshQueue(queues[a])
<1>1. \/ /\ totalSupply' = supply + amt
         /\ basketsNeeded' = basketsNeeded + amtBaskets
         /\ queues' = [queues EXCEPT ![a] = queue]
         /\ liabilities' = Minus(liabilities, refund)
         /\ escrow' = Minus(escrow, refund)
         /\ backing' = Plus(backing, deposits)
      \/ /\ totalSupply' = supply
         /\ queues' = [queues EXCEPT ![a] = Appended(queue, NewItem(queue, amt, supply), nonce)]
         /\ liabilities' = Plus(Minus(liabilities, refund), deposits)
         /\ escrow' = Plus(Minus(escrow, refund), deposits)
         /\ UNCHANGED <<basketsNeeded, backing>>
  BY DEF Issue, Refund, FreshQueue, Appended, NewItem
<1>2. CASE /\ totalSupply' = supply
           /\ queues' = [queues EXCEPT ![a] = Appended(queue, NewItem(queue, amt, supply), nonce)]
           /\ liabilities' = Plus(Minus(liabilities, refund), deposits)
           /\ escrow' = Plus(Minus(escrow, refund), deposits)
           /\ UNCHANGED <<basketsNeeded, backing>>
  <2>1. /\ IInv' /\ totalSupply' <= totalSupply
        /\ UNCHANGED <<basketsNeeded, backing, nonce, quantity>>
    BY <1>2, IssueQueued
  <2>2. TypeOK /\ TypeOK'
    BY <2>1 DEF IInv
  <2>3. StepSafe
    BY <2>1, <2>2, MeltedSafe
  <2> QED BY <2>1, <2>3
<1>3. CASE /\ totalSupply' = supply + amt
           /\ basketsNeeded' = basketsNeeded + amtBaskets
           /\ queues' = [queues EXCEPT ![a] = queue]
           /\ liabilities' = Minus(liabilities, refund)
           /\ escrow' = Minus(escrow, refund)
           /\ backing' = Plus(backing, deposits)
  <2>1. /\ IInv' /\ (Backed => Backed') /\ Covers(backing', backing)
        /\ basketsNeeded' >= basketsNeeded
        /\ basketsNeeded' > basketsNeeded /\ (\E t \in Tokens : quantity[t] > 0) =>
              ~Covers(backing, backing')
        /\ \A b \in Accounts : queues[b].basketNonce = nonce =>
              Pending(queues[b]) \subseteq Pending(queues'[b])
    BY <1>3, IssueAtOnce
  <2>2. /\ totalSupply \in Nat /\ totalSupply' \in Nat
        /\ basketsNeeded \in Nat /\ basketsNeeded' \in Nat
        /\ \A t \in Tokens : backing[t] \in Nat /\ backing'[t] \in Nat
    BY <2>1 DEF IInv, TypeOK, Quantities
  <2>3. KeepsBacking
    BY <2>1 DEF KeepsBacking
  <2>4. NoDilution
    <3> SUFFICES ASSUME totalSupply' < totalSupply PROVE
            /\ \A t \in Tokens : backing'[t] * totalSupply >= backing[t] * totalSupply'
            /\ basketsNeeded' * totalSupply >= basketsNeeded * totalSupply'
      BY DEF NoDilution
    <3>1. ASSUME NEW x \in Nat, NEW y \in Nat, x <= y
          PROVE  y * totalSupply >= x * totalSupply'
      <4>1. x * totalSupply <= y * totalSupply
        BY <2>2, <3>1, MulMono
      <4>2. x * totalSupply' <= x * totalSupply
        <5>1. totalSupply' <= totalSupply
          BY <2>2
        <5> QED BY <2>2, <5>1, MulMono
      <4>3. x * totalSupply' \in Nat /\ x * totalSupply \in Nat /\ y * totalSupply \in Nat
        BY <2>2, MulNat
      <4> QED BY <4>1, <4>2, <4>3
    <3>2. \A t \in Tokens : backing[t] <= backing'[t]
      BY <2>1 DEF Covers
    <3> QED BY <2>1, <2>2, <3>1, <3>2
  <2>5. SomeCollateral => RevenueFair
    <3>1. status = "SOUND"
      BY DEF Issue
    <3> QED BY <2>1, <3>1 DEF SomeCollateral, RevenueFair
  <2>6. NothingEarly
    BY <2>1 DEF NothingEarly
  <2> QED BY <2>1, <2>3, <2>4, <2>5, <2>6 DEF StepSafe
<1> QED BY <1>1, <1>2, <1>3

\* Vesting and cancelling.
LEMMA QueueStepsSafe ==
    ASSUME IInv, NEW a \in Accounts, NEW endId \in 0 .. Len(queues[a].items),
           Vest(a, endId) \/ \E b \in BOOLEAN : Cancel(a, endId, b)
    PROVE  IInv' /\ StepSafe
<1> DEFINE q == queues[a]
<1>1. q \in IssueQueue /\ QueueOrdered(q, allVestAt)
  BY DEF IInv, TypeOK, QueuesOK
<1>2. /\ q.left \in q.left .. Len(q.items) /\ Len(q.items) \in q.left .. Len(q.items)
  <2>1. q.left \in Nat /\ Len(q.items) \in Nat
    BY <1>1, QueueFields
  <2>2. q.left <= Len(q.items)
    <3>1. CASE q.items = <<>>
      BY <1>1, <2>1, <3>1 DEF QueueOrdered
    <3>2. CASE q.items # <<>>
      BY <1>1, <2>1, <3>2 DEF QueueOrdered
    <3> QED BY <3>1, <3>2
  <2> QED BY <2>1, <2>2
<1>3. ASSUME NEW left, NEW right, left \in q.left .. Len(q.items),
             right \in q.left .. Len(q.items), left = q.left \/ right = Len(q.items),
             RefundSpan(a, left, right)
      PROVE  IInv' /\ StepSafe
  <2>1. IInv' /\ UNCHANGED <<totalSupply, basketsNeeded, backing, nonce, quantity>>
    BY <1>3, RefundStep
  <2>2. TypeOK /\ TypeOK' /\ totalSupply' <= totalSupply
    BY <2>1 DEF IInv, TypeOK
  <2> QED BY <2>1, <2>2, MeltedSafe
<1>4. CASE RefundSpan(a, q.left, Len(q.items))
  BY <1>2, <1>3, <1>4
<1>5. CASE q.basketNonce = nonce /\ VestUpTo(a, endId)
  <2>1. /\ IInv' /\ (Backed => Backed') /\ totalSupply' >= totalSupply
        /\ queues' # queues
        /\ \A b \in Accounts : \A i \in Pending(queues[b]) \ Pending(queues'[b]) :
              queues[b].items[i].when <= FIX_ONE * block
    BY <1>5, VestUpToStep
  <2>2. ~(totalSupply' < totalSupply)
    BY <2>1 DEF IInv, TypeOK
  <2> QED BY <2>1, <2>2 DEF StepSafe, KeepsBacking, NoDilution, RevenueFair, NothingEarly
<1>6. ASSUME NEW b \in BOOLEAN, Cancel(a, endId, b)
      PROVE  IInv' /\ StepSafe
  <2>1. /\ endId \in q.left .. Len(q.items)
        /\ RefundSpan(a, q.left, endId) \/ RefundSpan(a, endId, Len(q.items))
    BY <1>6 DEF Cancel
  <2> QED BY <1>2, <1>3, <2>1
<1> QED BY <1>4, <1>5, <1>6 DEF Vest

\* Revenue and the haircut.
LEMMA HandoutSafe ==
    ASSUME IInv, NEW held \in HeldOf,
           \/ \E erc20s \in SUBSET Tokens : HandoutExcessAssets(held, erc20s)
           \/ CompromiseBasketsNeeded(held)
    PROVE  IInv' /\ StepSafe
<1>1. ASSUME NEW erc20s \in SUBSET Tokens, HandoutExcessAssets(held, erc20s)
      PROVE  IInv' /\ StepSafe
  <2>1. /\ IInv' /\ Backed' /\ totalSupply' >= totalSupply /\ UNCHANGED queues
        /\ basketsNeeded' * totalSupply >= basketsNeeded * totalSupply'
    BY <1>1, HandoutStep
  <2>2. ~(totalSupply' < totalSupply)
    BY <2>1 DEF IInv, TypeOK
  <2> QED BY <2>1, <2>2 DEF StepSafe, KeepsBacking, NoDilution, RevenueFair, NothingEarly
<1>2. ASSUME CompromiseBasketsNeeded(held)
      PROVE  IInv' /\ StepSafe
  <2>1. /\ IInv' /\ Backed' /\ basketsNeeded' < basketsNeeded
        /\ UNCHANGED <<totalSupply, queues>>
    BY <1>2, CompromiseStep
  <2>2. TypeOK /\ TypeOK' /\ basketsNeeded' <= basketsNeeded
    BY <2>1 DEF IInv, TypeOK
  <2> QED BY <2>1, <2>2, SameSupplySafe DEF KeepsBacking
<1> QED BY <1>1, <1>2

\* Redeeming, melting and sweeping.
LEMMA SupplyStepsSafe ==
    ASSUME IInv,
           \/ \E m \in 0 .. totalSupply : \E amt \in 1 .. totalSupply - m : Redeem(amt, m)
           \/ \E amt \in 1 .. totalSupply : Melt(amt)
           \/ SweepRewards(Tokens) \/ \E t \in Tokens : SweepRewards({t})
    PROVE  IInv' /\ StepSafe
<1>1. ASSUME NEW m \in 0 .. totalSupply, NEW amt \in 1 .. totalSupply - m, Redeem(amt, m)
      PROVE  IInv' /\ StepSafe
  <2>1. /\ IInv' /\ (Backed => Backed')
        /\ totalSupply' < totalSupply /\ UNCHANGED queues
        /\ \A t \in Tokens : backing'[t] * totalSupply >= backing[t] * totalSupply'
        /\ basketsNeeded' * totalSupply >= basketsNeeded * totalSupply'
    BY <1>1, RedeemStep
  <2>2. ~(totalSupply' > totalSupply)
    BY <2>1 DEF IInv, TypeOK
  <2> QED BY <2>1, <2>2 DEF StepSafe, KeepsBacking, NoDilution, RevenueFair, NothingEarly
<1>2. ASSUME NEW amt \in 1 .. totalSupply, Melt(amt) PROVE IInv' /\ StepSafe
  <2>1. /\ IInv' /\ totalSupply' <= totalSupply
        /\ UNCHANGED <<basketsNeeded, backing, nonce, quantity, queues>>
    BY <1>2, MeltStep
  <2> QED BY <2>1, MeltedSafe DEF IInv
<1>3. ASSUME NEW tokens \in SUBSET Tokens, SweepRewards(tokens) PROVE IInv' /\ StepSafe
  <2>1. /\ IInv' /\ Covers(backing', backing)
        /\ UNCHANGED <<totalSupply, basketsNeeded, nonce, quantity, queues>>
    BY <1>3, SweepRewardsStep
  <2>2. TypeOK /\ TypeOK' /\ basketsNeeded' <= basketsNeeded
    BY <2>1 DEF IInv, TypeOK
  <2>3. KeepsBacking
    BY <2>1, <2>2, GrowingBacking
  <2> QED BY <2>1, <2>2, <2>3, SameSupplySafe
<1> QED BY <1>1, <1>2, <1>3

\* Governance, and the steps of other contracts.
LEMMA EnvironmentSafe ==
    ASSUME IInv,
           \/ \E r \in IssuanceRates : setIssuanceRate(r)
           \/ \E r \in Rates : setScalingRedemptionRate(r)
           \/ \E f \in Floors : setRedemptionRateFloor(f)
           \/ \E t \in Tokens, n \in 1 .. MaxAuction : Donate(t, n)
           \/ \E s, b \in Tokens, x, y \in 0 .. MaxAuction : Auction(s, b, x, y)
           \/ SwitchBasket \/ SetStatus \/ Appreciate \/ NextBlock \/ SetAccess
    PROVE  IInv' /\ StepSafe
<1> USE DEF supplyVars, vestVars, collVars, basketVars
<1>1. UNCHANGED supplyVars
  BY DEF setIssuanceRate, setScalingRedemptionRate, setRedemptionRateFloor, Donate, Auction,
         SwitchBasket, SetStatus, Appreciate, NextBlock, SetAccess
<1>2. IInv'
  BY SettersKeepIInv, TransfersKeepIInv, BasketStepsKeepIInv
<1>3. TypeOK /\ TypeOK' /\ totalSupply' = totalSupply /\ basketsNeeded' <= basketsNeeded
  BY <1>1, <1>2 DEF IInv, TypeOK
<1>4. KeepsBacking
  <2>1. ASSUME UNCHANGED <<backing, quantity>> PROVE KeepsBacking
    BY <1>1, <2>1 DEF KeepsBacking, Backed, Holds
  <2>2. CASE \/ \E r \in IssuanceRates : setIssuanceRate(r)
             \/ \E r \in Rates : setScalingRedemptionRate(r)
             \/ \E f \in Floors : setRedemptionRateFloor(f)
             \/ SetStatus \/ NextBlock \/ SetAccess
    BY <2>1, <2>2 DEF setIssuanceRate, setScalingRedemptionRate, setRedemptionRateFloor,
                      SetStatus, NextBlock, SetAccess
  <2>3. ASSUME NEW t \in Tokens, NEW n \in 1 .. MaxAuction, Donate(t, n)
        PROVE  KeepsBacking
    <3>1. /\ UNCHANGED quantity /\ n \in Nat /\ backing \in Quantities
          /\ backing' = backing \/ backing' = [backing EXCEPT ![t] = @ + n]
      BY <2>3, ConstantTypes DEF Donate, IInv, TypeOK
    <3>2. Covers(backing', backing)
      BY <3>1 DEF Covers, Quantities
    <3> QED BY <1>1, <1>3, <3>1, <3>2, GrowingBacking
  <2>4. ASSUME NEW s \in Tokens, NEW b \in Tokens, NEW x \in 0 .. MaxAuction,
               NEW y \in 0 .. MaxAuction, Auction(s, b, x, y)
        PROVE  KeepsBacking
    BY <2>4 DEF Auction, KeepsBacking
  <2>5. CASE SwitchBasket
    BY <1>3, <2>5 DEF SwitchBasket, KeepsBacking, TypeOK
  <2>6. CASE Appreciate
    BY <1>3, <2>6, AppreciateKeepsBacking DEF KeepsBacking
  <2> QED BY <2>2, <2>3, <2>4, <2>5, <2>6
<1> QED BY <1>2, <1>3, <1>4, SameSupplySafe

----------------------------------------------------------------------
\* The theorems

\* A new RToken has an empty queue for everybody and no basket.
LEMMA InitIInv == Init => IInv
<1> SUFFICES ASSUME Init PROVE IInv
  OBVIOUS
<1>1. ASSUME NEW a \in Accounts
      PROVE  /\ queues[a] \in IssueQueue /\ queues[a].basketNonce = 0
             /\ queues[a].left = 0 /\ queues[a].items = <<>>
  BY DEF Init, IssueQueue
<1>2. None \in Quantities
  BY NoneType
<1>3. TypeOK
  <2>1. battery \in Battery /\ battery.lastBlock <= block
    <3>1. PICK f \in Floors, r \in Rates : battery = NewBattery(f, r)
      BY DEF Init
    <3>2. f \in Nat /\ r \in Nat /\ block = 1
      BY ConstantTypes DEF Init
    <3> QED BY <3>1, <3>2 DEF NewBattery, Battery
  <2>2. issuanceRate \in 1 .. FIX_ONE
    BY ConstantTypes DEF Init
  <2>3. queues \in [Accounts -> IssueQueue]
    BY <1>1 DEF Init
  <2> QED BY <1>2, <2>1, <2>2, <2>3, ConstantTypes DEF Init, TypeOK, Statuses
<1>4. LiabilitiesCovered
  BY DEF Init, LiabilitiesCovered, Covers, None
<1>5. QueuesOK
  BY <1>1, <1>3, NoItems DEF TypeOK, QueuesOK
<1>6. NoncesOK
  BY <1>1 DEF Init, NoncesOK
<1>7. OneSchedule
  <2>1. \A a \in Accounts : Pending(queues[a]) = {}
    BY <1>1, <1>3, NoItems DEF TypeOK
  <2> QED BY <2>1 DEF OneSchedule
<1> QED BY <1>3, <1>4, <1>5, <1>6, <1>7 DEF IInv

\* Every step keeps the invariant and is safe.
LEMMA NextSafe == IInv /\ [Next]_vars => IInv' /\ StepSafe
<1> SUFFICES ASSUME IInv, [Next]_vars PROVE IInv' /\ StepSafe
  OBVIOUS
<1>1. ASSUME NEW a \in Accounts, NEW amt \in Amounts, NEW m \in 0 .. totalSupply,
             Issue(a, amt, m)
      PROVE  IInv' /\ StepSafe
  BY <1>1, IssueSafe
<1>2. ASSUME NEW a \in Accounts, NEW endId \in 0 .. Len(queues[a].items),
             Vest(a, endId) \/ \E b \in BOOLEAN : Cancel(a, endId, b)
      PROVE  IInv' /\ StepSafe
  BY <1>2, QueueStepsSafe
<1>3. CASE \/ \E m \in 0 .. totalSupply : \E amt \in 1 .. totalSupply - m : Redeem(amt, m)
           \/ \E amt \in 1 .. totalSupply : Melt(amt)
           \/ SweepRewards(Tokens) \/ \E t \in Tokens : SweepRewards({t})
  BY <1>3, SupplyStepsSafe
<1>4. ASSUME NEW held \in HeldOf,
             \/ \E erc20s \in SUBSET Tokens : HandoutExcessAssets(held, erc20s)
             \/ CompromiseBasketsNeeded(held)
      PROVE  IInv' /\ StepSafe
  BY <1>4, HandoutSafe
<1>5. CASE \/ \E r \in IssuanceRates : setIssuanceRate(r)
           \/ \E r \in Rates : setScalingRedemptionRate(r)
           \/ \E f \in Floors : setRedemptionRateFloor(f)
           \/ \E t \in Tokens, n \in 1 .. MaxAuction : Donate(t, n)
           \/ \E s, b \in Tokens, x, y \in 0 .. MaxAuction : Auction(s, b, x, y)
           \/ SwitchBasket \/ SetStatus \/ Appreciate \/ NextBlock \/ SetAccess
  BY <1>5, EnvironmentSafe
<1>6. CASE UNCHANGED vars
  <2>1. UNCHANGED <<queues, allVestAt, nonce, quantity, status>>
    BY <1>6 DEF vars, vestVars, basketVars
  <2>2. TypeOK'
    BY <1>6 DEF IInv, TypeOK, vars, supplyVars, vestVars, collVars, basketVars
  <2>3. LiabilitiesCovered'
    BY <1>6 DEF IInv, LiabilitiesCovered, vars, collVars
  <2>4. IInv'
    BY <2>1, <2>2, <2>3, QuietQueues DEF IInv
  <2>5. UNCHANGED <<totalSupply, basketsNeeded, backing, nonce, quantity>>
    BY <1>6 DEF vars, supplyVars, collVars, basketVars
  <2>6. TypeOK /\ totalSupply' <= totalSupply
    BY <2>5 DEF IInv, TypeOK
  <2> QED BY <2>2, <2>4, <2>5, <2>6, MeltedSafe
<1> QED BY <1>1, <1>2, <1>3, <1>4, <1>5, <1>6 DEF Next

\* The invariant holds in every state.
LEMMA IInvAlways == Spec => []IInv
<1>1. IInv /\ [Next]_vars => IInv'
  BY NextSafe
<1> QED BY InitIInv, <1>1, PTL DEF Spec

\* Every variable keeps its type: no subtraction of the contracts that the model
\* does not guard can go below zero.
THEOREM TypeCorrect == Spec => []TypeOK
<1>1. IInv => TypeOK
  BY DEF IInv
<1> QED BY IInvAlways, <1>1, PTL

\* The RToken contract holds what it owes to the issuers: sweepRewards() never
\* takes a deposit, and every refund and vesting can be paid.
THEOREM LiabilitiesAlwaysCovered == Spec => []LiabilitiesCovered
<1>1. IInv => LiabilitiesCovered
  BY DEF IInv
<1> QED BY IInvAlways, <1>1, PTL

\* issueQueues: however issuing, vesting, cancelling and refunding alternate,
\* [left, right) is a span of each queue and its cumulative entries are ordered.
THEOREM QueuesAlwaysOrdered == Spec => []QueuesOrdered
<1>1. IInv => QueuesOrdered
  BY DEF IInv, QueuesOK, QueueOrdered, QueuesOrdered
<1> QED BY IInvAlways, <1>1, PTL

\* whenFinished() gives no time twice, whoever issues.
THEOREM ScheduleAlwaysSingle == Spec => []OneSchedule
<1>1. IInv => OneSchedule
  BY DEF IInv
<1> QED BY IInvAlways, <1>1, PTL

\* issue() takes deposits for every basket that vest() will add, though the queue
\* records cumulative sums and collateral appreciates in between.
THEOREM PendingAlwaysBacked == Spec => []PendingIsBacked
<1>1. ASSUME IInv PROVE PendingIsBacked
  <2> SUFFICES ASSUME NEW a \in Accounts, queues[a].basketNonce = nonce,
                      NEW i \in Pending(queues[a]), NEW t \in Tokens
               PROVE  quantity[t] * SpanBaskets(queues[a], i - 1, i)
                          <= FIX_ONE * SpanDeposits(queues[a], i - 1, i)[t]
    BY DEF PendingIsBacked
  <2>1. queues[a] \in IssueQueue /\ QueueBacked(queues[a], quantity)
    BY <1>1 DEF IInv, TypeOK, QueuesOK
  <2>2. queues[a].left \in Nat /\ Len(queues[a].items) \in Nat
    BY <2>1, QueueFields
  <2>3. /\ i - 1 \in queues[a].left .. Len(queues[a].items)
        /\ i \in queues[a].left .. Len(queues[a].items) /\ i - 1 <= i
    BY <2>2 DEF Pending
  <2> QED BY <2>1, <2>3 DEF QueueBacked
<1> QED BY IInvAlways, <1>1, PTL

\* Nothing but a switch of the basket undercollateralises the RToken: issue(),
\* vest(), redeem(), melt(), mint() and setBasketsNeeded() keep it backed.
THEOREM BackingAlwaysKept == Spec => BackingKept
<1>1. IInv /\ [Next]_vars => (Backed /\ nonce' = nonce => Backed')
  BY NextSafe DEF StepSafe, KeepsBacking
<1> QED BY IInvAlways, <1>1, PTL DEF Spec, BackingKept

\* redeem() and melt() leave the remaining holders no less per RToken, for every
\* rounding and at every level of collateralisation.
THEOREM NeverDilutedByRedemption == Spec => NoDilutionByRedemption
<1>1. IInv /\ [Next]_vars =>
        (totalSupply' < totalSupply =>
           /\ \A t \in Tokens : backing'[t] * totalSupply >= backing[t] * totalSupply'
           /\ basketsNeeded' * totalSupply >= basketsNeeded * totalSupply')
  BY NextSafe DEF StepSafe, NoDilution
<1> QED BY IInvAlways, <1>1, PTL DEF Spec, NoDilutionByRedemption

\* vest() completes nothing that is not finished.
THEOREM NeverVestedEarly == Spec => NoEarlyVest
<1>1. IInv /\ [Next]_vars =>
        (\A a \in Accounts :
           totalSupply' > totalSupply /\ queues[a].basketNonce = nonce =>
             \A i \in Pending(queues[a]) \ Pending(queues'[a]) :
                 queues[a].items[i].when <= FIX_ONE * block)
  BY NextSafe DEF StepSafe, NothingEarly
<1> QED BY IInvAlways, <1>1, PTL DEF Spec, NoEarlyVest

\* No basket is empty: setPrimeBasket() takes neither an empty list of collateral
\* nor a target amount of zero, and quantities are rounded up.
BasketsNotEmpty == \A n \in DOMAIN Baskets : \A q \in Baskets[n] : \E t \in Tokens : q[t] > 0
BasketNotEmpty  == nonce = 0 \/ \E t \in Tokens : quantity[t] > 0

\* Only the basket handler and the collateral change the quantities.
LEMMA QuantityMoves ==
    ASSUME [Next]_vars
    PROVE  \/ UNCHANGED <<nonce, quantity>>
           \/ nonce' \in DOMAIN Baskets /\ quantity' \in Baskets[nonce']
<1> USE DEF vars, supplyVars, vestVars, collVars, basketVars
<1>1. ASSUME NEW a \in Accounts, NEW amt \in Amounts, NEW m \in 0 .. totalSupply,
             Issue(a, amt, m)
      PROVE  UNCHANGED <<nonce, quantity>>
  BY <1>1 DEF Issue
<1>2. ASSUME NEW a \in Accounts, NEW left, NEW right, RefundSpan(a, left, right)
      PROVE  UNCHANGED <<nonce, quantity>>
  BY <1>2 DEF RefundSpan
<1>3. ASSUME NEW a \in Accounts, NEW endId, VestUpTo(a, endId)
      PROVE  UNCHANGED <<nonce, quantity>>
  BY <1>3 DEF VestUpTo
<1>4. ASSUME NEW a \in Accounts, NEW endId,
             Vest(a, endId) \/ \E b \in BOOLEAN : Cancel(a, endId, b)
      PROVE  UNCHANGED <<nonce, quantity>>
  BY <1>2, <1>3, <1>4 DEF Vest, Cancel
<1>5. ASSUME NEW m, NEW amt, Redeem(amt, m)
      PROVE  UNCHANGED <<nonce, quantity>>
  BY <1>5 DEF Redeem
<1>6. ASSUME NEW tokens, SweepRewards(tokens)
      PROVE  UNCHANGED <<nonce, quantity>>
  BY <1>6 DEF SweepRewards
<1>7. ASSUME NEW held, NEW erc20s,
             HandoutExcessAssets(held, erc20s) \/ CompromiseBasketsNeeded(held)
      PROVE  UNCHANGED <<nonce, quantity>>
  BY <1>7 DEF HandoutExcessAssets, CompromiseBasketsNeeded
<1>8. CASE \/ \E amt \in 1 .. totalSupply : Melt(amt)
           \/ \E r \in IssuanceRates : setIssuanceRate(r)
           \/ \E r \in Rates : setScalingRedemptionRate(r)
           \/ \E f \in Floors : setRedemptionRateFloor(f)
           \/ \E t \in Tokens, n \in 1 .. MaxAuction : Donate(t, n)
           \/ \E s, b \in Tokens, x, y \in 0 .. MaxAuction : Auction(s, b, x, y)
           \/ SetStatus \/ NextBlock \/ SetAccess
  BY <1>8 DEF Melt, setIssuanceRate, setScalingRedemptionRate, setRedemptionRateFloor, Donate,
              Auction, SetStatus, NextBlock, SetAccess
<1>9. CASE SwitchBasket
  BY <1>9 DEF SwitchBasket
<1>10. CASE Appreciate
  BY <1>10 DEF Appreciate
<1> QED BY <1>1, <1>4, <1>5, <1>6, <1>7, <1>8, <1>9, <1>10 DEF Next

\* Minting revenue never lowers the exchange rate, and only revenue raises
\* basketsNeeded without collateral.
THEOREM NeverDilutedByRevenue ==
    ASSUME BasketsNotEmpty
    PROVE  Spec => NoDilutionByRevenue
<1>1. Init => BasketNotEmpty
  BY DEF Init, BasketNotEmpty
<1>2. BasketNotEmpty /\ [Next]_vars => BasketNotEmpty'
  BY QuantityMoves DEF BasketNotEmpty, BasketsNotEmpty
<1>3. Spec => []BasketNotEmpty
  BY <1>1, <1>2, PTL DEF Spec
<1>4. IInv /\ BasketNotEmpty => SomeCollateral
  BY DEF IInv, NoncesOK, BasketNotEmpty, SomeCollateral
<1>5. IInv /\ BasketNotEmpty /\ [Next]_vars =>
        (queues' = queues /\ basketsNeeded' > basketsNeeded /\ Covers(backing, backing') =>
           basketsNeeded' * totalSupply >= basketsNeeded * totalSupply')
  BY <1>4, NextSafe DEF StepSafe, RevenueFair
<1> QED BY IInvAlways, <1>3, <1>5, PTL DEF Spec, NoDilutionByRevenue

----------------------------------------------------------------------
\* The throttle.  What a step does to the battery and the supply:

ThrottleStep ==
    \/ \E m \in 0 .. totalSupply : \E amt \in 1 .. totalSupply - m :
          /\ Dischargeable(battery, totalSupply - m, amt, block)
          /\ battery' = discharge(battery, totalSupply - m, amt, block)
          /\ totalSupply' = totalSupply - m - amt /\ block' = block
    \/ \E f \in Floors : /\ battery' = [battery EXCEPT !.redemptionRateFloor = f]
                         /\ UNCHANGED <<totalSupply, block>>
    \/ \E r \in Rates : /\ r <= FIX_ONE
                        /\ battery' = [battery EXCEPT !.scalingRedemptionRate = r]
                        /\ UNCHANGED <<totalSupply, block>>
    \/ block < MaxBlock /\ block' = block + 1 /\ UNCHANGED <<battery, totalSupply>>
    \/ UNCHANGED <<battery, block>>

\* redeem() and the setters are the only steps that touch the battery.
LEMMA StepIsThrottled == [Next]_vars => ThrottleStep
<1> USE DEF vars, supplyVars, vestVars, collVars, basketVars
<1> SUFFICES ASSUME [Next]_vars PROVE ThrottleStep
  OBVIOUS
<1>1. ASSUME NEW a \in Accounts, NEW amt \in Amounts, NEW m \in 0 .. totalSupply,
             Issue(a, amt, m)
      PROVE  UNCHANGED <<battery, block>>
  BY <1>1 DEF Issue
<1>2. ASSUME NEW a \in Accounts, NEW left, NEW right, RefundSpan(a, left, right)
      PROVE  UNCHANGED <<battery, block>>
  BY <1>2 DEF RefundSpan
<1>3. ASSUME NEW a \in Accounts, NEW endId, VestUpTo(a, endId)
      PROVE  UNCHANGED <<battery, block>>
  BY <1>3 DEF VestUpTo
<1>4. ASSUME NEW a \in Accounts, NEW endId,
             Vest(a, endId) \/ \E b \in BOOLEAN : Cancel(a, endId, b)
      PROVE  UNCHANGED <<battery, block>>
  BY <1>2, <1>3, <1>4 DEF Vest, Cancel
<1>5. ASSUME NEW m \in 0 .. totalSupply, NEW amt \in 1 .. totalSupply - m, Redeem(amt, m)
      PROVE  /\ Dischargeable(battery, totalSupply - m, amt, block)
             /\ battery' = discharge(battery, totalSupply - m, amt, block)
             /\ totalSupply' = totalSupply - m - amt /\ block' = block
  BY <1>5 DEF Redeem
<1>6. ASSUME NEW tokens, SweepRewards(tokens)
      PROVE  UNCHANGED <<battery, block>>
  BY <1>6 DEF SweepRewards
<1>7. ASSUME NEW held, NEW erc20s,
             HandoutExcessAssets(held, erc20s) \/ CompromiseBasketsNeeded(held)
      PROVE  UNCHANGED <<battery, block>>
  BY <1>7 DEF HandoutExcessAssets, CompromiseBasketsNeeded
<1>8. CASE \/ \E amt \in 1 .. totalSupply : Melt(amt)
           \/ \E r \in IssuanceRates : setIssuanceRate(r)
           \/ \E t \in Tokens, n \in 1 .. MaxAuction : Donate(t, n)
           \/ \E s, b \in Tokens, x, y \in 0 .. MaxAuction : Auction(s, b, x, y)
           \/ SwitchBasket \/ SetStatus \/ Appreciate \/ SetAccess
  BY <1>8 DEF ThrottleStep, Melt, setIssuanceRate, Donate, Auction, SwitchBasket, SetStatus,
              Appreciate, SetAccess
<1>9. ASSUME NEW r \in Rates, setScalingRedemptionRate(r) PROVE ThrottleStep
  BY <1>9 DEF setScalingRedemptionRate, ThrottleStep
<1>10. ASSUME NEW f \in Floors, setRedemptionRateFloor(f) PROVE ThrottleStep
  BY <1>10 DEF setRedemptionRateFloor, ThrottleStep
<1>11. CASE NextBlock
  BY <1>11 DEF NextBlock, ThrottleStep
<1>12. (UNCHANGED <<battery, block>>) => ThrottleStep
  BY DEF ThrottleStep
<1>13. ASSUME NEW m \in 0 .. totalSupply, NEW amt \in 1 .. totalSupply - m, Redeem(amt, m)
       PROVE  ThrottleStep
  BY <1>5, <1>13 DEF ThrottleStep
<1>14. CASE UNCHANGED vars
  BY <1>12, <1>14
<1> QED BY <1>1, <1>4, <1>6, <1>7, <1>8, <1>9, <1>10, <1>11, <1>12, <1>13, <1>14 DEF Next

\* The RToken implements the throttle: redeem() alone draws on the battery and
\* nothing it calls or is interleaved with beats the limit, whatever rates
\* governance sets.
THEOREM RedemptionsAlwaysThrottled == Spec => RedemptionsThrottled
<1>1. Init => Throttle!Init
  <2> SUFFICES ASSUME Init PROVE Throttle!Init
    OBVIOUS
  <2>1. \E f \in Floors, r \in Rates : r <= FIX_ONE /\ battery = NewBattery(f, r)
    BY DEF Init
  <2>2. \E f \in Floors, r \in Rates : r <= FIX_ONE /\ battery = Throttle!NewBattery(f, r)
    BY <2>1 DEF NewBattery, Throttle!NewBattery
  <2>3. totalSupply = 0 /\ block = 1
    BY DEF Init
  <2> QED BY <2>2, <2>3 DEF Throttle!Init
<1>2. ASSUME IInv, IInv', ThrottleStep
      PROVE  [Throttle!Next]_(Throttle!vars)
  <2>1. totalSupply \in Nat /\ totalSupply' \in Nat
    BY <1>2 DEF IInv, TypeOK
  <2>3. ASSUME NEW m \in 0 .. totalSupply, NEW amt \in 1 .. totalSupply - m,
               Dischargeable(battery, totalSupply - m, amt, block),
               battery' = discharge(battery, totalSupply - m, amt, block),
               totalSupply' = totalSupply - m - amt, block' = block
        PROVE  Throttle!Redeem(amt, m)
    <3>1. amt > 0 /\ amt <= totalSupply - m
      BY <2>1
    <3> QED BY <2>3, <3>1 DEF Throttle!Redeem, Throttle!Peak, Throttle!Dischargeable,
               Throttle!discharge, Throttle!currentCharge, Throttle!Recharge,
               Throttle!amtPerHour, Throttle!Unthrottled, Throttle!fixMin, Throttle!fixMax,
               Dischargeable, discharge, currentCharge, Recharge, amtPerHour, Unthrottled,
               fixMin, fixMax
  <2>4. ASSUME NEW f \in Floors, battery' = [battery EXCEPT !.redemptionRateFloor = f],
               UNCHANGED <<totalSupply, block>>
        PROVE  Throttle!setRedemptionRateFloor(f)
    BY <2>4 DEF Throttle!setRedemptionRateFloor, Throttle!Rewatch
  <2>5. ASSUME NEW r \in Rates, r <= FIX_ONE,
               battery' = [battery EXCEPT !.scalingRedemptionRate = r],
               UNCHANGED <<totalSupply, block>>
        PROVE  Throttle!setScalingRedemptionRate(r)
    BY <2>5 DEF Throttle!setScalingRedemptionRate, Throttle!Rewatch
  <2>6. CASE block < MaxBlock /\ block' = block + 1 /\ UNCHANGED <<battery, totalSupply>>
    BY <2>6 DEF Throttle!NextBlock, Throttle!Next
  <2>7. CASE UNCHANGED <<battery, block>>
    BY <2>1, <2>7 DEF Throttle!ChangeSupply, Throttle!Peak, Throttle!Next
  <2> QED BY <1>2, <2>3, <2>4, <2>5, <2>6, <2>7 DEF ThrottleStep, Throttle!Next
<1>3. IInv /\ [Next]_vars => IInv' /\ [Throttle!Next]_(Throttle!vars)
  BY <1>2, NextSafe, StepIsThrottled
<1> QED BY InitIInv, <1>1, <1>3, PTL DEF Spec, RedemptionsThrottled, Throttle!Spec

----------------------------------------------------------------------
\* The deposits of pending issuances

LiabilitiesMatch ==
    \A t \in Tokens :
        liabilities[t] = SumFunction([a \in Accounts |-> PendingDeposits(queues[a])[t]])

\* What is pending in a queue is the difference of two of its cumulative entries.
LEMMA PendingType ==
    ASSUME NEW q \in IssueQueue, NEW end, QueueOrdered(q, end)
    PROVE  /\ q.left \in 0 .. Len(q.items) /\ Len(q.items) \in 0 .. Len(q.items)
           /\ PendingDeposits(q) \in Quantities
<1>1. q.left \in Nat /\ Len(q.items) \in Nat
  BY QueueFields
<1>2. q.left <= Len(q.items)
  <2>1. CASE q.items = <<>>
    BY <1>1, <2>1 DEF QueueOrdered
  <2>2. CASE q.items # <<>>
    BY <1>1, <2>2 DEF QueueOrdered
  <2> QED BY <2>1, <2>2
<1>3. q.left \in 0 .. Len(q.items) /\ Len(q.items) \in 0 .. Len(q.items)
  BY <1>1, <1>2
<1> QED BY <1>2, <1>3, SpanType DEF PendingDeposits

\* The deposits of one token, of a span.
LEMMA SpanOf ==
    ASSUME NEW q \in IssueQueue, NEW i \in 0 .. Len(q.items), NEW j \in 0 .. Len(q.items),
           NEW t \in Tokens
    PROVE  /\ item(q, i).deposits[t] \in Nat /\ item(q, j).deposits[t] \in Nat
           /\ SpanDeposits(q, i, j)[t] = item(q, j).deposits[t] - item(q, i).deposits[t]
<1>1. item(q, i) \in IssueItem /\ item(q, j) \in IssueItem
  BY ItemType
<1>2. item(q, i).deposits \in Quantities /\ item(q, j).deposits \in Quantities
  BY <1>1, ItemFields
<1> QED BY <1>2 DEF SpanDeposits, Minus, Quantities

\* refundSpan() and vestUpTo() take the deposits of their span, at either end, off what
\* is pending.
LEMMA WithoutSpanDeposits ==
    ASSUME NEW q \in IssueQueue, NEW end, QueueOrdered(q, end),
           NEW left \in q.left .. Len(q.items), NEW right \in q.left .. Len(q.items),
           left < right, left = q.left \/ right = Len(q.items), NEW t \in Tokens
    PROVE  PendingDeposits(WithoutSpan(q, left, right))[t]
               = PendingDeposits(q)[t] - SpanDeposits(q, left, right)[t]
<1> DEFINE w == WithoutSpan(q, left, right)
           last == Len(q.items)
<1> SUFFICES PendingDeposits(w)[t] = PendingDeposits(q)[t] - SpanDeposits(q, left, right)[t]
  OBVIOUS
<1>1. q.left \in 0 .. last /\ last \in 0 .. last
  BY PendingType
<1>2. last \in Nat /\ q.items \in Seq(IssueItem)
      /\ q = [basketNonce |-> q.basketNonce, left |-> q.left, items |-> q.items]
  BY DEF IssueQueue
<1>3. left \in 0 .. last /\ right \in 0 .. last /\ q.left <= left
  BY <1>1, <1>2
<1>4. /\ item(q, q.left).deposits[t] \in Nat /\ item(q, last).deposits[t] \in Nat
      /\ item(q, left).deposits[t] \in Nat /\ item(q, right).deposits[t] \in Nat
      /\ SpanDeposits(q, left, right)[t]
             = item(q, right).deposits[t] - item(q, left).deposits[t]
      /\ PendingDeposits(q)[t] = item(q, last).deposits[t] - item(q, q.left).deposits[t]
  BY <1>1, <1>3, SpanOf DEF PendingDeposits
<1>5. /\ w \in IssueQueue /\ Len(w.items) <= last
      /\ \A i \in 0 .. Len(w.items) : item(w, i) = item(q, i)
      /\ w.items = <<>> => w.left = 0
      /\ w.items # <<>> => q.left <= w.left /\ w.left < Len(w.items)
  BY WithoutSpanItems DEF QueueOrdered
<1>6. w.left \in 0 .. Len(w.items) /\ Len(w.items) \in 0 .. Len(w.items)
  <2> HIDE DEF w
  <2>1. w.left \in Nat /\ Len(w.items) \in Nat
    BY <1>5, QueueFields
  <2>2. CASE w.items = <<>>
    BY <1>5, <2>1, <2>2
  <2>3. CASE w.items # <<>>
    BY <1>5, <2>1, <2>3
  <2> QED BY <2>2, <2>3
<1>7. PendingDeposits(w)[t] = item(q, Len(w.items)).deposits[t] - item(q, w.left).deposits[t]
  <2> HIDE DEF w
  <2>1. PendingDeposits(w)[t] = item(w, Len(w.items)).deposits[t] - item(w, w.left).deposits[t]
    BY <1>5, <1>6, SpanOf DEF PendingDeposits
  <2> QED BY <1>5, <1>6, <2>1
<1>8. CASE left = q.left /\ right = last
  <2>1. w.left = 0 /\ w.items = <<>> /\ Len(w.items) = 0
    BY <1>8 DEF WithoutSpan, Emptied
  <2>2. item(q, 0).deposits[t] \in Nat
    BY <1>1, <1>2, SpanOf
  <2> HIDE DEF w
  <2>3. PendingDeposits(w)[t] = 0
    BY <1>7, <2>1, <2>2
  <2>4. PendingDeposits(q)[t] = SpanDeposits(q, left, right)[t]
    BY <1>8 DEF PendingDeposits
  <2> QED BY <1>4, <2>3, <2>4
<1>9. CASE left = q.left /\ right # last
  <2>1. w.left = right /\ w.items = q.items
    BY <1>2, <1>9 DEF WithoutSpan
  <2> HIDE DEF w
  <2> QED BY <1>4, <1>7, <1>9, <2>1
<1>10. CASE left # q.left
  <2>1. w.left = q.left /\ w.items = SubSeq(q.items, 1, left)
    BY <1>2, <1>10 DEF WithoutSpan
  <2>2. Len(w.items) = left
    <3>1. left \in 1 .. last
      BY <1>1, <1>3, <1>10
    <3>2. \A i \in 1 .. left : q.items[i] \in IssueItem
      BY <1>2, <3>1
    <3>3. Len(SubSeq(q.items, 1, left)) = left
      BY <1>2, <3>1, <3>2, SubSeqProperties
    <3> QED BY <2>1, <3>3
  <2>3. SpanDeposits(q, left, right)[t]
            = item(q, last).deposits[t] - item(q, left).deposits[t]
    BY <1>4, <1>10
  <2>4. PendingDeposits(w)[t] = item(q, left).deposits[t] - item(q, q.left).deposits[t]
    BY <1>7, <2>1, <2>2
  <2> HIDE DEF w, last
  <2> QED BY <1>4, <2>3, <2>4
<1> QED BY <1>8, <1>9, <1>10

\* issue() adds the deposits of its entry to what is pending.
LEMMA AppendedDeposits ==
    ASSUME NEW q \in IssueQueue, NEW end, QueueOrdered(q, end), NEW n \in Nat,
           NEW iss \in IssueItem, NEW deposits \in Quantities, NEW t \in Tokens,
           iss.deposits = Plus(item(q, Len(q.items)).deposits, deposits)
    PROVE  PendingDeposits(Appended(q, iss, n))[t] = PendingDeposits(q)[t] + deposits[t]
<1> DEFINE w == Appended(q, iss, n)
           last == Len(q.items)
<1>1. q.left \in 0 .. last /\ last \in 0 .. last /\ last \in Nat
  BY PendingType, QueueFields
<1>2. /\ w \in IssueQueue /\ w.left = q.left /\ Len(w.items) = last + 1
      /\ \A i \in 0 .. last : item(w, i) = item(q, i)
      /\ item(w, last + 1) = iss
  BY AppendItems
<1> HIDE DEF w
<1>3. w.left \in 0 .. Len(w.items) /\ Len(w.items) \in 0 .. Len(w.items)
  BY <1>1, <1>2
<1>4. PendingDeposits(w)[t] = iss.deposits[t] - item(q, q.left).deposits[t]
  <2>1. PendingDeposits(w)[t] = item(w, Len(w.items)).deposits[t] - item(w, w.left).deposits[t]
    BY <1>2, <1>3, SpanOf DEF PendingDeposits
  <2> QED BY <1>1, <1>2, <2>1
<1>5. /\ item(q, q.left).deposits[t] \in Nat /\ item(q, last).deposits[t] \in Nat
      /\ PendingDeposits(q)[t] = item(q, last).deposits[t] - item(q, q.left).deposits[t]
  BY <1>1, SpanOf DEF PendingDeposits
<1>6. iss.deposits[t] = item(q, last).deposits[t] + deposits[t] /\ deposits[t] \in Nat
  BY DEF Plus, Quantities
<1> QED BY <1>4, <1>5, <1>6 DEF w

\* When one queue changes, and the liabilities by the deposits that came or went, they match.
LEMMA OneQueueMatches ==
    ASSUME IInv, IInv', LiabilitiesMatch, NEW a \in Accounts, NEW w,
           queues' = [queues EXCEPT ![a] = w],
           \A t \in Tokens :
               liabilities'[t] = liabilities[t]
                                 + (PendingDeposits(w)[t] - PendingDeposits(queues[a])[t])
    PROVE  LiabilitiesMatch'
<1> SUFFICES ASSUME NEW t \in Tokens
             PROVE  liabilities'[t]
                        = SumFunction([b \in Accounts |-> PendingDeposits(queues'[b])[t]])
  BY DEF LiabilitiesMatch
<1> DEFINE f == [b \in Accounts |-> PendingDeposits(queues[b])[t]]
           g == [b \in Accounts |-> PendingDeposits(queues'[b])[t]]
<1>1. \A b \in Accounts : PendingDeposits(queues[b])[t] \in Int
  <2>1. \A b \in Accounts : queues[b] \in IssueQueue /\ QueueOrdered(queues[b], allVestAt)
    BY DEF IInv, TypeOK, QueuesOK
  <2>2. \A b \in Accounts : PendingDeposits(queues[b]) \in Quantities
    BY <2>1, PendingType
  <2> QED BY <2>2 DEF Quantities
<1>2. \A b \in Accounts : PendingDeposits(queues'[b])[t] \in Int
  <2>1. \A b \in Accounts : queues'[b] \in IssueQueue /\ QueueOrdered(queues'[b], allVestAt')
    BY DEF IInv, TypeOK, QueuesOK
  <2>2. \A b \in Accounts : PendingDeposits(queues'[b]) \in Quantities
    BY <2>1, PendingType
  <2> QED BY <2>2 DEF Quantities
<1>3. \A b \in Accounts : queues'[b] = IF b = a THEN w ELSE queues[b]
  BY DEF IInv, TypeOK
<1>4. /\ f \in [Accounts -> Int] /\ g \in [Accounts -> Int]
      /\ \A b \in Accounts : b # a => g[b] = f[b]
      /\ f[a] = PendingDeposits(queues[a])[t] /\ g[a] = PendingDeposits(w)[t]
  BY <1>1, <1>2, <1>3
<1>5. liabilities[t] = SumFunction(f)
  BY DEF LiabilitiesMatch
<1>6. liabilities'[t] = liabilities[t] + (g[a] - f[a])
  BY <1>4
<1> HIDE DEF f, g
<1>7. SumFunction(g) = SumFunction(f) + (g[a] - f[a])
  BY <1>4, RTokenAssumption, SumChange
<1>8. liabilities'[t] = SumFunction(g)
  BY <1>5, <1>6, <1>7
<1> QED BY <1>8 DEF g

\* A step that leaves the queues and the liabilities alone.
LEMMA QuietMatches ==
    ASSUME LiabilitiesMatch, UNCHANGED <<queues, liabilities>>
    PROVE  LiabilitiesMatch'
  BY DEF LiabilitiesMatch

\* refundSpan() and vestUpTo() take off the liabilities what they take off the queue.
LEMMA SpanMatches ==
    ASSUME IInv, IInv', LiabilitiesMatch, NEW a \in Accounts, NEW left, NEW right,
           left \in queues[a].left .. Len(queues[a].items),
           right \in queues[a].left .. Len(queues[a].items), left < right,
           left = queues[a].left \/ right = Len(queues[a].items),
           queues' = [queues EXCEPT ![a] = WithoutSpan(@, left, right)],
           liabilities' = Minus(liabilities, SpanDeposits(queues[a], left, right))
    PROVE  LiabilitiesMatch'
<1> DEFINE q == queues[a]
           w == WithoutSpan(q, left, right)
           deposits == SpanDeposits(q, left, right)
<1>1. q \in IssueQueue /\ QueueOrdered(q, allVestAt) /\ liabilities \in Quantities
  BY DEF IInv, TypeOK, QueuesOK
<1>2. q.left \in Nat /\ Len(q.items) \in Nat
  BY <1>1, QueueFields
<1>3. left \in 0 .. Len(q.items) /\ right \in 0 .. Len(q.items) /\ left <= right
  BY <1>2
<1>4. deposits \in Quantities /\ PendingDeposits(q) \in Quantities
  BY <1>1, <1>3, SpanType, PendingType
<1>5. \A t \in Tokens : PendingDeposits(w)[t] = PendingDeposits(q)[t] - deposits[t]
  BY <1>1, WithoutSpanDeposits
<1>6. queues' = [queues EXCEPT ![a] = w] /\ liabilities' = Minus(liabilities, deposits)
  OBVIOUS
<1> HIDE DEF w, deposits
<1>7. \A t \in Tokens :
          liabilities'[t] = liabilities[t] + (PendingDeposits(w)[t] - PendingDeposits(q)[t])
  BY <1>1, <1>4, <1>5, <1>6 DEF Minus, Quantities
<1> QED BY <1>6, <1>7, OneQueueMatches

\* issue() refunds what is pending in a queue against an old basket.
LEMMA FreshDeposits ==
    ASSUME IInv, NEW a \in Accounts, NEW t \in Tokens
    PROVE  /\ PendingDeposits(queues[a])[t] \in Nat /\ Refund(queues[a])[t] \in Nat
           /\ PendingDeposits(FreshQueue(queues[a]))[t]
                  = PendingDeposits(queues[a])[t] - Refund(queues[a])[t]
<1> DEFINE q == queues[a]
<1>1. q \in IssueQueue /\ QueueOrdered(q, allVestAt)
  BY DEF IInv, TypeOK, QueuesOK
<1> HIDE DEF q
<1>2. PendingDeposits(q)[t] \in Nat
  BY <1>1, PendingType DEF Quantities
<1>3. CASE StaleQueue(q)
  <2>1. FreshQueue(q) = Emptied(q) /\ Refund(q) = PendingDeposits(q)
    BY <1>3 DEF FreshQueue, Refund
  <2>2. PendingDeposits(Emptied(q))[t] = 0
    BY DEF PendingDeposits, Emptied, SpanDeposits, item, ZeroItem, None, Minus
  <2> QED BY <1>2, <2>1, <2>2 DEF q
<1>4. CASE ~StaleQueue(q)
  <2>1. FreshQueue(q) = q /\ Refund(q)[t] = 0
    BY <1>4 DEF FreshQueue, Refund, None
  <2> QED BY <1>2, <2>1 DEF q
<1> QED BY <1>3, <1>4

\* issue() moves the liabilities by the refund and, when it queues, by the new deposits.
LEMMA IssueMatches ==
    ASSUME IInv, IInv', LiabilitiesMatch, NEW a \in Accounts, NEW amt \in Amounts,
           NEW m \in 0 .. totalSupply, Issue(a, amt, m)
    PROVE  LiabilitiesMatch'
<1> DEFINE q          == queues[a]
           refund     == Refund(q)
           supply     == totalSupply - m
           amtBaskets == BasketsFor(amt, supply)
           deposits   == QuoteUp(amtBaskets)
           queue      == FreshQueue(q)
           iss        == NewItem(queue, amt, supply)
           w          == Appended(queue, iss, nonce)
<1>1. \/ /\ queues' = [queues EXCEPT ![a] = queue]
         /\ liabilities' = Minus(liabilities, refund)
      \/ /\ queues' = [queues EXCEPT ![a] = w]
         /\ liabilities' = Plus(Minus(liabilities, refund), deposits)
  BY DEF Issue, Refund, FreshQueue, Appended, NewItem
<1>2. /\ amt \in Nat \ {0} /\ supply \in Nat /\ amtBaskets \in Nat
      /\ deposits \in Quantities /\ whenFinished(amt, supply) \in Nat
  BY IssueCommon
<1>3. queue \in IssueQueue /\ QueueOrdered(queue, allVestAt)
  BY FreshQueueType
<1>4. liabilities \in Quantities /\ nonce \in Nat
  BY DEF IInv, TypeOK
<1>5. \A t \in Tokens :
          /\ PendingDeposits(q)[t] \in Nat /\ refund[t] \in Nat
          /\ PendingDeposits(queue)[t] = PendingDeposits(q)[t] - refund[t]
  BY FreshDeposits
<1>6. CASE /\ queues' = [queues EXCEPT ![a] = queue]
           /\ liabilities' = Minus(liabilities, refund)
  <2> HIDE DEF queue, refund
  <2>1. \A t \in Tokens :
          liabilities'[t] = liabilities[t] + (PendingDeposits(queue)[t] - PendingDeposits(q)[t])
    BY <1>4, <1>5, <1>6 DEF Minus, Quantities
  <2> QED BY <1>6, <2>1, OneQueueMatches
<1>7. CASE /\ queues' = [queues EXCEPT ![a] = w]
           /\ liabilities' = Plus(Minus(liabilities, refund), deposits)
  <2> DEFINE prev == item(queue, Len(queue.items))
  <2>1. /\ iss.deposits = Plus(prev.deposits, deposits)
        /\ iss = [when |-> whenFinished(amt, supply), amtRToken |-> prev.amtRToken + amt,
                  amtBaskets |-> prev.amtBaskets + amtBaskets,
                  deposits |-> Plus(prev.deposits, deposits)]
    BY DEF NewItem
  <2> HIDE DEF queue, refund, supply, amtBaskets, deposits, iss
  <2>2. Len(queue.items) \in 0 .. Len(queue.items)
    BY <1>3, PendingType
  <2>3. prev \in IssueItem
    BY <1>3, <2>2, ItemType
  <2>4. /\ prev.amtRToken \in Nat /\ prev.amtBaskets \in Nat /\ prev.deposits \in Quantities
    BY <2>3, ItemFields
  <2>5. iss \in IssueItem
    <3>1. Plus(prev.deposits, deposits) \in Quantities
      BY <1>2, <2>4, PlusType
    <3>2. prev.amtRToken + amt \in Nat /\ prev.amtBaskets + amtBaskets \in Nat
      BY <1>2, <2>4, SMTT(60)
    <3> HIDE DEF prev
    <3> QED BY <1>2, <2>1, <3>1, <3>2 DEF IssueItem
  <2>6. \A t \in Tokens : PendingDeposits(w)[t] = PendingDeposits(queue)[t] + deposits[t]
    BY <1>2, <1>3, <1>4, <2>1, <2>5, AppendedDeposits
  <2> HIDE DEF w, prev
  <2>7. \A t \in Tokens :
          liabilities'[t] = liabilities[t] + (PendingDeposits(w)[t] - PendingDeposits(q)[t])
    BY <1>2, <1>4, <1>5, <1>7, <2>6 DEF Plus, Minus, Quantities
  <2> QED BY <1>7, <2>7, OneQueueMatches
<1> QED BY <1>1, <1>6, <1>7

\* Every step keeps the liabilities equal to the deposits of pending issuances.
LEMMA NextMatches == IInv /\ LiabilitiesMatch /\ [Next]_vars => LiabilitiesMatch'
<1> SUFFICES ASSUME IInv, LiabilitiesMatch, [Next]_vars PROVE LiabilitiesMatch'
  OBVIOUS
<1>1. IInv'
  BY NextSafe
<1>2. ASSUME NEW a \in Accounts
      PROVE  /\ queues[a].left \in queues[a].left .. Len(queues[a].items)
             /\ Len(queues[a].items) \in queues[a].left .. Len(queues[a].items)
             /\ queues[a].left \in Nat /\ Len(queues[a].items) \in Nat
  <2>1. queues[a] \in IssueQueue /\ QueueOrdered(queues[a], allVestAt)
    BY DEF IInv, TypeOK, QueuesOK
  <2>2. queues[a].left \in 0 .. Len(queues[a].items) /\ Len(queues[a].items) \in Nat
    BY <2>1, PendingType, QueueFields
  <2> QED BY <2>2
<1>3. ASSUME NEW a \in Accounts, NEW left, NEW right,
             left \in queues[a].left .. Len(queues[a].items),
             right \in queues[a].left .. Len(queues[a].items),
             left = queues[a].left \/ right = Len(queues[a].items),
             RefundSpan(a, left, right)
      PROVE  LiabilitiesMatch'
  <2>1. /\ left < right
        /\ queues' = [queues EXCEPT ![a] = WithoutSpan(@, left, right)]
        /\ liabilities' = Minus(liabilities, SpanDeposits(queues[a], left, right))
    BY <1>3 DEF RefundSpan
  <2> QED BY <1>1, <1>3, <2>1, SpanMatches
<1>4. ASSUME NEW a \in Accounts, NEW endId, VestUpTo(a, endId)
      PROVE  LiabilitiesMatch'
  <2>1. /\ endId \in Pending(queues[a])
        /\ queues' = [queues EXCEPT ![a] = WithoutSpan(@, queues[a].left, endId)]
        /\ liabilities' = Minus(liabilities, SpanDeposits(queues[a], queues[a].left, endId))
    BY <1>4 DEF VestUpTo
  <2>2. endId \in queues[a].left .. Len(queues[a].items) /\ queues[a].left < endId
    BY <1>2, <2>1 DEF Pending
  <2> QED BY <1>1, <1>2, <2>1, <2>2, SpanMatches
<1>5. ASSUME NEW a \in Accounts, NEW endId \in 0 .. Len(queues[a].items), Vest(a, endId)
      PROVE  LiabilitiesMatch'
  BY <1>2, <1>3, <1>4, <1>5 DEF Vest
<1>6. ASSUME NEW a \in Accounts, NEW endId \in 0 .. Len(queues[a].items),
             NEW b \in BOOLEAN, Cancel(a, endId, b)
      PROVE  LiabilitiesMatch'
  <2>1. endId \in queues[a].left .. Len(queues[a].items)
    BY <1>6 DEF Cancel
  <2>2. \/ RefundSpan(a, queues[a].left, endId)
        \/ RefundSpan(a, endId, Len(queues[a].items))
    BY <1>6 DEF Cancel
  <2> QED BY <1>2, <1>3, <2>1, <2>2
<1>7. ASSUME NEW a \in Accounts, NEW amt \in Amounts, NEW m \in 0 .. totalSupply,
             Issue(a, amt, m)
      PROVE  LiabilitiesMatch'
  BY <1>1, <1>7, IssueMatches
<1>8. CASE \/ \E m \in 0 .. totalSupply : \E amt \in 1 .. totalSupply - m : Redeem(amt, m)
           \/ \E amt \in 1 .. totalSupply : Melt(amt)
           \/ SweepRewards(Tokens) \/ \E t \in Tokens : SweepRewards({t})
           \/ \E held \in HeldOf :
                 \/ \E erc20s \in SUBSET Tokens : HandoutExcessAssets(held, erc20s)
                 \/ CompromiseBasketsNeeded(held)
  <2>1. UNCHANGED <<queues, liabilities>>
    BY <1>8 DEF Redeem, Melt, SweepRewards, HandoutExcessAssets, CompromiseBasketsNeeded
  <2> QED BY <2>1, QuietMatches
<1>9. CASE \/ \E r \in IssuanceRates : setIssuanceRate(r)
           \/ \E r \in Rates : setScalingRedemptionRate(r)
           \/ \E f \in Floors : setRedemptionRateFloor(f)
           \/ \E t \in Tokens, n \in 1 .. MaxAuction : Donate(t, n)
           \/ \E s, b \in Tokens, x, y \in 0 .. MaxAuction : Auction(s, b, x, y)
           \/ SwitchBasket \/ SetStatus \/ Appreciate \/ NextBlock \/ SetAccess
  <2>1. UNCHANGED <<queues, liabilities>>
    BY <1>9 DEF setIssuanceRate, setScalingRedemptionRate, setRedemptionRateFloor, Donate,
                Auction, SwitchBasket, SetStatus, Appreciate, NextBlock, SetAccess
  <2> QED BY <2>1, QuietMatches
<1>10. CASE UNCHANGED vars
  BY <1>10, QuietMatches DEF vars
<1> QED BY <1>5, <1>6, <1>7, <1>8, <1>9, <1>10 DEF Next

\* Nobody is owed anything at first.
LEMMA InitMatches == Init => LiabilitiesMatch
<1> SUFFICES ASSUME Init, NEW t \in Tokens
             PROVE  liabilities[t]
                        = SumFunction([a \in Accounts |-> PendingDeposits(queues[a])[t]])
  BY DEF LiabilitiesMatch
<1> DEFINE f == [a \in Accounts |-> PendingDeposits(queues[a])[t]]
<1>1. \A a \in Accounts : PendingDeposits(queues[a])[t] = 0
  BY DEF Init, PendingDeposits, SpanDeposits, item, ZeroItem, None, Minus
<1>2. f \in [Accounts -> Nat] /\ \A a \in Accounts : f[a] = 0
  BY <1>1
<1>3. liabilities[t] = 0
  BY DEF Init, None
<1> HIDE DEF f
<1>4. SumFunction(f) = 0
  BY <1>2, RTokenAssumption, SumNat
<1> QED BY <1>3, <1>4 DEF f

\* liabilities: in every state exactly the deposits of all pending issuances, through partial
\* vesting, cancellation at either end and refunds after a basket change, and all of them held.
THEOREM DepositsAlwaysHeld == Spec => []DepositsHeld
<1>1. IInv /\ LiabilitiesMatch /\ [Next]_vars => (IInv /\ LiabilitiesMatch)'
  BY NextSafe, NextMatches
<1>2. Init => IInv /\ LiabilitiesMatch
  BY InitIInv, InitMatches
<1>3. IInv /\ LiabilitiesMatch => DepositsHeld
  BY DEF IInv, LiabilitiesMatch, DepositsHeld
<1> QED BY <1>1, <1>2, <1>3, PTL DEF Spec

----------------------------------------------------------------------
\* What vest() is offered

\* endIdForVest(): an issuance of the queue is due exactly when it is not after the end that
\* is returned, so that vest() accepts that end and no later one.
THEOREM EndIdForVestAlwaysMaximal == Spec => []EndIdForVestIsMaximal
<1>1. IInv => EndIdForVestIsMaximal
  <2> SUFFICES ASSUME IInv, NEW a \in Accounts
               PROVE  /\ endIdForVest(a) \in Pending(queues[a]) \cup {queues[a].left}
                      /\ \A i \in Pending(queues[a]) : Due(queues[a], i) <=> i <= endIdForVest(a)
    BY DEF EndIdForVestIsMaximal
  <2> DEFINE q     == queues[a]
             right == Len(q.items)
             now   == FIX_ONE * block
             due   == {i \in 1 .. right : Due(q, i)}
             end   == endIdForVest(a)
  <2>1. q \in IssueQueue /\ QueueOrdered(q, allVestAt) /\ block \in Nat
    BY DEF IInv, TypeOK, QueuesOK
  <2>2. q.left \in Nat /\ right \in Nat /\ now \in Nat
    BY <2>1, QueueFields, ConstantTypes, MulNat
  <2>3. end = IF Pending(q) = {} \/ ~Due(q, q.left + 1) THEN q.left
              ELSE IF Due(q, right) THEN right
              ELSE SearchEnd(due, q.left, right)
    BY DEF endIdForVest
  <2>4. Pending(q) = (q.left + 1) .. right
    BY DEF Pending
  <2>5. ASSUME NEW i \in Pending(q), NEW j \in Pending(q), i <= j, Due(q, j)
        PROVE  Due(q, i)
    <3>1. i \in 0 .. right /\ j \in 0 .. right
      BY <2>2, <2>4
    <3>2. item(q, i).when \in Nat /\ item(q, j).when \in Nat /\ item(q, i).when <= item(q, j).when
      BY <2>1, <2>5, <3>1, SpanType
    <3>3. item(q, j).when <= now
      BY <2>5 DEF Due
    <3> HIDE DEF now
    <3>4. item(q, i).when <= now
      BY <2>2, <3>2, <3>3
    <3> QED BY <3>4 DEF Due, now
  <2> HIDE DEF q, end
  <2>6. CASE Pending(q) = {} \/ ~Due(q, q.left + 1)
    <3>1. end = q.left
      BY <2>3, <2>6
    <3>2. ASSUME NEW i \in Pending(q)
          PROVE  ~Due(q, i) /\ ~(i <= q.left)
      <4>1. q.left + 1 \in Pending(q) /\ q.left + 1 <= i /\ i \in Nat
        BY <2>2, <2>4
      <4>2. ~Due(q, i)
        BY <2>5, <2>6, <4>1
      <4> QED BY <2>2, <4>1, <4>2
    <3> QED BY <3>1, <3>2 DEF q, end
  <2>7. CASE Pending(q) # {} /\ Due(q, q.left + 1) /\ Due(q, right)
    <3>1. end = right
      BY <2>3, <2>7
    <3>2. right \in Pending(q) /\ \A i \in Pending(q) : i <= right
      BY <2>2, <2>4, <2>7
    <3>3. \A i \in Pending(q) : Due(q, i)
      BY <2>5, <2>7, <3>2
    <3> QED BY <3>1, <3>2, <3>3 DEF q, end
  <2>8. CASE Pending(q) # {} /\ Due(q, q.left + 1) /\ ~Due(q, right)
    <3>1. end = SearchEnd(due, q.left, right)
      BY <2>3, <2>8
    <3>2. q.left < right /\ q.left + 1 \in 1 .. right
      BY <2>2, <2>4, <2>8
    <3>3. \A i \in Pending(q) : i \in due <=> Due(q, i)
      BY <2>2, <2>4
    <3>4. q.left + 1 \in due
      BY <2>8, <3>2
    <3> HIDE DEF due, right
    <3>5. \A i, j \in (q.left + 1) .. right : i <= j /\ j \in due => i \in due
      BY <2>4, <2>5, <3>3
    <3>6. /\ SearchEnd(due, q.left, right) \in (q.left + 1) .. right
          /\ \A i \in (q.left + 1) .. right : i \in due <=> i <= SearchEnd(due, q.left, right)
      BY <2>2, <3>2, <3>4, <3>5, SearchFindsEnd
    <3> QED BY <2>4, <3>1, <3>3, <3>6 DEF q, end
  <2> QED BY <2>6, <2>7, <2>8
<1> QED BY IInvAlways, <1>1, PTL
======================================================================
