--------------------------- MODULE Trading_proofs ---------------------------
(***************************************************************************)
(* Trades are counted right, for any number of tokens, amounts and         *)
(* auctions, and the BackingManager, which goes by the count, judges its   *)
(* backing only when all of it is there.  Nobody pays more than he has,    *)
(* revenue is split by the shares, and a poor trade stops all trading.     *)
(***************************************************************************)
EXTENDS Trading, DataLemmas, SequenceTheorems

\* What the proofs need to know of a clone.
CloneOK(c) ==
    /\ {"status", "origin", "sell"} \subseteq DOMAIN c
    /\ c.status \in {"OPEN", "CLOSED"}
    /\ c.origin \in Traders
    /\ c.sell \in Tokens

\* Holdings are a table.
Table(h) ==
    /\ h = [x \in Holders |-> h[x]]
    /\ \A x \in Holders : h[x] = [t \in Tokens |-> h[x][t]]

Shape ==
    /\ Table(held)
    /\ Len(clones) \in Nat
    /\ clones = [i \in 1 .. Len(clones) |-> clones[i]]
    /\ \A i \in 1 .. Len(clones) : CloneOK(clones[i])
    /\ trades \in [Traders -> [Tokens -> 0 .. Len(clones)]]
    /\ tradesOpen \in [Traders -> Nat]

IInv == Shape /\ TradesCounted

\* A clone stays what it is to the table of trades.
SameOfClone(i) ==
    /\ CloneOK(clones'[i])
    /\ clones'[i].status = clones[i].status
    /\ clones'[i].origin = clones[i].origin
    /\ clones'[i].sell = clones[i].sell

\* A step that leaves the clones what they are to the table of trades.
SameTrades ==
    /\ UNCHANGED <<trades, tradesOpen>>
    /\ clones' = [i \in 1 .. Len(clones) |-> clones'[i]]
    /\ \A i \in 1 .. Len(clones) : SameOfClone(i)

\* The length of a sequence given as a function.
LEMMA LenOf ==
    ASSUME NEW n \in Nat, NEW s, s = [i \in 1 .. n |-> s[i]]
    PROVE  Len(s) = n /\ DOMAIN s = 1 .. n /\ s \in Seq({s[i] : i \in 1 .. n})
<1> DEFINE S == {s[i] : i \in 1 .. n}
<1>1. s \in [1 .. n -> S]
  OBVIOUS
<1> HIDE DEF S
<1>2. s \in Seq(S) /\ DOMAIN s = 1 .. n
  BY <1>1
<1>3. Len(s) = n
  BY <1>2
<1> QED BY <1>2, <1>3 DEF S

\* What a sequence is after an element was added.
LEMMA AppendOf ==
    ASSUME NEW n \in Nat, NEW s, s = [i \in 1 .. n |-> s[i]], NEW e
    PROVE  /\ Append(s, e) = [i \in 1 .. n + 1 |-> Append(s, e)[i]]
           /\ Len(Append(s, e)) = n + 1
           /\ \A i \in 1 .. n : Append(s, e)[i] = s[i]
           /\ Append(s, e)[n + 1] = e
<1> DEFINE S == {s[i] : i \in 1 .. n} \cup {e}
           t == Append(s, e)
<1>1. s \in [1 .. n -> S]
  OBVIOUS
<1>2. e \in S
  OBVIOUS
<1> HIDE DEF S
<1>3. s \in Seq(S) /\ Len(s) = n
  BY <1>1, LenOf
<1>4. /\ t \in Seq(S) /\ Len(t) = n + 1
      /\ \A i \in 1 .. n : t[i] = s[i]
      /\ t[n + 1] = e
  BY <1>2, <1>3, AppendProperties
<1> HIDE DEF t
<1>5. t = [i \in 1 .. n + 1 |-> t[i]]
  BY <1>4
<1> QED BY <1>4, <1>5 DEF t

\* The three parts of the count, after a step.
LEMMA CountedNext ==
    ASSUME \A x \in Traders : tradesOpen'[x] = Cardinality({t \in Tokens : trades'[x][t] # 0}),
           \A x \in Traders, t \in Tokens : trades'[x][t] # 0 =>
              /\ clones'[trades'[x][t]].status = "OPEN"
              /\ clones'[trades'[x][t]].origin = x
              /\ clones'[trades'[x][t]].sell = t,
           \A i \in DOMAIN clones' :
              clones'[i].status = "OPEN" => trades'[clones'[i].origin][clones'[i].sell] = i
    PROVE  TradesCounted'
BY ZenonT(60) DEF TradesCounted

\* A step that changes neither the table nor what it says of the clones
\* leaves the count right.
LEMMA SameTradesKeeps ==
    ASSUME IInv, SameTrades,
           Table(held')
    PROVE  IInv' /\ Len(clones') = Len(clones)
<1>1. Len(clones) \in Nat /\ clones' = [i \in 1 .. Len(clones) |-> clones'[i]]
      /\ DOMAIN clones = 1 .. Len(clones)
  BY DEF IInv, Shape, SameTrades, SameOfClone
<1>2. Len(clones') = Len(clones) /\ DOMAIN clones' = 1 .. Len(clones)
  BY <1>1, LenOf
<1>3. Shape'
  BY <1>1, <1>2 DEF IInv, Shape, SameTrades, SameOfClone, CloneOK
<1>4. \A x \in Traders : tradesOpen'[x] = Cardinality({t \in Tokens : trades'[x][t] # 0})
  BY DEF IInv, TradesCounted, SameTrades, SameOfClone
<1>5. \A x \in Traders, t \in Tokens : trades'[x][t] # 0 =>
          /\ clones'[trades'[x][t]].status = "OPEN"
          /\ clones'[trades'[x][t]].origin = x
          /\ clones'[trades'[x][t]].sell = t
  <2> SUFFICES ASSUME NEW x \in Traders, NEW t \in Tokens, trades[x][t] # 0
               PROVE  /\ clones'[trades[x][t]].status = "OPEN"
                      /\ clones'[trades[x][t]].origin = x
                      /\ clones'[trades[x][t]].sell = t
    BY DEF SameTrades
  <2>1. trades[x][t] \in 1 .. Len(clones)
    BY <1>1 DEF IInv, Shape
  <2> QED BY <2>1 DEF IInv, TradesCounted, SameTrades, SameOfClone
<1>6. \A i \in DOMAIN clones' :
          clones'[i].status = "OPEN" => trades'[clones'[i].origin][clones'[i].sell] = i
  BY <1>1, <1>2 DEF IInv, TradesCounted, SameTrades, SameOfClone
<1>7. TradesCounted'
  BY <1>4, <1>5, <1>6, CountedNext
<1> QED BY <1>2, <1>3, <1>7 DEF IInv

\* The count, the table and the clones after a trade was opened.
LEMMA OpenedKeeps ==
    ASSUME IInv, NEW x \in Traders, NEW sell \in Tokens, trades[x][sell] = 0,
           NEW c, CloneOK(c), c.status = "OPEN", c.origin = x, c.sell = sell,
           clones' = Append(clones, c),
           trades' = [trades EXCEPT ![x][sell] = Len(clones) + 1],
           tradesOpen' = [tradesOpen EXCEPT ![x] = @ + 1],
           Table(held')
    PROVE  IInv'
<1> DEFINE n == Len(clones)
<1>1. n \in Nat /\ clones = [i \in 1 .. n |-> clones[i]] /\ DOMAIN clones = 1 .. n
  BY DEF IInv, Shape
<1>2. /\ clones' = [i \in 1 .. n + 1 |-> clones'[i]]
      /\ Len(clones') = n + 1
      /\ \A i \in 1 .. n : clones'[i] = clones[i]
      /\ clones'[n + 1] = c
  BY <1>1, AppendOf
<1>3. /\ trades \in [Traders -> [Tokens -> 0 .. n]]
      /\ \A i \in 1 .. n : CloneOK(clones[i])
      /\ tradesOpen \in [Traders -> Nat]
  BY DEF IInv, Shape
<1> HIDE DEF n
<1>4. /\ trades' \in [Traders -> [Tokens -> 0 .. n + 1]]
      /\ \A y \in Traders, t \in Tokens :
            trades'[y][t] = IF y = x /\ t = sell THEN n + 1 ELSE trades[y][t]
  <2>1. trades' = [trades EXCEPT ![x][sell] = n + 1]
    BY DEF n
  <2> QED BY <1>1, <1>3, <2>1
<1>5. /\ tradesOpen' \in [Traders -> Nat]
      /\ \A y \in Traders : tradesOpen'[y] = IF y = x THEN tradesOpen[x] + 1 ELSE tradesOpen[y]
  BY <1>3
<1>6. \A i \in 1 .. n + 1 : CloneOK(clones'[i])
  <2>1. \A i \in 1 .. n + 1 : i \in 1 .. n \/ i = n + 1
    BY <1>1
  <2> QED BY <1>2, <1>3, <2>1
<1>7. Shape'
  BY <1>1, <1>2, <1>4, <1>5, <1>6 DEF Shape
<1>8. ASSUME NEW y \in Traders
      PROVE  tradesOpen'[y] = Cardinality({t \in Tokens : trades'[y][t] # 0})
  <2> DEFINE S == {t \in Tokens : trades[y][t] # 0}
             T == {t \in Tokens : trades'[y][t] # 0}
  <2>1. tradesOpen[y] = Cardinality(S)
    BY DEF IInv, TradesCounted
  <2>2. CASE y # x
    <3>1. T = S
      BY <1>4, <2>2
    <3> QED BY <1>5, <2>1, <2>2, <3>1
  <2>3. CASE y = x
    <3>1. T = S \cup {sell} /\ sell \notin S
      BY <1>1, <1>4, <2>3
    <3>2. IsFiniteSet(S)
      BY TokensAssumption, FS_Subset
    <3> HIDE DEF S, T
    <3>3. Cardinality(S \cup {sell}) = Cardinality(S) + 1
      BY <3>1, <3>2, FS_AddElement
    <3>4. tradesOpen'[y] = Cardinality(T)
      BY <1>5, <2>1, <2>3, <3>1, <3>3
    <3> QED BY <3>4 DEF T
  <2> QED BY <2>2, <2>3
<1>9. ASSUME NEW y \in Traders, NEW t \in Tokens, trades'[y][t] # 0
      PROVE  /\ clones'[trades'[y][t]].status = "OPEN"
             /\ clones'[trades'[y][t]].origin = y
             /\ clones'[trades'[y][t]].sell = t
  <2>1. CASE y = x /\ t = sell
    BY <1>2, <1>4, <2>1
  <2>2. CASE ~(y = x /\ t = sell)
    <3>1. trades'[y][t] = trades[y][t] /\ trades[y][t] \in 1 .. n
      BY <1>1, <1>3, <1>4, <1>9, <2>2
    <3>2. /\ clones[trades[y][t]].status = "OPEN"
          /\ clones[trades[y][t]].origin = y
          /\ clones[trades[y][t]].sell = t
      BY <1>9, <3>1 DEF IInv, TradesCounted
    <3>3. clones'[trades'[y][t]] = clones[trades[y][t]]
      BY <1>2, <3>1
    <3> QED BY <3>2, <3>3
  <2> QED BY <2>1, <2>2
<1>10. ASSUME NEW i \in DOMAIN clones', clones'[i].status = "OPEN"
       PROVE  trades'[clones'[i].origin][clones'[i].sell] = i
  <2>1. CASE i = n + 1
    BY <1>2, <1>4, <2>1
  <2>2. CASE i \in 1 .. n
    <3>1. trades[clones[i].origin][clones[i].sell] = i /\ clones'[i] = clones[i]
      BY <1>1, <1>2, <1>10, <2>2 DEF IInv, TradesCounted
    <3>2. clones[i].origin \in Traders /\ clones[i].sell \in Tokens
      BY <1>3, <2>2 DEF CloneOK
    <3>3. ~(clones[i].origin = x /\ clones[i].sell = sell)
      BY <1>1, <2>2, <3>1
    <3> QED BY <1>4, <3>1, <3>2, <3>3
  <2>3. i \in 1 .. n + 1
    BY <1>2
  <2> QED BY <1>1, <2>1, <2>2, <2>3
<1>11. TradesCounted'
  BY <1>8, <1>9, <1>10, CountedNext
<1> QED BY <1>7, <1>11 DEF IInv

\* The same after a trade was settled.
LEMMA SettledKeeps ==
    ASSUME IInv, NEW x \in Traders, NEW sell \in Tokens, trades[x][sell] # 0,
           NEW c, CloneOK(c), c.status = "CLOSED",
           clones' = [clones EXCEPT ![trades[x][sell]] = c],
           trades' = [trades EXCEPT ![x][sell] = 0],
           tradesOpen' = [tradesOpen EXCEPT ![x] = @ - 1],
           Table(held')
    PROVE  IInv'
<1> DEFINE n == Len(clones)
           j == trades[x][sell]
<1>1. n \in Nat /\ clones = [i \in 1 .. n |-> clones[i]] /\ DOMAIN clones = 1 .. n
      /\ j \in 1 .. n
  BY DEF IInv, Shape
<1>2. /\ clones[j].status = "OPEN" /\ clones[j].origin = x /\ clones[j].sell = sell
      /\ \A y \in Traders, t \in Tokens : trades[y][t] = j => y = x /\ t = sell
  BY DEF IInv, TradesCounted
<1>3. /\ trades \in [Traders -> [Tokens -> 0 .. n]]
      /\ \A i \in 1 .. n : CloneOK(clones[i])
      /\ tradesOpen \in [Traders -> Nat]
  BY DEF IInv, Shape
<1>4. clones' = [clones EXCEPT ![j] = c]
  OBVIOUS
<1> HIDE DEF n, j
<1>5. /\ clones' = [i \in 1 .. n |-> clones'[i]]
      /\ clones'[j] = c
      /\ \A i \in 1 .. n : i # j => clones'[i] = clones[i]
  BY <1>1, <1>4
<1>6. Len(clones') = n /\ DOMAIN clones' = 1 .. n
  BY <1>1, <1>5, LenOf
<1>7. /\ trades' \in [Traders -> [Tokens -> 0 .. n]]
      /\ \A y \in Traders, t \in Tokens :
            trades'[y][t] = IF y = x /\ t = sell THEN 0 ELSE trades[y][t]
  BY <1>1, <1>3
<1>8. /\ Cardinality({t \in Tokens : trades'[x][t] # 0}) = tradesOpen[x] - 1
      /\ tradesOpen[x] - 1 \in Nat
  <2> DEFINE S == {t \in Tokens : trades[x][t] # 0}
             T == {t \in Tokens : trades'[x][t] # 0}
  <2>1. tradesOpen[x] = Cardinality(S) /\ tradesOpen[x] \in Nat
    BY <1>3 DEF IInv, TradesCounted
  <2>2. T = S \ {sell} /\ sell \in S
    BY <1>1, <1>7 DEF j
  <2>3. IsFiniteSet(S)
    BY TokensAssumption, FS_Subset
  <2>4. IsFiniteSet(T)
    BY TokensAssumption, FS_Subset
  <2> HIDE DEF S, T
  <2>5. Cardinality(S \ {sell}) = Cardinality(S) - 1
    BY <2>2, <2>3, FS_RemoveElement
  <2>6. Cardinality(T) \in Nat
    BY <2>4, FS_CardinalityType
  <2>7. Cardinality(T) = tradesOpen[x] - 1 /\ tradesOpen[x] - 1 \in Nat
    BY <2>1, <2>2, <2>5, <2>6
  <2> QED BY <2>7 DEF T
<1>9. /\ tradesOpen' \in [Traders -> Nat]
      /\ \A y \in Traders : tradesOpen'[y] = IF y = x THEN tradesOpen[x] - 1 ELSE tradesOpen[y]
  BY <1>3, <1>8
<1>10. \A i \in 1 .. n : CloneOK(clones'[i])
  BY <1>3, <1>5
<1>11. Shape'
  BY <1>1, <1>5, <1>6, <1>7, <1>9, <1>10 DEF Shape
<1>12. ASSUME NEW y \in Traders
       PROVE  tradesOpen'[y] = Cardinality({t \in Tokens : trades'[y][t] # 0})
  <2>1. CASE y # x
    <3>1. {t \in Tokens : trades'[y][t] # 0} = {t \in Tokens : trades[y][t] # 0}
      BY <1>7, <2>1
    <3>2. tradesOpen[y] = Cardinality({t \in Tokens : trades[y][t] # 0})
      BY DEF IInv, TradesCounted
    <3> QED BY <1>9, <2>1, <3>1, <3>2
  <2>2. CASE y = x
    BY <1>8, <1>9, <2>2
  <2> QED BY <2>1, <2>2
<1>13. ASSUME NEW y \in Traders, NEW t \in Tokens, trades'[y][t] # 0
       PROVE  /\ clones'[trades'[y][t]].status = "OPEN"
              /\ clones'[trades'[y][t]].origin = y
              /\ clones'[trades'[y][t]].sell = t
  <2>1. ~(y = x /\ t = sell) /\ trades'[y][t] = trades[y][t] /\ trades[y][t] \in 1 .. n
    BY <1>1, <1>3, <1>7, <1>13
  <2>2. trades[y][t] # j
    BY <1>2, <2>1
  <2> QED BY <1>5, <1>13, <2>1, <2>2 DEF IInv, TradesCounted
<1>14. ASSUME NEW i \in DOMAIN clones', clones'[i].status = "OPEN"
       PROVE  trades'[clones'[i].origin][clones'[i].sell] = i
  <2>1. i \in 1 .. n /\ i # j
    BY <1>5, <1>6, <1>14
  <2>2. clones'[i] = clones[i]
    BY <1>5, <2>1
  <2>3. trades[clones[i].origin][clones[i].sell] = i
    BY <1>1, <1>14, <2>1, <2>2 DEF IInv, TradesCounted
  <2>4. clones[i].origin \in Traders /\ clones[i].sell \in Tokens
    BY <1>3, <2>1 DEF CloneOK
  <2>5. ~(clones[i].origin = x /\ clones[i].sell = sell)
    BY <2>1, <2>3 DEF j
  <2> QED BY <1>7, <2>2, <2>3, <2>4, <2>5
<1>15. TradesCounted'
  BY <1>12, <1>13, <1>14, CountedNext
<1> QED BY <1>11, <1>15 DEF IInv

(***************************************************************************)
(* The actions.                                                            *)
(***************************************************************************)
\* What a transfer does to the holdings.
LEMMA Given ==
    ASSUME NEW h, Table(h), NEW y \in Holders, NEW token \in Tokens, NEW n
    PROVE  /\ Table(Give(h, y, token, n))
           /\ \A x \in Holders : x # y => Give(h, y, token, n)[x] = h[x]
BY DEF Table, Give

LEMMA Taken ==
    ASSUME NEW h, Table(h), NEW y \in Holders, NEW token \in Tokens, NEW n
    PROVE  /\ Table(Take(h, y, token, n))
           /\ \A x \in Holders : x # y => Take(h, y, token, n)[x] = h[x]
BY DEF Table, Take

LEMMA NewTradeOK ==
    ASSUME NEW x \in Traders, NEW sell \in Tokens, NEW buy, NEW req, NEW length
    PROVE  LET c == NewTrade(x, sell, buy, req, length)
           IN  CloneOK(c) /\ c.status = "OPEN" /\ c.origin = x /\ c.sell = sell
BY DEF NewTrade, CloneOK

LEMMA tryTradeKeeps ==
    ASSUME IInv, NEW h, Table(h), NEW x \in Traders, NEW sell \in Tokens, NEW buy, NEW amount, NEW min,
           tryTrade(h, x, sell, buy, amount, min)
    PROVE  IInv' /\ \A y \in Holders : y # x => held'[y] = h[y]
<1> DEFINE req == Resized(amount, min)
<1>1. PICK length \in AuctionLengths : clones' = Append(clones, NewTrade(x, sell, buy, req, length))
  BY DEF tryTrade
<1>2. /\ trades[x][sell] = 0
      /\ held' = Give(h, x, sell, req.sell)
      /\ trades' = [trades EXCEPT ![x][sell] = Len(clones) + 1]
      /\ tradesOpen' = [tradesOpen EXCEPT ![x] = @ + 1]
  BY DEF tryTrade
<1> DEFINE new == NewTrade(x, sell, buy, req, length)
<1>3. CloneOK(new) /\ new.status = "OPEN" /\ new.origin = x /\ new.sell = sell
  BY NewTradeOK
<1>4. Table(held') /\ \A y \in Holders : y # x => held'[y] = h[y]
  BY <1>2, Given DEF Holders
<1>5. clones' = Append(clones, new)
  BY <1>1
<1> HIDE DEF req, new
<1>6. IInv'
  BY <1>2, <1>3, <1>4, <1>5, OpenedKeeps
<1> QED BY <1>4, <1>6

LEMMA distributeKeepsTable ==
    ASSUME IInv, NEW x \in RevenueTraders, NEW token \in Tokens, NEW amount,
           distribute(x, token, amount)
    PROVE  Table(held') /\ held'[BackingManager] = held[BackingManager]
<1>1. BackingManager \in Holders \ Destinations /\ BackingManager # x /\ x \notin Destinations
  BY TradersAssumption DEF Holders, Traders
<1>2. Table(held)
  BY DEF IInv, Shape
<1> DEFINE paid == SumFunction([d \in Destinations |-> transferAmt(token, amount, d)])
           gain(y) == transferAmt(token, amount, y)
<1>3. held' = [y \in Holders |->
                  CASE y \in Destinations -> [held[y] EXCEPT ![token] = @ + gain(y)]
                    [] y = x -> [held[y] EXCEPT ![token] = @ - paid]
                    [] OTHER -> held[y]]
  BY DEF distribute
<1> HIDE DEF paid, gain
<1>4. held'[BackingManager] = held[BackingManager]
  BY <1>1, <1>3
<1>5. ASSUME NEW y \in Holders
      PROVE  held'[y] = [t \in Tokens |-> held'[y][t]]
  <2>1. held[y] = [t \in Tokens |-> held[y][t]]
    BY <1>2 DEF Table
  <2>2. CASE y \in Destinations
    <3>1. held'[y] = [held[y] EXCEPT ![token] = @ + gain(y)]
      BY <1>1, <1>3, <2>2
    <3> QED BY <2>1, <3>1
  <2>3. CASE y \notin Destinations /\ y = x
    <3>1. held'[y] = [held[y] EXCEPT ![token] = @ - paid]
      BY <1>3, <2>3
    <3> QED BY <2>1, <3>1
  <2>4. CASE y \notin Destinations /\ y # x
    BY <1>3, <2>1, <2>4
  <2> QED BY <2>2, <2>3, <2>4
<1>6. held' = [y \in Holders |-> held'[y]]
  BY <1>3
<1> QED BY <1>4, <1>5, <1>6 DEF Table

\* The clones as they are.
LEMMA SameClones ==
    ASSUME IInv, UNCHANGED <<clones, trades, tradesOpen>>
    PROVE  SameTrades
BY DEF IInv, Shape, SameTrades, SameOfClone

LEMMA manageTokenKeeps ==
    ASSUME IInv, NEW x \in RevenueTraders, NEW erc20 \in Tokens, manageToken(x, erc20)
    PROVE  IInv' /\ UNCHANGED basketsNeeded /\ held'[BackingManager] = held[BackingManager]
<1>1. Table(held) /\ x \in Traders /\ BackingManager \in Holders /\ BackingManager # x
  BY TradersAssumption DEF IInv, Shape, Holders, Traders
<1>2. CASE erc20 = tokenToBuy(x)
  <2>1. distribute(x, erc20, held[x][erc20]) /\ UNCHANGED <<clones, trades, tradesOpen, basketsNeeded>>
    BY <1>2 DEF manageToken
  <2>2. SameTrades
    BY <2>1, SameClones
  <2> QED BY <2>1, <2>2, distributeKeepsTable, SameTradesKeeps
<1>3. CASE erc20 # tokenToBuy(x)
  <2>1. PICK n \in sellAmounts(held[x][erc20]), minBuy \in MinBuys :
           tryTrade(held, x, erc20, tokenToBuy(x), n, minBuy)
    BY <1>3 DEF manageToken
  <2>2. UNCHANGED basketsNeeded
    BY DEF manageToken
  <2> QED BY <1>1, <2>1, <2>2, tryTradeKeeps
<1> QED BY <1>2, <1>3

LEMMA handoutKeeps ==
    ASSUME IInv, NEW erc20s, handoutExcessAssets(erc20s)
    PROVE  IInv'
<1>1. PICK rTok \in 0 .. held[BackingManager][Basket] - basketsNeeded :
        LET bm == held[BackingManager]
            excess(t) == CASE t \notin erc20s \cup {RSR} \/ t = Basket -> 0
                           [] t = RToken -> bm[RToken] + rTok
                           [] OTHER -> bm[t]
            gets(x, t) == IF t = RSR THEN (IF x = RSRTrader THEN bm[RSR] ELSE 0)
                                     ELSE toTrader(x, excess(t))
        IN
        /\ basketsNeeded' = bm[Basket]
        /\ held' = [x \in Holders |->
              CASE x \in RevenueTraders -> [t \in Tokens |-> held[x][t] + gets(x, t)]
                [] x = BackingManager ->
                      [t \in Tokens |-> (IF t = RToken THEN bm[t] + rTok ELSE bm[t])
                                            - gets(RSRTrader, t) - gets(RTokenTrader, t)]
                [] OTHER -> held[x]]
        /\ UNCHANGED <<clones, trades, tradesOpen>>
  BY Zenon DEF handoutExcessAssets
<1> DEFINE bm == held[BackingManager]
           excess(t) == CASE t \notin erc20s \cup {RSR} \/ t = Basket -> 0
                           [] t = RToken -> bm[RToken] + rTok
                           [] OTHER -> bm[t]
           gets(x, t) == IF t = RSR THEN (IF x = RSRTrader THEN bm[RSR] ELSE 0)
                                    ELSE toTrader(x, excess(t))
           mine(t) == (IF t = RToken THEN bm[t] + rTok ELSE bm[t]) - gets(RSRTrader, t) - gets(RTokenTrader, t)
<1>2. /\ held' = [x \in Holders |->
              CASE x \in RevenueTraders -> [t \in Tokens |-> held[x][t] + gets(x, t)]
                [] x = BackingManager -> [t \in Tokens |-> mine(t)]
                [] OTHER -> held[x]]
      /\ UNCHANGED <<clones, trades, tradesOpen>>
  BY <1>1, Zenon
<1>3. Table(held)
  BY DEF IInv, Shape
<1> HIDE DEF gets, mine
<1>4. Table(held')
  <2>1. ASSUME NEW y \in Holders
        PROVE  held'[y] = [t \in Tokens |-> held'[y][t]]
    BY <1>2, <1>3 DEF Table
  <2> QED BY <1>2, <2>1 DEF Table
<1>5. SameTrades
  BY <1>2, SameClones
<1> QED BY <1>4, <1>5, SameTradesKeeps

LEMMA recollateralizeKeeps ==
    ASSUME IInv, recollateralize
    PROVE  IInv'
<1>1. PICK sell \in Tokens \ {Basket}, minBuy \in MinBuys :
        \E n : LET bal == held[BackingManager][sell]
                   seized == IF n > bal THEN n - bal ELSE 0
                   h == Take(Give(held, ST_RSR, RSR, seized), BackingManager, RSR, seized)
               IN  tryTrade(h, BackingManager, sell, Basket, n, minBuy)
  BY Zenon DEF recollateralize
<1>2. PICK n : LET bal == held[BackingManager][sell]
                   seized == IF n > bal THEN n - bal ELSE 0
                   h == Take(Give(held, ST_RSR, RSR, seized), BackingManager, RSR, seized)
               IN  tryTrade(h, BackingManager, sell, Basket, n, minBuy)
  BY <1>1, Zenon
<1> DEFINE bal == held[BackingManager][sell]
           seized == IF n > bal THEN n - bal ELSE 0
           h == Take(Give(held, ST_RSR, RSR, seized), BackingManager, RSR, seized)
<1>3. tryTrade(h, BackingManager, sell, Basket, n, minBuy)
  BY <1>2
<1>4. /\ Table(held) /\ RSR \in Tokens
      /\ ST_RSR \in Holders /\ BackingManager \in Holders /\ BackingManager \in Traders
  BY TradersAssumption, TokensAssumption DEF IInv, Shape, Holders, Traders
<1> HIDE DEF seized
<1>5. Table(Give(held, ST_RSR, RSR, seized))
  BY <1>4, Given
<1>6. Table(h)
  BY <1>4, <1>5, Taken
<1> HIDE DEF h
<1> QED BY <1>3, <1>4, <1>6, tryTradeKeeps

LEMMA manageTokensKeeps ==
    ASSUME IInv, NEW erc20s, manageTokens(erc20s)
    PROVE  IInv'
<1>1. CASE handoutExcessAssets(erc20s)
  BY <1>1, handoutKeeps
<1>2. CASE recollateralize
  BY <1>2, recollateralizeKeeps
<1>3. CASE compromiseBasketsNeeded
  <2>1. SameTrades /\ Table(held')
    BY <1>3, SameClones DEF compromiseBasketsNeeded, IInv, Shape
  <2> QED BY <2>1, SameTradesKeeps
<1> QED BY <1>1, <1>2, <1>3 DEF manageTokens

\* What clearing an auction leaves of a clone.
LEMMA FoundOK ==
    ASSUME NEW old, CloneOK(old), NEW new \in Clearings(old)
    PROVE  CloneOK(new) /\ new.status = old.status /\ new.origin = old.origin /\ new.sell = old.sell
<1>1. \E b, p : new = Cleared(old, b, p)
  BY DEF Clearings
<1>2. /\ DOMAIN new = DOMAIN old
      /\ new.status = old.status /\ new.origin = old.origin /\ new.sell = old.sell
  BY <1>1 DEF Cleared
<1> QED BY <1>2 DEF CloneOK

\* A step that changes one clone, but not what the table says of it.
LEMMA OneClone ==
    ASSUME IInv, NEW i \in DOMAIN clones, NEW c, CloneOK(c),
           c.status = clones[i].status, c.origin = clones[i].origin, c.sell = clones[i].sell,
           clones' = [clones EXCEPT ![i] = c],
           UNCHANGED <<trades, tradesOpen>>
    PROVE  SameTrades
<1>1. /\ clones = [j \in 1 .. Len(clones) |-> clones[j]]
      /\ \A j \in 1 .. Len(clones) : CloneOK(clones[j])
      /\ i \in 1 .. Len(clones)
  BY DEF IInv, Shape
<1>2. /\ clones' = [j \in 1 .. Len(clones) |-> clones'[j]]
      /\ clones'[i] = c
      /\ \A j \in 1 .. Len(clones) : j # i => clones'[j] = clones[j]
  BY <1>1
<1> QED BY <1>1, <1>2, Zenon DEF SameTrades, SameOfClone

LEMMA settleAuctionKeeps ==
    ASSUME IInv, NEW i \in DOMAIN clones, settleAuction(i)
    PROVE  IInv'
<1>1. PICK c \in Clearings(clones[i]) : clones' = [clones EXCEPT ![i] = c]
  BY DEF settleAuction
<1>2. CloneOK(clones[i]) /\ Table(held)
  BY DEF IInv, Shape
<1>3. UNCHANGED <<held, trades, tradesOpen>>
  BY DEF settleAuction
<1>4. SameTrades
  BY <1>1, <1>2, <1>3, FoundOK, OneClone
<1> QED BY <1>2, <1>3, <1>4, SameTradesKeeps

LEMMA StrayKeeps ==
    ASSUME IInv, NEW i \in DOMAIN clones, Stray(i)
    PROVE  IInv'
<1>1. PICK c \in {[clones[i] EXCEPT !.sellBal = @ + 1], [clones[i] EXCEPT !.buyBal = @ + 1]} :
        clones' = [clones EXCEPT ![i] = c]
  BY DEF Stray
<1>2. CloneOK(clones[i]) /\ Table(held)
  BY DEF IInv, Shape
<1>3. CloneOK(c) /\ c.status = clones[i].status /\ c.origin = clones[i].origin /\ c.sell = clones[i].sell
  BY <1>2 DEF CloneOK
<1>4. UNCHANGED <<held, trades, tradesOpen>>
  BY DEF Stray
<1>5. SameTrades
  BY <1>1, <1>3, <1>4, OneClone
<1> QED BY <1>2, <1>4, <1>5, SameTradesKeeps

LEMMA transferToOriginKeeps ==
    ASSUME IInv, NEW i \in DOMAIN clones, transferToOriginAfterTradeComplete(i)
    PROVE  IInv' /\ \A y \in Holders : y # clones[i].origin => held'[y] = held[y]
<1>1. CloneOK(clones[i]) /\ Table(held)
  BY DEF IInv, Shape
<1>2. PICK c \in {[clones[i] EXCEPT !.sellBal = 0], [clones[i] EXCEPT !.buyBal = 0]} :
        clones' = [clones EXCEPT ![i] = c]
  BY DEF transferToOriginAfterTradeComplete
<1>3. CloneOK(c) /\ c.status = clones[i].status /\ c.origin = clones[i].origin /\ c.sell = clones[i].sell
  BY <1>1 DEF CloneOK
<1>4. UNCHANGED <<trades, tradesOpen>>
  BY DEF transferToOriginAfterTradeComplete
<1>5. SameTrades
  BY <1>2, <1>3, <1>4, OneClone
<1>6. clones[i].origin \in Holders
  BY <1>1 DEF CloneOK, Holders
<1>7. /\ Table(held')
      /\ \A y \in Holders : y # clones[i].origin => held'[y] = held[y]
  <2>1. \E token, n : held' = [held EXCEPT ![clones[i].origin][token] = @ + n]
    BY DEF transferToOriginAfterTradeComplete, Take
  <2> QED BY <1>1, <1>6, <2>1, ZenonT(60) DEF Table
<1> QED BY <1>5, <1>7, SameTradesKeeps

LEMMA settleTradeKeeps ==
    ASSUME IInv, NEW x \in Traders, NEW sell \in Tokens, settleTrade(x, sell)
    PROVE  IInv' /\ UNCHANGED basketsNeeded /\ \A y \in Holders : y # x => held'[y] = held[y]
<1> DEFINE j == trades[x][sell]
<1>1. /\ j # 0
      /\ trades' = [trades EXCEPT ![x][sell] = 0]
      /\ tradesOpen' = [tradesOpen EXCEPT ![x] = @ - 1]
      /\ UNCHANGED basketsNeeded
  BY DEF settleTrade, Without
<1>2. /\ Table(held) /\ x \in Holders
      /\ clones[j].origin = x /\ CloneOK(clones[j])
  BY <1>1 DEF IInv, Shape, TradesCounted, Holders
<1> DEFINE closing(c) == [c EXCEPT !.status = "CLOSED", !.sellBal = 0, !.buyBal = 0,
                                   !.soldAmt = fixMax(c.initBal - c.sellBal, 0), !.boughtAmt = c.buyBal]
<1>3. PICK c \in Found(clones[j]) :
        /\ held' = Take(Take(held, c.origin, c.sell, c.sellBal), c.origin, c.buy, c.buyBal)
        /\ clones' = [clones EXCEPT ![j] = [closing(c) EXCEPT !.heeded = ~Poor(closing(c))]]
  BY DEF settleTrade
<1>4. CloneOK(c) /\ c.origin = x
  BY <1>2, <1>3, FoundOK DEF Found
<1>5. CloneOK(closing(c)) /\ closing(c).status = "CLOSED"
  BY <1>4 DEF CloneOK
<1> HIDE DEF closing
<1>6. PICK d : d = [closing(c) EXCEPT !.heeded = ~Poor(closing(c))]
  OBVIOUS
<1>7. CloneOK(d) /\ d.status = "CLOSED"
  BY <1>5, <1>6 DEF CloneOK
<1>8. clones' = [clones EXCEPT ![j] = d]
  BY <1>3, <1>6
<1>9. \E h : /\ Table(h) /\ \A y \in Holders : y # x => h[y] = held[y]
             /\ held' = Take(h, x, c.buy, c.buyBal)
  <2>1. held' = Take(Take(held, x, c.sell, c.sellBal), x, c.buy, c.buyBal)
    BY <1>3, <1>4
  <2>2. /\ Table(Take(held, x, c.sell, c.sellBal))
        /\ \A y \in Holders : y # x => Take(held, x, c.sell, c.sellBal)[y] = held[y]
    BY <1>2 DEF Table, Take
  <2> QED BY <2>1, <2>2
<1>10. Table(held') /\ \A y \in Holders : y # x => held'[y] = held[y]
  <2>1. PICK h : /\ Table(h) /\ \A y \in Holders : y # x => h[y] = held[y]
                 /\ held' = Take(h, x, c.buy, c.buyBal)
    BY <1>9
  <2> QED BY <1>2, <2>1 DEF Table, Take
<1>11. IInv'
  BY <1>1, <1>7, <1>8, <1>10, SettledKeeps
<1> QED BY <1>1, <1>10, <1>11

LEMMA setDisabledKeeps ==
    ASSUME IInv, NEW b \in BOOLEAN, setDisabled(b)
    PROVE  IInv'
<1>1. UNCHANGED <<held, trades, tradesOpen>> /\ Table(held)
  BY DEF setDisabled, IInv, Shape
<1>2. /\ DOMAIN clones = 1 .. Len(clones)
      /\ \A i \in 1 .. Len(clones) : CloneOK(clones[i])
  BY DEF IInv, Shape
<1>3. CASE b
  BY <1>1, <1>3, SameClones, SameTradesKeeps DEF setDisabled
<1>4. CASE ~b
  <2>1. clones' = [i \in DOMAIN clones |-> [clones[i] EXCEPT !.heeded = TRUE]]
    BY <1>4 DEF setDisabled
  <2>2. \A i \in 1 .. Len(clones) : clones'[i] = [clones[i] EXCEPT !.heeded = TRUE]
    BY <1>2, <2>1
  <2>3. \A i \in 1 .. Len(clones) : SameOfClone(i)
    BY <1>2, <2>2 DEF SameOfClone, CloneOK
  <2>4. clones' = [i \in 1 .. Len(clones) |-> clones'[i]]
    BY <1>2, <2>1
  <2>5. SameTrades
    BY <1>1, <2>3, <2>4 DEF SameTrades
  <2> QED BY <1>1, <2>5, SameTradesKeeps
<1> QED BY <1>3, <1>4

LEMMA TickKeeps ==
    ASSUME IInv, Tick
    PROVE  IInv'
<1>1. UNCHANGED <<held, trades, tradesOpen>> /\ Table(held)
  BY DEF Tick, IInv, Shape
<1>2. /\ DOMAIN clones = 1 .. Len(clones)
      /\ \A i \in 1 .. Len(clones) : CloneOK(clones[i])
  BY DEF IInv, Shape
<1>3. clones' = [i \in DOMAIN clones |-> [clones[i] EXCEPT !.left = IF @ > 0 THEN @ - 1 ELSE 0]]
  BY DEF Tick
<1>4. \A i \in 1 .. Len(clones) : \E n : clones'[i] = [clones[i] EXCEPT !.left = n]
  BY <1>2, <1>3
<1>5. \A i \in 1 .. Len(clones) : SameOfClone(i)
  BY <1>2, <1>4 DEF SameOfClone, CloneOK
<1>6. clones' = [i \in 1 .. Len(clones) |-> clones'[i]]
  BY <1>2, <1>3
<1>7. SameTrades
  BY <1>1, <1>5, <1>6 DEF SameTrades
<1> QED BY <1>1, <1>7, SameTradesKeeps

\* Steps that change neither holdings nor trades.
LEMMA OtherKeeps ==
    ASSUME IInv, UNCHANGED <<held, clones, trades, tradesOpen>>
    PROVE  IInv'
<1>1. SameTrades /\ Table(held')
  BY SameClones DEF IInv, Shape
<1> QED BY <1>1, SameTradesKeeps

(***************************************************************************)
(* The specification.                                                      *)
(***************************************************************************)
LEMMA InitKeeps ==
    ASSUME Init
    PROVE  IInv
<1>1. Len(clones) = 0 /\ DOMAIN clones = 1 .. 0 /\ clones = [i \in 1 .. 0 |-> clones[i]]
  BY DEF Init
<1>2. Shape
  BY <1>1, AmountsAssumption DEF Init, Shape, Table
<1>3. ASSUME NEW y \in Traders
      PROVE  tradesOpen[y] = Cardinality({t \in Tokens : trades[y][t] # 0})
  <2>1. {t \in Tokens : trades[y][t] # 0} = {}
    BY DEF Init
  <2> QED BY <2>1, FS_EmptySet DEF Init
<1>4. TradesCounted
  BY <1>1, <1>3 DEF Init, TradesCounted
<1> QED BY <1>2, <1>4 DEF IInv

LEMMA NextKeeps ==
    ASSUME IInv, [Next]_vars
    PROVE  IInv'
<1>1. ASSUME NEW x \in RevenueTraders, NEW erc20 \in Tokens, manageToken(x, erc20)
      PROVE  IInv'
  BY <1>1, manageTokenKeeps
<1>2. ASSUME NEW erc20s \in Erc20Lists, manageTokens(erc20s)
      PROVE  IInv'
  BY <1>2, manageTokensKeeps
<1>3. CASE SettleAny
  BY <1>3, settleTradeKeeps DEF SettleAny
<1>4. ASSUME NEW i \in DOMAIN clones,
             settleAuction(i) \/ Stray(i) \/ transferToOriginAfterTradeComplete(i)
      PROVE  IInv'
  BY <1>4, settleAuctionKeeps, StrayKeeps, transferToOriginKeeps
<1>5. ASSUME NEW dest \in Destinations, NEW share \in Shares, setDistribution(dest, share)
      PROVE  IInv'
  BY <1>5, OtherKeeps DEF setDistribution
<1>6. ASSUME NEW b \in BOOLEAN, setDisabled(b) \/ SetPaused(b)
      PROVE  IInv'
  BY <1>6, setDisabledKeeps, OtherKeeps DEF SetPaused
<1>7. CASE Tick
  BY <1>7, TickKeeps
<1>8. CASE UNCHANGED vars
  BY <1>8, OtherKeeps DEF vars
<1> QED BY <1>1, <1>2, <1>3, <1>4, <1>5, <1>6, <1>7, <1>8 DEF Next

LEMMA Invariant == Spec => []IInv
<1>1. Init => IInv
  BY InitKeeps
<1>2. IInv /\ [Next]_vars => IInv'
  BY NextKeeps
<1> QED BY <1>1, <1>2, PTL DEF Spec

\* No trade is lost from the table of trades, and every trader's count of them
\* is right, whatever the tokens, the amounts and the auctions are.
THEOREM TradesCountedHolds == Spec => []TradesCounted
<1>1. IInv => TradesCounted
  BY DEF IInv
<1> QED BY <1>1, Invariant, PTL

\* Without a trade counted, all of a trader's trades are closed.
LEMMA NothingOut ==
    ASSUME IInv, tradesOpen[BackingManager] = 0,
           NEW i \in DOMAIN clones, clones[i].origin = BackingManager
    PROVE  clones[i].status = "CLOSED"
<1> DEFINE S == {t \in Tokens : trades[BackingManager][t] # 0}
<1>1. Cardinality(S) = 0
  BY DEF IInv, TradesCounted, Traders
<1>2. IsFiniteSet(S)
  BY TokensAssumption, FS_Subset
<1> HIDE DEF S
<1>3. S = {}
  BY <1>1, <1>2, FS_EmptySet
<1>4. /\ CloneOK(clones[i])
      /\ clones[i].status = "OPEN" => trades[BackingManager][clones[i].sell] = i
      /\ i # 0
  BY DEF IInv, Shape, TradesCounted
<1> QED BY <1>3, <1>4 DEF S, CloneOK

\* The RToken's backing is cut down, or handed out as excess, only while no
\* trade of the BackingManager is open.
THEOREM WholeBackingJudgedHolds == Spec => WholeBackingJudged
<1> DEFINE Judged ==
        \/ basketsNeeded' # basketsNeeded
        \/ \E x \in RevenueTraders, t \in Tokens :
              held'[x][t] # held[x][t] /\ held'[BackingManager][t] # held[BackingManager][t]
           Back == \A i \in DOMAIN clones : clones[i].origin = BackingManager => clones[i].status = "CLOSED"
<1>0. BackingManager \in Holders /\ RevenueTraders \subseteq Holders /\ BackingManager \notin RevenueTraders
  BY TradersAssumption DEF Holders, Traders
<1>1. ASSUME NEW y, \A x \in Holders : x # y => held'[x] = held[x], UNCHANGED basketsNeeded
      PROVE  ~Judged
  BY <1>0, <1>1
<1>2. IInv /\ [Next]_vars => (Judged => Back)
  <2> SUFFICES ASSUME IInv, [Next]_vars, Judged
               PROVE  Back
    OBVIOUS
  <2>1. ASSUME NEW x \in RevenueTraders, NEW erc20 \in Tokens, manageToken(x, erc20)
        PROVE  Back
    BY <2>1, manageTokenKeeps
  <2>2. ASSUME NEW erc20s \in Erc20Lists, manageTokens(erc20s)
        PROVE  Back
    BY <2>2, NothingOut DEF manageTokens, Idle
  <2>3. CASE SettleAny
    BY <1>1, <2>3, settleTradeKeeps DEF SettleAny
  <2>4. ASSUME NEW i \in DOMAIN clones,
               settleAuction(i) \/ Stray(i) \/ transferToOriginAfterTradeComplete(i)
        PROVE  Back
    <3>1. CASE settleAuction(i) \/ Stray(i)
      BY <3>1 DEF settleAuction, Stray
    <3>2. CASE transferToOriginAfterTradeComplete(i)
      <4>1. UNCHANGED basketsNeeded
        BY <3>2 DEF transferToOriginAfterTradeComplete
      <4> QED BY <1>1, <3>2, <4>1, transferToOriginKeeps
    <3> QED BY <2>4, <3>1, <3>2
  <2>5. ASSUME NEW dest \in Destinations, NEW share \in Shares, setDistribution(dest, share)
        PROVE  Back
    BY <2>5 DEF setDistribution
  <2>6. ASSUME NEW b \in BOOLEAN, setDisabled(b) \/ SetPaused(b)
        PROVE  Back
    BY <2>6 DEF setDisabled, SetPaused
  <2>7. CASE Tick
    BY <2>7 DEF Tick
  <2>8. CASE UNCHANGED vars
    BY <2>8 DEF vars
  <2> HIDE DEF Back, Judged
  <2> QED BY <2>1, <2>2, <2>3, <2>4, <2>5, <2>6, <2>7, <2>8 DEF Next
<1>3. IInv /\ [Next]_vars => [Judged => Back]_vars
  BY <1>2
<1> HIDE DEF Judged, Back
<1>4. Spec => [][Judged => Back]_vars
  BY <1>3, Invariant, PTL DEF Spec
<1> QED BY <1>4 DEF WholeBackingJudged, Judged, Back

(***************************************************************************)
(* Amounts.  All of them are natural numbers: no payment is more than the  *)
(* payer has, whatever is rounded on the way.  And a trade that paid less  *)
(* than was asked for keeps the Broker disabled until governance reacts.   *)
(***************************************************************************)
CloneType ==
    [status : {"OPEN", "CLOSED"}, origin : Traders, sell : Tokens, buy : Tokens,
     sellAmount : Nat \ {0}, minBuy : Nat, initBal : Nat, left : Nat, escrow : Nat,
     cleared : BOOLEAN, sellBal : Nat, buyBal : Nat, soldAmt : Nat, boughtAmt : Nat,
     heeded : BOOLEAN]
Holdings == [Holders -> [Tokens -> Nat]]
Nonzero(table) == total(table, RToken) > 0 \/ total(table, RSR) > 0

Amounts ==
    /\ held \in Holdings
    /\ basketsNeeded \in Nat
    /\ clones \in Seq(CloneType)
    /\ distribution \in [Destinations -> RevenueShare] /\ Nonzero(distribution)
    /\ disabled \in BOOLEAN
Heeded == \A i \in DOMAIN clones : ~clones[i].heeded => disabled
Sound == Amounts /\ Heeded

\* Only a broker that is enabled opens trades.
Restrained == Len(clones') > Len(clones) => ~disabled

\* The tokens, and who is who.
LEMMA Parties ==
    /\ RSR \in Tokens /\ RToken \in Tokens /\ Basket \in Tokens
    /\ RSR # RToken /\ RSR # Basket /\ RToken # Basket
    /\ BackingManager \in Holders /\ RSRTrader \in Holders /\ RTokenTrader \in Holders
    /\ ST_RSR \in Holders
    /\ Traders \subseteq Holders /\ Destinations \subseteq Holders
    /\ BackingManager # RSRTrader /\ BackingManager # RTokenTrader /\ RSRTrader # RTokenTrader
    /\ ST_RSR # BackingManager
<1>1. RSR \in Tokens /\ RToken \in Tokens /\ Basket \in Tokens
      /\ Cardinality({RSR, RToken, Basket}) = 3
  BY TokensAssumption
<1>2. ASSUME NEW x, NEW y PROVE Cardinality({x, y}) # 3
  <2>1. IsFiniteSet({x}) /\ Cardinality({x}) = 1
    BY FS_Singleton
  <2>2. {x, y} = {x} \cup {y}
    OBVIOUS
  <2>3. Cardinality({x} \cup {y}) = 1 \/ Cardinality({x} \cup {y}) = 1 + 1
    BY <2>1, FS_AddElement
  <2> QED BY <2>2, <2>3
<1>3. RSR # RToken
  <2> SUFFICES ASSUME RSR = RToken PROVE FALSE
    OBVIOUS
  <2>1. {RSR, RToken, Basket} = {RSR, Basket}
    OBVIOUS
  <2>2. Cardinality({RSR, Basket}) # 3
    BY <1>2
  <2> QED BY <1>1, <2>1, <2>2
<1>4. RSR # Basket
  <2> SUFFICES ASSUME RSR = Basket PROVE FALSE
    OBVIOUS
  <2>1. {RSR, RToken, Basket} = {RSR, RToken}
    OBVIOUS
  <2>2. Cardinality({RSR, RToken}) # 3
    BY <1>2
  <2> QED BY <1>1, <2>1, <2>2
<1>5. RToken # Basket
  <2> SUFFICES ASSUME RToken = Basket PROVE FALSE
    OBVIOUS
  <2>1. {RSR, RToken, Basket} = {RSR, RToken}
    OBVIOUS
  <2>2. Cardinality({RSR, RToken}) # 3
    BY <1>2
  <2> QED BY <1>1, <2>1, <2>2
<1> QED BY <1>1, <1>3, <1>4, <1>5, TradersAssumption DEF Holders, Traders, RevenueTraders

\* The shares, and their total.
LEMMA TotalNat ==
    ASSUME NEW table \in [Destinations -> RevenueShare], NEW token
    PROVE  /\ total(table, token) \in Nat
           /\ \A d \in Destinations : shareOf(table, d, token) \in Nat
           /\ [d \in DOMAIN table |-> shareOf(table, d, token)] \in [Destinations -> Nat]
<1>1. \A d \in Destinations : shareOf(table, d, token) \in Nat
  BY DEF shareOf, RevenueShare
<1> DEFINE f == [d \in DOMAIN table |-> shareOf(table, d, token)]
<1>2. f \in [Destinations -> Nat]
  BY <1>1
<1> HIDE DEF f
<1>3. SumFunction(f) \in Nat
  BY <1>2, TradersAssumption, SumNat
<1> QED BY <1>1, <1>2, <1>3 DEF f, total

\* What distribute() pays is a whole multiple of the total of the shares, and
\* less than that total is left.
LEMMA PaidWhole ==
    ASSUME distribution \in [Destinations -> RevenueShare], NEW token, NEW amount \in Nat,
           total(distribution, token) > 0
    PROVE  LET paid == SumFunction([d \in Destinations |-> transferAmt(token, amount, d)])
           IN  /\ paid \in Nat /\ paid <= amount
               /\ amount - paid < total(distribution, token)
               /\ \A d \in Destinations : transferAmt(token, amount, d) \in Nat
<1> DEFINE all == total(distribution, token)
           q   == amount \div all
           f   == [d \in DOMAIN distribution |-> shareOf(distribution, d, token)]
           g   == [d \in Destinations |-> transferAmt(token, amount, d)]
<1>1. /\ all \in Nat \ {0} /\ f \in [Destinations -> Nat]
      /\ \A d \in Destinations : shareOf(distribution, d, token) \in Nat
  BY TotalNat
<1>2. all = SumFunctionOnSet(f, Destinations)
  BY DEF total, SumFunction
<1> HIDE DEF all
<1>3. q \in Nat /\ q * all <= amount /\ amount < q * all + all
  BY <1>1, DivFloor
<1>4. \A d \in Destinations : transferAmt(token, amount, d) = q * shareOf(distribution, d, token)
  BY DEF transferAmt, all
<1>5. \A d \in Destinations : f[d] \in Nat /\ g[d] = q * f[d]
  BY <1>1, <1>4
<1>6. SumFunction(g) = SumFunctionOnSet(g, Destinations)
  BY DEF SumFunction
<1> HIDE DEF q, f, g
<1>7. SumFunction(g) = q * all
  BY <1>2, <1>3, <1>5, <1>6, TradersAssumption, SumScaled
<1>8. q * all \in Nat
  BY <1>1, <1>3, MulNat
<1>9. \A d \in Destinations : transferAmt(token, amount, d) \in Nat
  BY <1>1, <1>3, <1>4, MulNat
<1>10. SumFunction(g) \in Nat /\ SumFunction(g) <= amount /\ amount - SumFunction(g) < all
  BY <1>1, <1>3, <1>7, <1>8
<1> QED BY <1>9, <1>10 DEF g, all

\* Payments.
LEMMA GiveNat ==
    ASSUME NEW h \in Holdings, NEW x \in Holders, NEW token \in Tokens,
           NEW n \in Nat, n <= h[x][token]
    PROVE  /\ Give(h, x, token, n) \in Holdings
           /\ Give(h, x, token, n)[x][token] = h[x][token] - n
           /\ \A y \in Holders, t \in Tokens :
                 y # x \/ t # token => Give(h, x, token, n)[y][t] = h[y][t]
  BY DEF Holdings, Give

LEMMA TakeNat ==
    ASSUME NEW h \in Holdings, NEW x \in Holders, NEW token \in Tokens, NEW n \in Nat
    PROVE  /\ Take(h, x, token, n) \in Holdings
           /\ Take(h, x, token, n)[x][token] = h[x][token] + n
           /\ \A y \in Holders, t \in Tokens :
                 y # x \/ t # token => Take(h, x, token, n)[y][t] = h[y][t]
  BY DEF Holdings, Take

\* A trade is scaled down, never up.
LEMMA ResizedDown ==
    ASSUME NEW n \in Nat, NEW minBuy \in Nat
    PROVE  /\ Resized(n, minBuy).sell \in Nat /\ Resized(n, minBuy).sell <= n
           /\ Resized(n, minBuy).minBuy \in Nat
<1> DEFINE most == fixMax(minBuy, n)
<1>1. most \in Nat /\ n <= most
  BY DEF fixMax
<1>2. CASE most > GNOSIS_MAX_TOKENS
  <2>1. GNOSIS_MAX_TOKENS \in Nat /\ most \in Nat \ {0} /\ GNOSIS_MAX_TOKENS <= most
    BY <1>1, <1>2, AmountsAssumption
  <2> HIDE DEF most
  <2>2. /\ n * GNOSIS_MAX_TOKENS \in Nat /\ n * GNOSIS_MAX_TOKENS <= n * most
        /\ minBuy * GNOSIS_MAX_TOKENS \in Nat
    BY <2>1, MulNat, MulMono
  <2>3. /\ DivUp(n * GNOSIS_MAX_TOKENS, most) \in Nat
        /\ DivUp(n * GNOSIS_MAX_TOKENS, most) <= n
    BY <2>1, <2>2, DivUpBounds, DivUpLeast
  <2>4. (minBuy * GNOSIS_MAX_TOKENS) \div most \in Nat
    BY <2>1, <2>2, DivFloor
  <2>5. Resized(n, minBuy) = [sell |-> DivUp(n * GNOSIS_MAX_TOKENS, most),
                              minBuy |-> (minBuy * GNOSIS_MAX_TOKENS) \div most]
    BY <1>2 DEF Resized, most
  <2> QED BY <2>3, <2>4, <2>5
<1>3. CASE ~(most > GNOSIS_MAX_TOKENS)
  BY <1>3 DEF Resized
<1> QED BY <1>2, <1>3

\* The auction and the fee are paid from what was sent to the trade.
LEMMA EscrowPaid ==
    ASSUME NEW n \in Nat
    PROVE  TakenFor(ForAuction(n)) \in Nat /\ TakenFor(ForAuction(n)) <= n
<1> DEFINE D == FEE_DENOMINATOR
           E == FEE_DENOMINATOR + feeNumerator
           a == (n * D) \div E
           b == (a * E) \div D
<1>1. D \in Nat \ {0} /\ E \in Nat \ {0}
  BY AmountsAssumption
<1>2. TakenFor(ForAuction(n)) = b
  BY DEF TakenFor, ForAuction
<1>3. n * D \in Nat
  BY <1>1, MulNat
<1> HIDE DEF D, E
<1>4. a \in Nat /\ a * E <= n * D
  BY <1>1, <1>3, DivFloor
<1> HIDE DEF a
<1>5. a * E \in Nat
  BY <1>1, <1>4, MulNat
<1>6. b \in Nat /\ b * D <= a * E
  BY <1>1, <1>5, DivFloor
<1> HIDE DEF b
<1>7. b <= n
  <2> SUFFICES ASSUME n < b PROVE FALSE
    BY <1>6
  <2>1. (n + 1) * D <= b * D
    BY <1>1, <1>6, MulMono
  <2>2. (n + 1) * D = n * D + D
    BY <1>1
  <2>3. b * D \in Nat
    BY <1>1, <1>6, MulNat
  <2> QED BY <1>1, <1>3, <1>4, <1>5, <1>6, <2>1, <2>2, <2>3
<1> QED BY <1>2, <1>6, <1>7

\* No destination of revenue gains anything.
NoGain == \A d \in Destinations, t \in Tokens : held'[d][t] <= held[d][t]

\* The step of DistributionFair.
FairStep ==
    \A t \in {RSR, RToken} :
        LET gain(d) == held'[d][t] - held[d][t]
            share(d) == shareOf(distribution, d, t)
            trader == IF t = RSR THEN RSRTrader ELSE RTokenTrader
        IN  (\E d \in Destinations : gain(d) > 0) =>
               /\ \A d, e \in Destinations : gain(d) * share(e) = gain(e) * share(d)
               /\ held'[trader][t] < total(distribution, t)

\* What each step does to the amounts.
SoundStep == Sound' /\ Restrained /\ FairStep

\* Nobody gains, nothing is distributed.
LEMMA NoGainFair ==
    ASSUME held \in Holdings, held' \in Holdings, NoGain
    PROVE  FairStep
<1> SUFFICES ASSUME NEW t \in {RSR, RToken}, NEW d \in Destinations,
                    held'[d][t] - held[d][t] > 0
             PROVE  FALSE
  BY DEF FairStep
<1>1. t \in Tokens /\ d \in Holders
  BY Parties
<1>2. held'[d][t] \in Nat /\ held[d][t] \in Nat /\ held'[d][t] <= held[d][t]
  BY <1>1 DEF Holdings, NoGain
<1> QED BY <1>2

\* A step that changes what a trader holds, and nothing of the others.
LEMMA OthersGainNothing ==
    ASSUME held \in Holdings, NEW x, x \notin Destinations,
           \A y \in Holders, t \in Tokens : y # x => held'[y][t] = held[y][t]
    PROVE  NoGain
<1> SUFFICES ASSUME NEW d \in Destinations, NEW t \in Tokens
             PROVE  held'[d][t] <= held[d][t]
  BY DEF NoGain
<1>1. d \in Holders /\ d # x
  BY Parties
<1>2. held'[d][t] = held[d][t] /\ held[d][t] \in Nat
  BY <1>1 DEF Holdings
<1> QED BY <1>2

\* A step that changes one clone.
LEMMA OneCloneTyped ==
    ASSUME Sound, NEW i \in DOMAIN clones, NEW c \in CloneType,
           clones' = [clones EXCEPT ![i] = c]
    PROVE  /\ clones' \in Seq(CloneType) /\ Len(clones') = Len(clones)
           /\ DOMAIN clones' = DOMAIN clones
           /\ clones'[i] = c /\ \A j \in DOMAIN clones : j # i => clones'[j] = clones[j]
<1>1. clones \in Seq(CloneType)
  BY DEF Sound, Amounts
<1> HIDE DEF CloneType
<1> QED BY <1>1, ExceptSeq

\* A trade that is opened.
LEMMA NewTradeTyped ==
    ASSUME NEW x \in Traders, NEW sell \in Tokens, NEW buy \in Tokens,
           NEW req, req.sell \in Nat \ {0}, req.minBuy \in Nat, NEW length \in Nat
    PROVE  NewTrade(x, sell, buy, req, length) \in CloneType
<1> DEFINE escrow == TakenFor(ForAuction(req.sell))
<1>1. escrow \in Nat /\ escrow <= req.sell
  BY EscrowPaid
<1>2. req.sell - escrow \in Nat
  BY <1>1
<1> HIDE DEF escrow
<1> QED BY <1>1, <1>2 DEF NewTrade, CloneType, escrow

LEMMA tryTradeSound ==
    ASSUME Sound, NEW h \in Holdings, NEW x \in Traders, NEW sell \in Tokens, NEW buy \in Tokens,
           NEW amount \in Nat, amount <= h[x][sell], NEW minBuy \in Nat,
           tryTrade(h, x, sell, buy, amount, minBuy), disabled' = disabled
    PROVE  /\ clones' \in Seq(CloneType) /\ Heeded' /\ Restrained
           /\ held' \in Holdings
           /\ \A y \in Holders, t \in Tokens : y # x => held'[y][t] = h[y][t]
<1> DEFINE req == Resized(amount, minBuy)
<1>1. req.sell \in Nat /\ req.sell <= amount /\ req.minBuy \in Nat
  BY ResizedDown
<1>2. PICK length \in AuctionLengths : clones' = Append(clones, NewTrade(x, sell, buy, req, length))
  BY DEF tryTrade
<1>3. held' = Give(h, x, sell, req.sell) /\ ~disabled
  BY DEF tryTrade
<1> DEFINE new == NewTrade(x, sell, buy, req, length)
<1>4. new.heeded = TRUE
  BY DEF NewTrade
<1>a. req.sell # 0
  <2>1. ForAuction(req.sell) > 0
    BY DEF tryTrade
  <2>2. ForAuction(0) = 0
    BY AmountsAssumption DEF ForAuction
  <2> HIDE DEF req
  <2> QED BY <2>1, <2>2
<1> HIDE DEF req
<1>5. new \in CloneType
  BY <1>1, <1>a, AmountsAssumption, NewTradeTyped
<1>6. x \in Holders /\ h[x][sell] \in Nat /\ req.sell <= h[x][sell]
  BY <1>1, Parties DEF Holdings
<1>7. /\ held' \in Holdings
      /\ \A y \in Holders, t \in Tokens : y # x => held'[y][t] = h[y][t]
  BY <1>1, <1>3, <1>6, GiveNat
<1>8. clones \in Seq(CloneType) /\ \A i \in DOMAIN clones : clones[i].heeded = TRUE
  BY <1>3 DEF Sound, Amounts, Heeded, CloneType
<1> HIDE DEF new
<1>9. clones' = Append(clones, new)
  BY <1>2 DEF new
<1>10. /\ clones' \in Seq(CloneType)
       /\ DOMAIN clones' = DOMAIN clones \cup {Len(clones) + 1}
       /\ \A i \in DOMAIN clones : clones'[i] = clones[i]
       /\ clones'[Len(clones) + 1] = new
  <2> HIDE DEF CloneType
  <2>1. /\ Len(clones) \in Nat /\ DOMAIN clones = 1 .. Len(clones)
        /\ Len(clones') = Len(clones) + 1 /\ DOMAIN clones' = 1 .. Len(clones')
        /\ clones' \in Seq(CloneType)
        /\ \A i \in 1 .. Len(clones) : clones'[i] = clones[i]
        /\ clones'[Len(clones) + 1] = new
    BY <1>5, <1>8, <1>9, AppendProperties
  <2> QED BY <2>1
<1>11. \A i \in DOMAIN clones' : clones'[i].heeded = TRUE
  BY <1>4, <1>8, <1>10 DEF new
<1>12. Heeded'
  BY <1>11 DEF Heeded
<1>13. Restrained
  BY <1>3 DEF Restrained
<1> QED BY <1>7, <1>10, <1>12, <1>13

\* What may be sold of a holding.
LEMMA SellAmountsFit ==
    ASSUME NEW amt \in Nat, NEW n \in sellAmounts(amt)
    PROVE  n \in Nat /\ n <= amt
<1>1. PICK size \in Sizes : n = fixMin(amt, size)
  BY DEF sellAmounts
<1> QED BY <1>1, AmountsAssumption DEF fixMin

LEMMA manageTokenSound ==
    ASSUME Sound, NEW x \in RevenueTraders, NEW erc20 \in Tokens, manageToken(x, erc20)
    PROVE  SoundStep
<1>1. /\ held \in Holdings /\ distribution \in [Destinations -> RevenueShare]
      /\ x \in Traders /\ x \in Holders /\ held[x][erc20] \in Nat /\ tokenToBuy(x) \in Tokens
      /\ x \notin Destinations
  BY Parties, TradersAssumption
  DEF Sound, Amounts, Traders, tokenToBuy, Holdings, RevenueTraders
<1>2. UNCHANGED <<basketsNeeded, disabled, distribution>>
  BY DEF manageToken
<1>3. CASE erc20 # tokenToBuy(x)
  <2>1. PICK n \in sellAmounts(held[x][erc20]), minBuy \in MinBuys :
           tryTrade(held, x, erc20, tokenToBuy(x), n, minBuy)
    BY <1>3 DEF manageToken
  <2>2. n \in Nat /\ n <= held[x][erc20] /\ minBuy \in Nat
    BY <1>1, SellAmountsFit, AmountsAssumption
  <2>3. /\ clones' \in Seq(CloneType) /\ Heeded' /\ Restrained /\ held' \in Holdings
        /\ \A y \in Holders, t \in Tokens : y # x => held'[y][t] = held[y][t]
    BY <1>1, <1>2, <2>1, <2>2, tryTradeSound
  <2>4. NoGain
    BY <1>1, <2>3, OthersGainNothing
  <2>5. FairStep
    BY <1>1, <2>3, <2>4, NoGainFair
  <2>6. Amounts'
    BY <1>2, <2>3 DEF Sound, Amounts, Nonzero
  <2> QED BY <2>3, <2>5, <2>6 DEF SoundStep, Sound
<1>4. CASE erc20 = tokenToBuy(x)
  <2> DEFINE amount == held[x][erc20]
             paid   == SumFunction([d \in Destinations |-> transferAmt(erc20, amount, d)])
             pay(d) == transferAmt(erc20, amount, d)
             all    == total(distribution, erc20)
  <2>1. /\ all > 0
        /\ held' = [y \in Holders |->
                  CASE y \in Destinations -> [held[y] EXCEPT ![erc20] = @ + pay(y)]
                    [] y = x -> [held[y] EXCEPT ![erc20] = @ - paid]
                    [] OTHER -> held[y]]
        /\ clones' = clones
    BY <1>4 DEF manageToken, distribute
  <2>2. /\ paid \in Nat /\ paid <= amount /\ amount - paid < all
        /\ \A d \in Destinations : pay(d) \in Nat
    BY <1>1, <2>1, PaidWhole
  <2>3. \A d \in Destinations : pay(d) = (amount \div all) * shareOf(distribution, d, erc20)
    BY DEF transferAmt
  <2>4. amount = held[x][erc20]
    OBVIOUS
  <2> HIDE DEF amount, paid, pay, all
  <2>5. /\ \A d \in Destinations : held'[d] = [held[d] EXCEPT ![erc20] = @ + pay(d)]
        /\ held'[x] = [held[x] EXCEPT ![erc20] = @ - paid]
        /\ \A y \in Holders : y \notin Destinations /\ y # x => held'[y] = held[y]
    BY <1>1, <2>1, Parties
  <2>6. held' \in Holdings
    <3>1. ASSUME NEW y \in Holders PROVE held'[y] \in [Tokens -> Nat]
      <4>0. held[y] \in [Tokens -> Nat]
        BY <1>1 DEF Holdings
      <4>1. CASE y \in Destinations
        <5>1. held[y][erc20] + pay(y) \in Nat
          <6>1. pay(y) \in Nat /\ held[y][erc20] \in Nat
            BY <2>2, <4>0, <4>1
          <6> QED BY <6>1
        <5>2. held'[y] = [held[y] EXCEPT ![erc20] = held[y][erc20] + pay(y)]
          BY <2>5, <4>1
        <5> QED BY <4>0, <5>1, <5>2
      <4>2. CASE y = x
        BY <2>2, <2>4, <2>5, <4>0, <4>2
      <4>3. CASE y \notin Destinations /\ y # x
        BY <2>5, <4>0, <4>3
      <4> QED BY <4>1, <4>2, <4>3
    <3>2. held' = [y \in Holders |-> held'[y]]
      BY <2>1
    <3> QED BY <3>1, <3>2 DEF Holdings
  <2>7. FairStep
    <3> SUFFICES ASSUME NEW t \in {RSR, RToken}, NEW g \in Destinations,
                        held'[g][t] - held[g][t] > 0
                 PROVE  /\ \A d, e \in Destinations :
                              (held'[d][t] - held[d][t]) * shareOf(distribution, e, t)
                                  = (held'[e][t] - held[e][t]) * shareOf(distribution, d, t)
                        /\ held'[IF t = RSR THEN RSRTrader ELSE RTokenTrader][t]
                               < total(distribution, t)
      BY DEF FairStep
    <3>1. \A d \in Destinations : held[d] \in [Tokens -> Nat] /\ held'[d] \in [Tokens -> Nat]
      BY <1>1, <2>6, Parties DEF Holdings
    <3>2. t = erc20
      <4> SUFFICES ASSUME t # erc20 PROVE FALSE
        OBVIOUS
      <4>1. t \in Tokens /\ held[g] \in [Tokens -> Nat]
        BY <3>1, Parties
      <4>2. held'[g][t] = held[g][t]
        BY <2>5, <4>1
      <4> QED BY <4>1, <4>2
    <3>3. x = IF t = RSR THEN RSRTrader ELSE RTokenTrader
      BY <1>4, <3>2, Parties DEF tokenToBuy, RevenueTraders
    <3>4. held'[x][t] = amount - paid
      <4>1. held[x] \in [Tokens -> Nat]
        BY <1>1 DEF Holdings
      <4> QED BY <2>4, <2>5, <3>2, <4>1
    <3>5. \A d \in Destinations : held'[d][t] - held[d][t] = pay(d)
      <4> SUFFICES ASSUME NEW d \in Destinations PROVE held'[d][t] - held[d][t] = pay(d)
        OBVIOUS
      <4>1. held'[d][t] = held[d][t] + pay(d) /\ held[d][t] \in Nat /\ pay(d) \in Nat
        BY <2>2, <2>5, <3>1, <3>2
      <4> QED BY <4>1
    <3>6. ASSUME NEW d \in Destinations, NEW e \in Destinations
          PROVE  pay(d) * shareOf(distribution, e, t) = pay(e) * shareOf(distribution, d, t)
      <4> DEFINE q == amount \div all
                 a == shareOf(distribution, d, t)
                 b == shareOf(distribution, e, t)
      <4>1. a \in Nat /\ b \in Nat
        BY <1>1, TotalNat
      <4>2. all \in Nat \ {0} /\ amount \in Nat
        BY <1>1, <2>1, <2>4, TotalNat DEF all
      <4>3. q \in Nat
        BY <4>2, DivFloor
      <4>4. pay(d) = q * a /\ pay(e) = q * b
        BY <2>3, <3>2
      <4> HIDE DEF q, a, b
      <4>5. (q * a) * b = (q * b) * a
        BY <4>1, <4>3
      <4> QED BY <4>4, <4>5 DEF a, b
    <3>7. amount - paid < total(distribution, t)
      BY <2>2, <3>2 DEF all
    <3> QED BY <3>3, <3>4, <3>5, <3>6, <3>7
  <2>8. Amounts' /\ Heeded' /\ Restrained
    <3>1. Heeded'
      BY <1>2, <2>1 DEF Sound, Heeded
    <3>2. Restrained
      BY <2>1 DEF Restrained, Sound, Amounts
    <3> QED BY <1>2, <2>1, <2>6, <3>1, <3>2 DEF Sound, Amounts, Nonzero
  <2> QED BY <2>7, <2>8 DEF SoundStep, Sound
<1> QED BY <1>3, <1>4

\* What the two traders are handed out is no more than there is.
LEMMA HandedOut ==
    ASSUME Sound, NEW n \in Nat
    PROVE  /\ toTrader(RSRTrader, n) \in Nat /\ toTrader(RTokenTrader, n) \in Nat
           /\ toTrader(RSRTrader, n) + toTrader(RTokenTrader, n) <= n
<1> DEFINE a == total(distribution, RSR)
           b == total(distribution, RToken)
           q == n \div (a + b)
<1>1. a \in Nat /\ b \in Nat /\ a + b \in Nat \ {0}
  <2>1. a \in Nat /\ b \in Nat
    BY TotalNat DEF Sound, Amounts
  <2>2. a > 0 \/ b > 0
    BY DEF Sound, Amounts, Nonzero
  <2> HIDE DEF a, b
  <2> QED BY <2>1, <2>2
<1>2. toTrader(RSRTrader, n) = q * a /\ toTrader(RTokenTrader, n) = q * b
  BY Parties DEF toTrader, tokenToBuy
<1> HIDE DEF a, b
<1>3. q \in Nat /\ q * (a + b) <= n
  BY <1>1, DivFloor
<1> HIDE DEF q
<1>4. q * a \in Nat /\ q * b \in Nat /\ q * (a + b) = q * a + q * b
  BY <1>1, <1>3, MulNat
<1> QED BY <1>2, <1>3, <1>4

LEMMA handoutSound ==
    ASSUME Sound, NEW erc20s, handoutExcessAssets(erc20s), UNCHANGED <<disabled, distribution>>
    PROVE  SoundStep
<1>0. /\ held \in Holdings /\ basketsNeeded \in Nat
      /\ held[BackingManager] \in [Tokens -> Nat]
  BY Parties DEF Sound, Amounts, Holdings
<1>1. PICK rTok \in 0 .. held[BackingManager][Basket] - basketsNeeded :
        LET bm == held[BackingManager]
            excess(t) == CASE t \notin erc20s \cup {RSR} \/ t = Basket -> 0
                           [] t = RToken -> bm[RToken] + rTok
                           [] OTHER -> bm[t]
            gets(x, t) == IF t = RSR THEN (IF x = RSRTrader THEN bm[RSR] ELSE 0)
                                     ELSE toTrader(x, excess(t))
        IN
        /\ basketsNeeded' = bm[Basket]
        /\ held' = [x \in Holders |->
              CASE x \in RevenueTraders -> [t \in Tokens |-> held[x][t] + gets(x, t)]
                [] x = BackingManager ->
                      [t \in Tokens |-> (IF t = RToken THEN bm[t] + rTok ELSE bm[t])
                                            - gets(RSRTrader, t) - gets(RTokenTrader, t)]
                [] OTHER -> held[x]]
        /\ UNCHANGED <<clones, trades, tradesOpen>>
  BY Zenon DEF handoutExcessAssets
<1> DEFINE bm == held[BackingManager]
           excess(t) == CASE t \notin erc20s \cup {RSR} \/ t = Basket -> 0
                           [] t = RToken -> bm[RToken] + rTok
                           [] OTHER -> bm[t]
           gets(x, t) == IF t = RSR THEN (IF x = RSRTrader THEN bm[RSR] ELSE 0)
                                    ELSE toTrader(x, excess(t))
           has(t) == IF t = RToken THEN bm[t] + rTok ELSE bm[t]
           mine(t) == has(t) - gets(RSRTrader, t) - gets(RTokenTrader, t)
           row(x) == [t \in Tokens |-> held[x][t] + gets(x, t)]
<1>2. /\ held' = [x \in Holders |->
              CASE x \in RevenueTraders -> row(x)
                [] x = BackingManager -> [t \in Tokens |-> mine(t)]
                [] OTHER -> held[x]]
      /\ basketsNeeded' = bm[Basket]
      /\ UNCHANGED <<clones, trades, tradesOpen>>
  BY <1>1, Zenon
<1>3. rTok \in Nat
  <2>1. bm[Basket] \in Nat
    BY <1>0, Parties
  <2> QED BY <1>0, <2>1
<1>4. ASSUME NEW t \in Tokens
      PROVE  /\ gets(RSRTrader, t) \in Nat /\ gets(RTokenTrader, t) \in Nat
             /\ mine(t) \in Nat
  <2>1. bm[t] \in Nat /\ has(t) \in Nat /\ bm[RToken] \in Nat
    BY <1>0, <1>3, Parties
  <2>2. excess(t) \in Nat /\ excess(t) <= has(t)
    BY <2>1, <1>3
  <2>3. /\ gets(RSRTrader, t) \in Nat /\ gets(RTokenTrader, t) \in Nat
        /\ gets(RSRTrader, t) + gets(RTokenTrader, t) <= has(t)
    <3>1. CASE t = RSR
      <4>1. gets(RSRTrader, t) = bm[t] /\ gets(RTokenTrader, t) = 0 /\ has(t) = bm[t]
        BY <3>1, Parties
      <4> HIDE DEF gets, bm, has
      <4> QED BY <2>1, <4>1
    <3>2. CASE t # RSR
      <4>1. /\ gets(RSRTrader, t) = toTrader(RSRTrader, excess(t))
            /\ gets(RTokenTrader, t) = toTrader(RTokenTrader, excess(t))
        BY <3>2
      <4> HIDE DEF gets, excess, has
      <4>2. /\ toTrader(RSRTrader, excess(t)) \in Nat /\ toTrader(RTokenTrader, excess(t)) \in Nat
            /\ toTrader(RSRTrader, excess(t)) + toTrader(RTokenTrader, excess(t)) <= excess(t)
        BY <2>2, HandedOut
      <4> QED BY <2>1, <2>2, <4>1, <4>2
    <3> QED BY <3>1, <3>2
  <2> HIDE DEF gets, has
  <2> QED BY <2>1, <2>3
<1> HIDE DEF gets, mine
<1>5. ASSUME NEW y \in Holders PROVE held'[y] \in [Tokens -> Nat]
  <2>0. held[y] \in [Tokens -> Nat]
    BY <1>0 DEF Holdings
  <2>1. CASE y \in RevenueTraders
    <3>1. held'[y] = [t \in Tokens |-> held[y][t] + gets(y, t)]
      <4>1. row(y) = [t \in Tokens |-> held[y][t] + gets(y, t)]
        OBVIOUS
      <4> HIDE DEF row
      <4> QED BY <1>2, <2>1, <4>1, Parties DEF RevenueTraders
    <3>2. \A t \in Tokens : held[y][t] + gets(y, t) \in Nat
      <4> SUFFICES ASSUME NEW t \in Tokens PROVE held[y][t] + gets(y, t) \in Nat
        OBVIOUS
      <4>1. gets(y, t) \in Nat /\ held[y][t] \in Nat
        BY <1>4, <2>0, <2>1 DEF RevenueTraders
      <4> QED BY <4>1
    <3> QED BY <3>1, <3>2
  <2>2. CASE y = BackingManager
    <3>1. held'[y] = [t \in Tokens |-> mine(t)]
      BY <1>2, <2>2, Parties DEF RevenueTraders
    <3> QED BY <1>4, <3>1
  <2>3. CASE y \notin RevenueTraders /\ y # BackingManager
    <3>1. held'[y] = held[y]
      BY <1>2, <2>3
    <3> QED BY <2>0, <3>1
  <2> QED BY <2>1, <2>2, <2>3
<1>6. held' \in Holdings
  <2>1. held' = [y \in Holders |-> held'[y]]
    BY <1>2
  <2> QED BY <1>5, <2>1 DEF Holdings
<1>7. NoGain
  <2> SUFFICES ASSUME NEW d \in Destinations, NEW t \in Tokens
               PROVE  held'[d][t] <= held[d][t]
    BY DEF NoGain
  <2>1. d \in Holders /\ d \notin RevenueTraders /\ d # BackingManager
    BY TradersAssumption, Parties DEF Traders
  <2>2. held'[d] = held[d]
    BY <1>2, <2>1
  <2>3. held[d][t] \in Nat
    BY <1>0, <2>1 DEF Holdings
  <2> QED BY <2>2, <2>3
<1>8. FairStep
  BY <1>0, <1>6, <1>7, NoGainFair
<1>9. basketsNeeded' \in Nat
  BY <1>0, <1>2, Parties
<1>10. Heeded' /\ Restrained
  <2>1. Len(clones) \in Nat
    BY DEF Sound, Amounts
  <2> QED BY <1>2, <2>1 DEF Sound, Heeded, Restrained
<1>11. Amounts'
  BY <1>2, <1>6, <1>9 DEF Sound, Amounts, Nonzero
<1> QED BY <1>8, <1>10, <1>11 DEF SoundStep, Sound

LEMMA recollateralizeSound ==
    ASSUME Sound, recollateralize, UNCHANGED <<basketsNeeded, disabled, distribution>>
    PROVE  SoundStep
<1>1. PICK sell \in Tokens \ {Basket}, minBuy \in MinBuys :
        LET bal == held[BackingManager][sell]
            most == IF sell = RSR THEN bal + held[ST_RSR][RSR] ELSE bal
        IN  \E n \in sellAmounts(most) :
               LET seized == IF n > bal THEN n - bal ELSE 0
                   h == Take(Give(held, ST_RSR, RSR, seized), BackingManager, RSR, seized)
               IN  tryTrade(h, BackingManager, sell, Basket, n, minBuy)
  BY Zenon DEF recollateralize
<1> DEFINE bal == held[BackingManager][sell]
           most == IF sell = RSR THEN bal + held[ST_RSR][RSR] ELSE bal
<1>2. PICK n \in sellAmounts(most) :
        LET seized == IF n > bal THEN n - bal ELSE 0
            h == Take(Give(held, ST_RSR, RSR, seized), BackingManager, RSR, seized)
        IN  tryTrade(h, BackingManager, sell, Basket, n, minBuy)
  BY <1>1, Zenon
<1> DEFINE seized == IF n > bal THEN n - bal ELSE 0
           g == Give(held, ST_RSR, RSR, seized)
           h == Take(g, BackingManager, RSR, seized)
<1>3. tryTrade(h, BackingManager, sell, Basket, n, minBuy)
  BY <1>2
<1>4. held \in Holdings /\ bal \in Nat /\ held[ST_RSR][RSR] \in Nat /\ held[BackingManager][RSR] \in Nat
  BY Parties DEF Sound, Amounts, Holdings
<1>5. most \in Nat
  BY <1>4
<1> HIDE DEF most
<1>6. n \in Nat /\ n <= most
  BY <1>5, SellAmountsFit
<1>7. /\ seized \in Nat /\ seized <= held[ST_RSR][RSR]
      /\ sell # RSR => n <= bal
      /\ n <= bal + seized
  <2> DEFINE r == held[ST_RSR][RSR]
  <2>1. most = IF sell = RSR THEN bal + r ELSE bal
    BY DEF most
  <2>2. seized = IF n > bal THEN n - bal ELSE 0
    OBVIOUS
  <2>3. r \in Nat /\ bal \in Nat
    BY <1>4
  <2> HIDE DEF bal, r, seized
  <2>4. seized \in Nat /\ seized <= r /\ (sell # RSR => n <= bal) /\ n <= bal + seized
    BY <1>6, <2>1, <2>2, <2>3
  <2> QED BY <2>4 DEF r
<1> HIDE DEF seized
<1>8. /\ g \in Holdings
      /\ g[ST_RSR][RSR] = held[ST_RSR][RSR] - seized
      /\ \A y \in Holders, t \in Tokens : y # ST_RSR \/ t # RSR => g[y][t] = held[y][t]
  BY <1>4, <1>7, Parties, GiveNat
<1> HIDE DEF g
<1>9. /\ h \in Holdings
      /\ h[BackingManager][RSR] = g[BackingManager][RSR] + seized
      /\ \A y \in Holders, t \in Tokens : y # BackingManager \/ t # RSR => h[y][t] = g[y][t]
  BY <1>7, <1>8, Parties, TakeNat
<1> HIDE DEF h
<1>10. n <= h[BackingManager][sell]
  <2>1. CASE sell = RSR
    BY <1>7, <1>8, <1>9, <2>1, Parties
  <2>2. CASE sell # RSR
    BY <1>7, <1>8, <1>9, <2>2, Parties
  <2> QED BY <2>1, <2>2
<1>11. /\ clones' \in Seq(CloneType) /\ Heeded' /\ Restrained /\ held' \in Holdings
       /\ \A y \in Holders, t \in Tokens : y # BackingManager => held'[y][t] = h[y][t]
  <2>1. BackingManager \in Traders /\ minBuy \in Nat
    BY AmountsAssumption DEF Traders
  <2> QED BY <1>3, <1>6, <1>9, <1>10, <2>1, Parties, tryTradeSound
<1>12. NoGain
  <2> SUFFICES ASSUME NEW d \in Destinations, NEW t \in Tokens
               PROVE  held'[d][t] <= held[d][t]
    BY DEF NoGain
  <2>1. d \in Holders /\ d # BackingManager
    BY Parties, TradersAssumption DEF Traders
  <2>2. held[d][t] \in Nat
    BY <1>4, <2>1 DEF Holdings
  <2>3. held'[d][t] = g[d][t]
    BY <1>9, <1>11, <2>1
  <2>4. CASE d = ST_RSR /\ t = RSR
    BY <1>4, <1>7, <1>8, <2>3, <2>4
  <2>5. CASE ~(d = ST_RSR /\ t = RSR)
    BY <1>8, <2>1, <2>2, <2>3, <2>5
  <2> QED BY <2>4, <2>5
<1>13. FairStep
  BY <1>4, <1>11, <1>12, NoGainFair
<1>14. Amounts'
  BY <1>11 DEF Sound, Amounts, Nonzero
<1> QED BY <1>11, <1>13, <1>14 DEF SoundStep, Sound

\* Steps that leave the holdings and the trades alone.
LEMMA QuietSound ==
    ASSUME Sound, UNCHANGED <<held, clones, disabled>>, basketsNeeded' \in Nat,
           distribution' \in [Destinations -> RevenueShare], Nonzero(distribution')
    PROVE  SoundStep
<1>1. NoGain
  BY Parties DEF NoGain, Sound, Amounts, Holdings
<1>2. FairStep
  BY <1>1, NoGainFair DEF Sound, Amounts
<1>3. Heeded' /\ Restrained
  BY DEF Sound, Amounts, Heeded, Restrained
<1>4. Amounts'
  BY DEF Sound, Amounts, Nonzero
<1> QED BY <1>2, <1>3, <1>4 DEF SoundStep, Sound

LEMMA manageTokensSound ==
    ASSUME Sound, NEW erc20s, manageTokens(erc20s)
    PROVE  SoundStep
<1>1. UNCHANGED <<disabled, distribution>>
  BY DEF manageTokens
<1>2. CASE handoutExcessAssets(erc20s)
  BY <1>1, <1>2, handoutSound
<1>3. CASE recollateralize /\ UNCHANGED basketsNeeded
  BY <1>1, <1>3, recollateralizeSound
<1>4. CASE compromiseBasketsNeeded
  <2>1. basketsNeeded' = held[BackingManager][Basket] /\ UNCHANGED <<held, clones>>
    BY <1>4 DEF compromiseBasketsNeeded
  <2>2. basketsNeeded' \in Nat
    BY <2>1, Parties DEF Sound, Amounts, Holdings
  <2> QED BY <1>1, <2>1, <2>2, QuietSound DEF Sound, Amounts
<1> QED BY <1>2, <1>3, <1>4 DEF manageTokens

\* What clearing leaves of the amounts.
LEMMA ClearedTyped ==
    ASSUME NEW old \in CloneType, NEW c \in Clearings(old)
    PROVE  c \in CloneType /\ c.heeded = old.heeded
<1>1. PICK back \in 0 .. old.escrow, proceeds \in Proceeds : c = Cleared(old, back, proceeds)
  BY DEF Clearings
<1>2. /\ back \in Nat /\ proceeds \in Nat
      /\ old.sellBal \in Nat /\ old.buyBal \in Nat
  BY AmountsAssumption DEF CloneType
<1>3. old.sellBal + back \in Nat /\ old.buyBal + proceeds \in Nat
  BY <1>2
<1> QED BY <1>1, <1>3 DEF Cleared, CloneType

\* A step that changes one clone without settling it, and at most pays its origin.
LEMMA OneCloneSound ==
    ASSUME Sound, NEW i \in DOMAIN clones, NEW c \in CloneType, c.heeded = clones[i].heeded,
           clones' = [clones EXCEPT ![i] = c], UNCHANGED <<basketsNeeded, disabled, distribution>>,
           held' \in Holdings, NoGain
    PROVE  SoundStep
<1>1. /\ clones' \in Seq(CloneType) /\ Len(clones') = Len(clones)
      /\ DOMAIN clones' = DOMAIN clones
      /\ clones'[i] = c /\ \A j \in DOMAIN clones : j # i => clones'[j] = clones[j]
  BY OneCloneTyped
<1>2. Heeded'
  BY <1>1 DEF Sound, Heeded
<1>3. Restrained
  BY <1>1 DEF Restrained, Sound, Amounts
<1>4. FairStep
  BY NoGainFair DEF Sound, Amounts
<1>5. Amounts'
  BY <1>1 DEF Sound, Amounts, Nonzero
<1> QED BY <1>2, <1>3, <1>4, <1>5 DEF SoundStep, Sound

\* Holdings that do not change.
LEMMA SameHoldings ==
    ASSUME Sound, held' = held
    PROVE  held' \in Holdings /\ NoGain
  BY Parties, SMTT(60) DEF NoGain, Sound, Amounts, Holdings

LEMMA auctionSound ==
    ASSUME Sound, NEW i \in DOMAIN clones,
           settleAuction(i) \/ Stray(i) \/ transferToOriginAfterTradeComplete(i)
    PROVE  SoundStep
<1> DEFINE old == clones[i]
<1>0. old \in CloneType /\ held \in Holdings
  BY DEF Sound, Amounts
<1>1. UNCHANGED <<basketsNeeded, disabled, distribution>>
  BY DEF settleAuction, Stray, transferToOriginAfterTradeComplete
<1>2. CASE settleAuction(i)
  <2>1. PICK c \in Clearings(old) : clones' = [clones EXCEPT ![i] = c]
    BY <1>2 DEF settleAuction
  <2>2. c \in CloneType /\ c.heeded = old.heeded
    BY <1>0, <2>1, ClearedTyped
  <2>3. held' \in Holdings /\ NoGain
    BY <1>2, SameHoldings DEF settleAuction
  <2> QED BY <1>1, <2>1, <2>2, <2>3, OneCloneSound
<1>3. CASE Stray(i)
  <2>1. PICK c \in {[old EXCEPT !.sellBal = @ + 1], [old EXCEPT !.buyBal = @ + 1]} :
           clones' = [clones EXCEPT ![i] = c]
    BY <1>3 DEF Stray
  <2>2. c \in CloneType /\ c.heeded = old.heeded
    BY <1>0, <2>1 DEF CloneType
  <2>3. held' \in Holdings /\ NoGain
    BY <1>3, SameHoldings DEF Stray
  <2> QED BY <1>1, <2>1, <2>2, <2>3, OneCloneSound
<1>4. CASE transferToOriginAfterTradeComplete(i)
  <2>1. PICK token \in Tokens, n \in Nat,
             c \in {[old EXCEPT !.sellBal = 0], [old EXCEPT !.buyBal = 0]} :
           /\ held' = Take(held, old.origin, token, n)
           /\ clones' = [clones EXCEPT ![i] = c]
    <3>1. old.sell \in Tokens /\ old.buy \in Tokens /\ old.sellBal \in Nat /\ old.buyBal \in Nat
      BY <1>0 DEF CloneType
    <3> QED BY <1>4, <3>1 DEF transferToOriginAfterTradeComplete
  <2>2. c \in CloneType /\ c.heeded = old.heeded
    BY <1>0, <2>1 DEF CloneType
  <2>3. old.origin \in Holders /\ old.origin \notin Destinations
    BY <1>0, TradersAssumption DEF CloneType, Holders
  <2>4. /\ held' \in Holdings
        /\ \A y \in Holders, t \in Tokens : y # old.origin => held'[y][t] = held[y][t]
    BY <1>0, <2>1, <2>3, TakeNat
  <2>5. NoGain
    BY <1>0, <2>3, <2>4, OthersGainNothing
  <2> QED BY <1>1, <2>1, <2>2, <2>4, <2>5, OneCloneSound
<1> QED BY <1>2, <1>3, <1>4

\* A quotient that is below another by one or more is below it after rounding.
LEMMA LowerQuotient ==
    ASSUME NEW a \in Nat, NEW b \in Nat \ {0}, NEW w \in Nat, NEW v \in Nat \ {0},
           (a + b) * v <= w * b
    PROVE  a \div b < w \div v
<1> DEFINE m == a \div b
<1>1. m \in Nat /\ m * b <= a
  BY DivFloor
<1> HIDE DEF m
<1>2. (m + 1) * v <= w
  <2> SUFFICES ASSUME w + 1 <= (m + 1) * v PROVE FALSE
    <3>1. (m + 1) * v \in Nat
      BY <1>1, MulNat
    <3> QED BY <3>1
  <2>1. (w + 1) * b <= ((m + 1) * v) * b
    <3>1. (m + 1) * v \in Nat
      BY <1>1, MulNat
    <3> QED BY <3>1, MulMono
  <2>2. ((m + 1) * v) * b = (m * b + b) * v
    BY <1>1, SMT
  <2>3. (m * b + b) * v <= (a + b) * v
    <3>1. m * b \in Nat
      BY <1>1, MulNat
    <3> QED BY <1>1, <3>1, MulMono
  <2>4. (w + 1) * b = w * b + b
    BY SMT
  <2>5. /\ w * b \in Nat /\ (w + 1) * b \in Nat /\ (a + b) * v \in Nat
        /\ (m * b + b) * v \in Nat
    <3>1. m * b \in Nat
      BY <1>1, MulNat
    <3> QED BY <3>1, MulNat
  <2> QED BY <2>1, <2>2, <2>3, <2>4, <2>5
<1>3. m + 1 <= w \div v
  BY <1>1, <1>2, DivGreatest
<1>4. w \div v \in Nat
  BY DivFloor
<1> QED BY <1>1, <1>3, <1>4 DEF m

\* What the origin finds a poor trade, the trade reports.
LEMMA PoorIsReported ==
    ASSUME NEW c \in CloneType, NEW closed,
           closed.sell = c.sell, closed.buy = c.buy, closed.sellAmount = c.sellAmount,
           closed.minBuy = c.minBuy, closed.soldAmt = fixMax(c.initBal - c.sellBal, 0),
           closed.boughtAmt = c.buyBal, Poor(closed)
    PROVE  BelowWorst(c)
<1> DEFINE sold == fixMax(c.initBal - c.sellBal - 1, 1)
           qs == quantum[c.sell]
           a == c.buyBal * quantum[c.buy] * FIX_ONE
           b == sold * qs
           w == c.minBuy * quantum[c.buy] * FIX_ONE
           v == c.sellAmount * qs
<1>1. /\ c.initBal \in Nat /\ c.sellBal \in Nat /\ c.buyBal \in Nat
      /\ c.sellAmount \in Nat \ {0} /\ c.minBuy \in Nat
      /\ c.sell \in Tokens /\ c.buy \in Tokens
  BY DEF CloneType
<1>2. qs \in Nat \ {0} /\ quantum[c.buy] \in Nat /\ FIX_ONE \in Nat
  BY <1>1, PricesAssumption
<1>3. sold \in Nat \ {0}
  BY <1>1 DEF fixMax
<1>4. c.sellBal < c.initBal /\ fixMax(closed.soldAmt - 1, 1) = sold
  <2>1. fixMax(c.initBal - c.sellBal, 0) > 0
    BY DEF Poor
  <2> QED BY <1>1, <2>1 DEF fixMax
<1>5. (a + b) * c.sellAmount <= w * sold
  <2> HIDE DEF sold
  <2> QED BY <1>4 DEF Poor
<1>6. a \in Nat /\ w \in Nat
  <2>1. c.buyBal * quantum[c.buy] \in Nat /\ c.minBuy * quantum[c.buy] \in Nat
    BY <1>1, <1>2, MulNat
  <2> QED BY <1>2, <2>1, MulNat
<1> HIDE DEF sold, qs, a, w
<1>7. b \in Nat \ {0} /\ v \in Nat \ {0}
  BY <1>1, <1>2, <1>3, SMT
<1>8. (a + b) * v <= w * b
  <2>1. (a + b) * c.sellAmount \in Nat /\ w * sold \in Nat
    BY <1>1, <1>3, <1>6, <1>7, MulNat
  <2>2. ((a + b) * c.sellAmount) * qs <= (w * sold) * qs
    BY <1>2, <1>5, <2>1, MulMono
  <2>3. ((a + b) * c.sellAmount) * qs = (a + b) * v
    <3> HIDE DEF b
    <3> QED BY <1>1, <1>2, <1>6, <1>7, SMT
  <2>4. (w * sold) * qs = w * b
    BY <1>2, <1>3, <1>6, SMT
  <2> QED BY <2>2, <2>3, <2>4
<1>9. a \div b < w \div v
  <2> HIDE DEF b, v
  <2> QED BY <1>6, <1>7, <1>8, LowerQuotient
<1>10. clearingPrice(c) = a \div b /\ worstCasePrice(c) = w \div v
  BY DEF clearingPrice, worstCasePrice, price, a, w, qs, sold
<1> QED BY <1>4, <1>9, <1>10 DEF BelowWorst

LEMMA settleTradeSound ==
    ASSUME IInv, Sound, NEW x \in Traders, NEW sell \in Tokens, settleTrade(x, sell)
    PROVE  SoundStep
<1> DEFINE i == trades[x][sell]
           old == clones[i]
           closing(c) == [c EXCEPT !.status = "CLOSED", !.sellBal = 0, !.buyBal = 0,
                                   !.soldAmt = fixMax(c.initBal - c.sellBal, 0), !.boughtAmt = c.buyBal]
<1>1. /\ i \in DOMAIN clones /\ old \in CloneType /\ held \in Holdings
      /\ clones \in Seq(CloneType) /\ disabled \in BOOLEAN
  BY DEF settleTrade, IInv, Shape, Sound, Amounts
<1>2. PICK c \in Found(old) :
        /\ held' = Take(Take(held, c.origin, c.sell, c.sellBal), c.origin, c.buy, c.buyBal)
        /\ disabled' = (disabled \/ BelowWorst(c))
        /\ clones' = [clones EXCEPT ![i] = [closing(c) EXCEPT !.heeded = ~Poor(closing(c))]]
  BY DEF settleTrade
<1>3. c \in CloneType
  BY <1>1, <1>2, ClearedTyped DEF Found
<1>4. /\ c.origin \in Traders /\ c.sell \in Tokens /\ c.buy \in Tokens
      /\ c.sellBal \in Nat /\ c.buyBal \in Nat /\ c.initBal \in Nat
  BY <1>3 DEF CloneType
<1>5. fixMax(c.initBal - c.sellBal, 0) \in Nat
  BY <1>4 DEF fixMax
<1>6. closing(c) \in CloneType
  BY <1>3, <1>4, <1>5 DEF CloneType
<1>7. Poor(closing(c)) => BelowWorst(c)
  <2>1. /\ closing(c).sell = c.sell /\ closing(c).buy = c.buy
        /\ closing(c).sellAmount = c.sellAmount /\ closing(c).minBuy = c.minBuy
        /\ closing(c).soldAmt = fixMax(c.initBal - c.sellBal, 0)
        /\ closing(c).boughtAmt = c.buyBal
    BY <1>3 DEF CloneType
  <2> HIDE DEF closing
  <2> QED BY <1>3, <2>1, PoorIsReported
<1> HIDE DEF closing
<1> DEFINE d == [closing(c) EXCEPT !.heeded = ~Poor(closing(c))]
<1>8. d \in CloneType /\ (~d.heeded => BelowWorst(c))
  <2>1. Poor(closing(c)) \in BOOLEAN
    BY DEF Poor
  <2> QED BY <1>6, <1>7, <2>1 DEF CloneType
<1> HIDE DEF d, i
<1>9. /\ clones' \in Seq(CloneType) /\ Len(clones') = Len(clones)
      /\ DOMAIN clones' = DOMAIN clones
      /\ clones'[i] = d /\ \A j \in DOMAIN clones : j # i => clones'[j] = clones[j]
  <2>1. clones' = [clones EXCEPT ![i] = d]
    BY <1>2 DEF d
  <2> QED BY <1>1, <1>8, <2>1, OneCloneTyped
<1>10. Heeded'
  BY <1>2, <1>8, <1>9 DEF Sound, Heeded
<1>11. disabled' \in BOOLEAN
  BY <1>1, <1>2 DEF BelowWorst
<1>12. Restrained
  BY <1>1, <1>9 DEF Restrained
<1>13. /\ held' \in Holdings
       /\ \A y \in Holders, t \in Tokens : y # c.origin => held'[y][t] = held[y][t]
  <2> DEFINE o == c.origin
             s == c.sell
             b == c.buy
             m == c.sellBal
             n == c.buyBal
             g == Take(held, o, s, m)
  <2>1. o \in Holders /\ s \in Tokens /\ b \in Tokens /\ m \in Nat /\ n \in Nat
    BY <1>4, Parties
  <2>2. held' = Take(g, o, b, n)
    BY <1>2
  <2> HIDE DEF o, s, b, m, n
  <2>3. g \in Holdings /\ \A y \in Holders, t \in Tokens : y # o => g[y][t] = held[y][t]
    BY <1>1, <2>1, TakeNat
  <2> HIDE DEF g
  <2>4. /\ held' \in Holdings
        /\ \A y \in Holders, t \in Tokens : y # o => held'[y][t] = g[y][t]
    BY <2>1, <2>2, <2>3, TakeNat
  <2> QED BY <2>3, <2>4 DEF o
<1>14. NoGain
  <2>1. c.origin \notin Destinations
    BY <1>4, TradersAssumption
  <2> QED BY <1>1, <1>13, <2>1, OthersGainNothing
<1>15. FairStep
  BY <1>1, <1>13, <1>14, NoGainFair
<1>16. UNCHANGED <<basketsNeeded, distribution>>
  BY DEF settleTrade
<1>17. Amounts'
  BY <1>9, <1>11, <1>13, <1>16 DEF Sound, Amounts, Nonzero
<1> QED BY <1>10, <1>12, <1>15, <1>17 DEF SoundStep, Sound

\* Clones that are all changed alike, without settling any.
LEMMA AllClonesSound ==
    ASSUME Sound, UNCHANGED <<held, basketsNeeded, distribution>>, disabled' \in BOOLEAN,
           NEW f, \A i \in DOMAIN clones : f[i] \in CloneType /\ (~f[i].heeded => disabled'),
           clones' = [i \in DOMAIN clones |-> f[i]]
    PROVE  SoundStep
<1>1. /\ clones \in Seq(CloneType) /\ Len(clones) \in Nat /\ DOMAIN clones = 1 .. Len(clones)
  BY DEF Sound, Amounts
<1>2. clones' \in Seq(CloneType) /\ Len(clones') = Len(clones) /\ DOMAIN clones' = DOMAIN clones
  <2> HIDE DEF CloneType
  <2>1. clones' \in [1 .. Len(clones) -> CloneType]
    BY <1>1
  <2>2. clones' \in Seq(CloneType)
    BY <1>1, <2>1
  <2>3. Len(clones') = Len(clones)
    BY <1>1, <2>1, <2>2
  <2> QED BY <1>1, <2>1, <2>2, <2>3
<1>3. Heeded' /\ Restrained
  <2>1. \A i \in DOMAIN clones' : ~clones'[i].heeded => disabled'
    BY <1>2
  <2> QED BY <1>1, <1>2, <2>1 DEF Heeded, Restrained
<1>4. FairStep
  <2>1. held \in Holdings
    BY DEF Sound, Amounts
  <2> QED BY <2>1, SameHoldings, NoGainFair
<1>5. Amounts'
  BY <1>2 DEF Sound, Amounts, Nonzero
<1> QED BY <1>3, <1>4, <1>5 DEF SoundStep, Sound

LEMMA setDisabledSound ==
    ASSUME Sound, NEW b \in BOOLEAN, setDisabled(b)
    PROVE  SoundStep
<1>1. /\ disabled' = b /\ UNCHANGED <<held, basketsNeeded, distribution>>
      /\ clones' = IF b THEN clones ELSE [i \in DOMAIN clones |-> [clones[i] EXCEPT !.heeded = TRUE]]
  BY DEF setDisabled
<1>2. \A i \in DOMAIN clones : clones[i] \in CloneType
  BY DEF Sound, Amounts
<1>3. CASE b
  <2>1. clones' = [i \in DOMAIN clones |-> clones[i]]
    BY <1>1, <1>3 DEF Sound, Amounts
  <2> QED BY <1>1, <1>2, <1>3, <2>1, AllClonesSound
<1>4. CASE ~b
  <2> DEFINE f == [i \in DOMAIN clones |-> [clones[i] EXCEPT !.heeded = TRUE]]
  <2>1. clones' = [i \in DOMAIN clones |-> f[i]]
    BY <1>1, <1>4
  <2>2. \A i \in DOMAIN clones : f[i] \in CloneType /\ f[i].heeded = TRUE
    BY <1>2 DEF CloneType
  <2> HIDE DEF f
  <2> QED BY <1>1, <2>1, <2>2, AllClonesSound
<1> QED BY <1>3, <1>4

LEMMA TickSound ==
    ASSUME Sound, Tick
    PROVE  SoundStep
<1> DEFINE f == [i \in DOMAIN clones |-> [clones[i] EXCEPT !.left = IF @ > 0 THEN @ - 1 ELSE 0]]
<1>1. /\ UNCHANGED <<held, basketsNeeded, disabled, distribution>>
      /\ clones' = [i \in DOMAIN clones |-> f[i]]
  BY DEF Tick
<1>2. \A i \in DOMAIN clones : clones[i] \in CloneType /\ (~clones[i].heeded => disabled')
  BY <1>1 DEF Sound, Amounts, Heeded
<1>3. ASSUME NEW i \in DOMAIN clones
      PROVE  f[i] \in CloneType /\ f[i].heeded = clones[i].heeded
  <2>1. clones[i] \in CloneType /\ clones[i].left \in Nat
    BY <1>2 DEF CloneType
  <2>2. (IF clones[i].left > 0 THEN clones[i].left - 1 ELSE 0) \in Nat
    BY <2>1
  <2>3. f[i] = [clones[i] EXCEPT !.left = IF clones[i].left > 0 THEN clones[i].left - 1 ELSE 0]
    OBVIOUS
  <2> QED BY <2>1, <2>2, <2>3 DEF CloneType
<1> HIDE DEF f
<1>4. disabled' \in BOOLEAN
  BY <1>1 DEF Sound, Amounts
<1> QED BY <1>1, <1>2, <1>3, <1>4, AllClonesSound

LEMMA setDistributionSound ==
    ASSUME Sound, NEW dest \in Destinations, NEW share \in Shares, setDistribution(dest, share)
    PROVE  SoundStep
<1>1. /\ distribution' = [distribution EXCEPT ![dest] = share]
      /\ Nonzero(distribution')
      /\ UNCHANGED <<held, basketsNeeded, clones, disabled>>
  BY DEF setDistribution, Nonzero
<1>2. distribution' \in [Destinations -> RevenueShare]
  BY <1>1, TableAssumption DEF Sound, Amounts
<1>3. basketsNeeded' \in Nat
  BY <1>1 DEF Sound, Amounts
<1> QED BY <1>1, <1>2, <1>3, QuietSound

LEMMA InitSound ==
    ASSUME Init
    PROVE  Sound
<1>1. clones = <<>> /\ clones \in Seq(CloneType)
  BY DEF Init
<1>2. Heeded
  BY <1>1 DEF Heeded
<1> QED BY <1>1, <1>2, AmountsAssumption, TableAssumption DEF Init, Sound, Amounts, Holdings, Nonzero

LEMMA NextSound ==
    ASSUME IInv, Sound, [Next]_vars
    PROVE  SoundStep
<1>1. ASSUME NEW x \in RevenueTraders, NEW erc20 \in Tokens, manageToken(x, erc20)
      PROVE  SoundStep
  BY <1>1, manageTokenSound
<1>2. ASSUME NEW erc20s \in Erc20Lists, manageTokens(erc20s)
      PROVE  SoundStep
  BY <1>2, manageTokensSound
<1>3. CASE SettleAny
  BY <1>3, settleTradeSound DEF SettleAny
<1>4. ASSUME NEW i \in DOMAIN clones,
             settleAuction(i) \/ Stray(i) \/ transferToOriginAfterTradeComplete(i)
      PROVE  SoundStep
  BY <1>4, auctionSound
<1>5. ASSUME NEW dest \in Destinations, NEW share \in Shares, setDistribution(dest, share)
      PROVE  SoundStep
  BY <1>5, setDistributionSound
<1>6. CASE UNCHANGED <<held, basketsNeeded, clones, disabled, distribution>>
  BY <1>6, QuietSound DEF Sound, Amounts
<1>7. ASSUME NEW b \in BOOLEAN, setDisabled(b) \/ SetPaused(b)
      PROVE  SoundStep
  BY <1>6, <1>7, setDisabledSound DEF SetPaused
<1>8. CASE Tick
  BY <1>8, TickSound
<1>9. CASE UNCHANGED vars
  BY <1>6, <1>9 DEF vars
<1> QED BY <1>1, <1>2, <1>3, <1>4, <1>5, <1>7, <1>8, <1>9 DEF Next

LEMMA SoundInvariant == Spec => [](IInv /\ Sound)
<1>1. Init => IInv /\ Sound
  BY InitKeeps, InitSound
<1>2. IInv /\ Sound /\ [Next]_vars => IInv' /\ Sound'
  BY NextKeeps, NextSound DEF SoundStep
<1> QED BY <1>1, <1>2, PTL DEF Spec

\* No payment is more than the payer has, after all roundings, so that none of
\* these transfers makes its transaction revert: neither revenue that is handed
\* out or distributed, nor what is auctioned and the auction house's fee.
NeverOverdrawn ==
    /\ \A x \in Holders, t \in Tokens : held[x][t] >= 0
    /\ \A i \in DOMAIN clones : clones[i].sellBal >= 0

\* No payment is more than the payer has: the two traders' parts of what is
\* handed out, the destinations' parts of what is distributed, and the
\* auction with its fee are covered, however they are rounded.
THEOREM NeverPaysMoreThanHeld == Spec => []NeverOverdrawn
<1>1. Sound => NeverOverdrawn
  <2> SUFFICES ASSUME Sound PROVE NeverOverdrawn
    OBVIOUS
  <2>1. \A x \in Holders, t \in Tokens : held[x][t] \in Nat
    BY DEF Sound, Amounts, Holdings
  <2>2. \A i \in DOMAIN clones : clones[i].sellBal \in Nat
    <3>1. \A i \in DOMAIN clones : clones[i] \in CloneType
      BY DEF Sound, Amounts
    <3> QED BY <3>1 DEF CloneType
  <2> QED BY <2>1, <2>2 DEF NeverOverdrawn
<1> QED BY <1>1, SoundInvariant, PTL

\* After a trade that got less than the least that was asked for, no trader
\* opens a trade until governance has enabled the broker again.
THEOREM PoorTradesAlwaysStop == Spec => PoorTradesStopTrading
<1>1. IInv /\ Sound /\ [Next]_vars =>
         [Len(clones') > Len(clones) => \A i \in DOMAIN clones : clones[i].heeded]_vars
  BY NextSound DEF SoundStep, Restrained, Sound, Heeded
<1> QED BY <1>1, SoundInvariant, PTL DEF Spec, PoorTradesStopTrading

\* Revenue is distributed in proportion to the shares, to the unit, and less
\* than a unit per share is left, for any table of distribution.
THEOREM DistributionAlwaysFair == Spec => DistributionFair
<1>1. IInv /\ Sound /\ [Next]_vars => [FairStep]_vars
  BY NextSound DEF SoundStep
<1>2. Spec => [][FairStep]_vars
  BY <1>1, SoundInvariant, PTL DEF Spec
<1> QED BY <1>2 DEF DistributionFair, FairStep
======================================================================
