--------------------------- MODULE InterfacesProofs ---------------------------
(***************************************************************************)
(* GetClientIPAddress finds the right address in every table.  The proof   *)
(* follows the pass over the table: after n interfaces the choice is right *)
(* for the first n of them.  As a recursive function is a CHOOSE, that the *)
(* pass exists and what it computes is shown by the principle of the       *)
(* smallest counterexample.                                                *)
(***************************************************************************)
EXTENDS Interfaces, WellFoundedInduction, TLAPS

LEMMA LeastNat ==
  ASSUME NEW S \in SUBSET Nat, S # {}
  PROVE  \E n \in S : \A m \in S : n <= m
<1>1. IsWellFoundedOn(OpToRel(<, Nat), Nat)
  BY NatLessThanWellFounded
<1>2. PICK n \in S : \A m \in S : ~(<<m, n>> \in OpToRel(<, Nat))
  BY <1>1, WFMin
<1>3. \A m \in S : ~(m < n)
  BY <1>2 DEF OpToRel
<1>4. \A m \in S : m \in Nat /\ n \in Nat /\ n <= m
  BY <1>3
<1> QED BY <1>4
-----------------------------------------------------------------------------
(***************************************************************************)
(* Powers of two.                                                          *)
(***************************************************************************)
LEMMA PowerDef ==
  \A n \in Nat : Power[n] = IF n = 0 THEN 1 ELSE 2 * Power[n - 1]
<1> DEFINE Is(g, k) == \A n \in 0 .. k : g[n] = IF n = 0 THEN 1 ELSE 2 * g[n - 1]
           Start(k) == CHOOSE g : Is(g, k)
           Bad == {k \in Nat : ~ \E g : Is(g, k)}
           Split == {k \in Nat : \E g, h : Is(g, k) /\ Is(h, k) /\ g[k] # h[k]}
<1>1. Bad = {}
  <2> SUFFICES ASSUME Bad # {} PROVE FALSE
    OBVIOUS
  <2>1. PICK k \in Bad : \A j \in Bad : k <= j
    BY LeastNat
  <2>2. k # 0
    <3>1. Is([n \in 0 .. 0 |-> 1], 0)
      OBVIOUS
    <3> QED BY <2>1, <3>1
  <2>3. k \in Nat /\ k - 1 \in Nat /\ ~(k <= k - 1)
    BY <2>2
  <2>4. PICK g : Is(g, k - 1)
    BY <2>1, <2>3
  <2> DEFINE h == [n \in 0 .. k |-> IF n = k THEN 2 * g[k - 1] ELSE g[n]]
  <2>5. ASSUME NEW n \in 0 .. k
        PROVE  h[n] = IF n = 0 THEN 1 ELSE 2 * h[n - 1]
    BY <2>2, <2>3, <2>4
  <2>6. Is(h, k)
    BY <2>5
  <2> QED BY <2>1, <2>6
<1>2. Split = {}
  <2> SUFFICES ASSUME Split # {} PROVE FALSE
    OBVIOUS
  <2>1. PICK k \in Split : \A j \in Split : k <= j
    BY LeastNat
  <2>2. PICK g, h : Is(g, k) /\ Is(h, k) /\ g[k] # h[k]
    BY <2>1
  <2>3. k \in Nat /\ k # 0
    BY <2>2
  <2>4. k - 1 \in Nat /\ ~(k <= k - 1)
    BY <2>3
  <2>5. Is(g, k - 1) /\ Is(h, k - 1)
    BY <2>2, <2>3, <2>4
  <2>6. k - 1 \in Split
    <3> HIDE DEF Is
    <3>1. g[k - 1] # h[k - 1]
      BY <2>2, <2>3 DEF Is
    <3> QED BY <2>4, <2>5, <3>1
  <2> QED BY <2>1, <2>4, <2>6
<1> DEFINE all == [n \in Nat |-> Start(n)[n]]
<1>3. \A k \in Nat : Is(Start(k), k)
  BY <1>1
<1> HIDE DEF Start
<1>4. ASSUME NEW n \in Nat
      PROVE  all[n] = IF n = 0 THEN 1 ELSE 2 * all[n - 1]
  <2>1. CASE n = 0
    BY <1>3, <2>1
  <2>2. CASE n # 0
    <3>1. n - 1 \in Nat /\ Is(Start(n), n) /\ Is(Start(n - 1), n - 1)
      BY <1>3, <2>2
    <3>2. Is(Start(n), n - 1)
      BY <3>1
    <3>3. Start(n)[n - 1] = Start(n - 1)[n - 1]
      <4> HIDE DEF Is
      <4> QED BY <1>2, <3>1, <3>2
    <3>4. Start(n)[n] = 2 * Start(n)[n - 1]
      BY <3>1, <2>2
    <3> QED BY <3>1, <3>3, <3>4, <2>2
  <2> QED BY <2>1, <2>2
<1>5. all = [n \in Nat |-> IF n = 0 THEN 1 ELSE 2 * all[n - 1]]
  BY <1>4
<1> HIDE DEF all
<1>6. Power = [n \in Nat |-> IF n = 0 THEN 1 ELSE 2 * Power[n - 1]]
  BY <1>5 DEF Power
<1> QED BY <1>6

LEMMA PowerPositive == \A n \in Nat : Power[n] \in Nat \ {0}
<1> DEFINE Bad == {k \in Nat : Power[k] \notin Nat \ {0}}
<1>1. Bad = {}
  <2> SUFFICES ASSUME Bad # {} PROVE FALSE
    OBVIOUS
  <2>1. PICK k \in Bad : \A j \in Bad : k <= j
    BY LeastNat
  <2>2. k \in Nat /\ k # 0 /\ k - 1 \in Nat /\ ~(k <= k - 1)
    BY PowerDef
  <2>3. Power[k - 1] \in Nat \ {0}
    BY <2>1, <2>2
  <2> QED BY <2>1, <2>2, <2>3, PowerDef
<1> QED BY <1>1

LEMMA PowerGrows == \A m, n \in Nat : m < n => Power[m] < Power[n]
<1> DEFINE Bad == {n \in Nat : \E m \in Nat : m < n /\ ~(Power[m] < Power[n])}
<1>1. Bad = {}
  <2> SUFFICES ASSUME Bad # {} PROVE FALSE
    OBVIOUS
  <2>1. PICK n \in Bad : \A j \in Bad : n <= j
    BY LeastNat
  <2>2. PICK m \in Nat : m < n /\ ~(Power[m] < Power[n])
    BY <2>1
  <2>3. n \in Nat /\ n - 1 \in Nat /\ ~(n <= n - 1)
    BY <2>2
  <2>4. Power[n] = 2 * Power[n - 1] /\ Power[n - 1] \in Nat \ {0}
    BY <2>2, <2>3, PowerDef, PowerPositive
  <2>5. m # n - 1
    BY <2>2, <2>4
  <2>6. Power[m] < Power[n - 1]
    BY <2>1, <2>2, <2>3, <2>5
  <2> QED BY <2>2, <2>4, <2>6, PowerPositive
<1> QED BY <1>1

(* The smaller of two networks has the larger mask, and only a network of  *)
(* all addresses has none.                                                 *)
LEMMA MaskOrder ==
  ASSUME NEW x \in Interface, NEW y \in Interface
  PROVE  /\ Mask(x) \in Nat
         /\ Mask(x) < Mask(y) <=> y.hostBits < x.hostBits
         /\ Mask(x) > 0 <=> x.hostBits < WordBits
<1>1. x.hostBits \in 0 .. WordBits /\ y.hostBits \in 0 .. WordBits /\ WordBits \in Nat
  BY AddressAssumption DEF Interface
<1>2. \A m, n \in 0 .. WordBits : m \in Nat /\ Power[m] \in Nat
  BY <1>1, PowerPositive
<1>3. \A m, n \in 0 .. WordBits : m < n => Power[m] < Power[n]
  BY <1>1, <1>2, PowerGrows
<1>4. Power[x.hostBits] <= Power[WordBits]
  <2>1. x.hostBits = WordBits \/ x.hostBits < WordBits
    BY <1>1
  <2>2. CASE x.hostBits = WordBits
    BY <1>1, <1>2, <2>2
  <2>3. CASE x.hostBits < WordBits
    BY <1>1, <1>2, <1>3, <2>3
  <2> QED BY <2>1, <2>2, <2>3
<1> DEFINE a == x.hostBits
           b == y.hostBits
           w == WordBits
<1>5. a < b \/ a = b \/ b < a
  BY <1>1
<1>6. Power[a] \in Nat /\ Power[b] \in Nat /\ Power[w] \in Nat
  BY <1>1, <1>2
<1>7. /\ a < b => Power[a] < Power[b]
      /\ b < a => Power[b] < Power[a]
      /\ a < w => Power[a] < Power[w]
  BY <1>1, <1>3
<1> QED BY <1>1, <1>4, <1>5, <1>6, <1>7 DEF Mask
-----------------------------------------------------------------------------
(***************************************************************************)
(* The pass over the table.                                                *)
(***************************************************************************)
LEMMA PassDef ==
  ASSUME NEW table \in Seq(Interface), NEW server
  PROVE  \A n \in 0 .. Len(table) :
           Pass(table, server)[n] =
             IF n = 0 THEN NoChoice(server)
                      ELSE Visit(Pass(table, server)[n - 1], n, table[n])
<1> DEFINE N == Len(table)
           F(g, n) == IF n = 0 THEN NoChoice(server) ELSE Visit(g[n - 1], n, table[n])
           Is(g, k) == g = [n \in 0 .. k |-> F(g, n)]
           Bad == {k \in Nat : ~ \E g : Is(g, k)}
<1>1. Bad = {}
  <2> SUFFICES ASSUME Bad # {} PROVE FALSE
    OBVIOUS
  <2>1. PICK k \in Bad : \A j \in Bad : k <= j
    BY LeastNat
  <2>2. k # 0
    <3>1. Is([n \in 0 .. 0 |-> NoChoice(server)], 0)
      OBVIOUS
    <3> QED BY <2>1, <3>1
  <2>3. k \in Nat /\ k - 1 \in Nat /\ ~(k <= k - 1)
    BY <2>2
  <2>4. PICK g : Is(g, k - 1)
    BY <2>1, <2>3
  <2> DEFINE h == [n \in 0 .. k |-> IF n = k THEN Visit(g[k - 1], k, table[k]) ELSE g[n]]
  <2>5. ASSUME NEW n \in 0 .. k
        PROVE  h[n] = F(h, n)
    BY <2>2, <2>3, <2>4
  <2>6. Is(h, k)
    BY <2>5
  <2> QED BY <2>1, <2>6
<1>2. N \in Nat
  OBVIOUS
<1>3. \E g : Is(g, N)
  BY <1>1, <1>2
<1>4. Is(Pass(table, server), N)
  BY <1>3 DEF Pass
<1> QED BY <1>2, <1>4

ChoiceRecord == [client: Int, server: Int, isLocal: BOOLEAN, isSameHost: BOOLEAN,
                 longestPrefixMatch: Nat]

(* What GetClientIPAddress should know after the first n interfaces.       *)
OnSameHost(table, server, n) == \E k \in 1 .. n : table[k].address = server

SharedAmong(table, server, n) == {k \in 1 .. n : k \in SharedNetworks(table, server)}

DefaultAmong(table, n, address) ==
  \/ n = 0 /\ address = AnyAddress
  \/ \E k \in 1 .. n :
       /\ address = table[k].address /\ address # Loopback
       /\ \A j \in 1 .. k - 1 : table[j].address = Loopback
  \/ /\ n > 0 /\ address = Loopback
     /\ \A k \in 1 .. n : table[k].address = Loopback

LongestAmong(table, server, n, choice) ==
  \E k \in SharedAmong(table, server, n) :
    /\ choice.client = table[k].address
    /\ choice.longestPrefixMatch = Mask(table[k])
    /\ \A j \in SharedAmong(table, server, n) :
         \/ table[j].hostBits > table[k].hostBits
         \/ table[j].hostBits = table[k].hostBits /\ j >= k

RightSoFar(table, server, n, choice) ==
  /\ choice \in ChoiceRecord
  /\ OnSameHost(table, server, n) =>
       choice.isSameHost /\ choice.isLocal /\ choice.client = Loopback
  /\ ~OnSameHost(table, server, n) =>
       /\ ~choice.isSameHost /\ choice.server = server
       /\ choice.isLocal <=> SharedAmong(table, server, n) # {}
       /\ IF choice.isLocal
          THEN LongestAmong(table, server, n, choice)
          ELSE choice.longestPrefixMatch = 0 /\ DefaultAmong(table, n, choice.client)

LEMMA WordsTyped ==
  ASSUME NEW x \in Interface
  PROVE  /\ x.address \in Int /\ x.address # AnyAddress /\ x.hostBits \in Int
         /\ Loopback \in Int /\ Mask(x) \in Nat
<1>1. Power[WordBits] \in Nat /\ Loopback \in Int /\ WordBits \in Nat
  BY AddressAssumption, PowerPositive
<1>2. x.address \in Int /\ x.address # AnyAddress /\ x.hostBits \in Int
  BY <1>1 DEF Interface, Address, AnyAddress
<1> QED BY <1>1, <1>2, MaskOrder

(* The server's address is found among the first n + 1 interfaces.         *)
LEMMA PassSameHost ==
  ASSUME NEW table \in Seq(Interface), NEW server \in Int,
         NEW n \in Nat, n + 1 \in 1 .. Len(table), NEW choice,
         RightSoFar(table, server, n, choice), OnSameHost(table, server, n + 1)
  PROVE  RightSoFar(table, server, n + 1, Visit(choice, n + 1, table[n + 1]))
<1> DEFINE x == table[n + 1]
           first == TakeDefault(choice, n + 1, x)
           second == TakeSameHost(first, x)
<1>1. x \in Interface
  OBVIOUS
<1>2. x.address \in Int /\ Loopback \in Int
  BY <1>1, WordsTyped
<1>3. choice \in ChoiceRecord
  BY DEF RightSoFar
<1>4. /\ first \in ChoiceRecord /\ first.server = choice.server
      /\ first.isLocal = choice.isLocal /\ first.isSameHost = choice.isSameHost
      /\ choice.isSameHost /\ n > 0 => first = choice
  <2>1. \/ /\ first = [choice EXCEPT !.client = x.address]
           /\ n + 1 = 1 \/ ~choice.isSameHost
        \/ first = choice
    BY DEF TakeDefault
  <2>2. n > 0 => n + 1 # 1
    OBVIOUS
  <2> HIDE DEF first, x
  <2> QED BY ONLY <1>2, <1>3, <2>1, <2>2 DEF ChoiceRecord
<1>5. second \in ChoiceRecord /\ second.isSameHost /\ second.isLocal /\ second.client = Loopback
  <2>1. CASE OnSameHost(table, server, n)
    <3>1. n > 0 /\ choice.isSameHost /\ choice.isLocal /\ choice.client = Loopback
      BY <2>1 DEF OnSameHost, RightSoFar
    <3>2. first = choice
      BY <1>4, <3>1
    <3> QED BY <1>2, <1>3, <3>1, <3>2 DEF TakeSameHost, ChoiceRecord
  <2>2. CASE ~OnSameHost(table, server, n)
    <3>1. x.address = server /\ choice.server = server
      BY <2>2 DEF OnSameHost, RightSoFar
    <3> HIDE DEF first
    <3> QED BY <1>2, <1>4, <3>1 DEF TakeSameHost, ChoiceRecord
  <2> QED BY <2>1, <2>2
<1> HIDE DEF second
<1>6. TakeLocal(second, x) = second
  BY <1>5 DEF TakeLocal
<1> QED BY <1>5, <1>6 DEF RightSoFar, Visit, second

(* It is not, and the next interface is the better one of those in a       *)
(* network of the server.                                                  *)
LEMMA PassBetter ==
  ASSUME NEW table \in Seq(Interface), NEW server \in Int,
         NEW n \in Nat, n + 1 \in 1 .. Len(table), NEW choice,
         RightSoFar(table, server, n, choice), ~OnSameHost(table, server, n + 1),
         Network(table[n + 1].address, table[n + 1]) = Network(server, table[n + 1]),
         Better(choice, table[n + 1])
  PROVE  RightSoFar(table, server, n + 1, Visit(choice, n + 1, table[n + 1]))
<1> DEFINE x == table[n + 1]
           first == TakeDefault(choice, n + 1, x)
           final == Visit(choice, n + 1, x)
<1>1. x \in Interface /\ x.address \in Int /\ Mask(x) \in Nat
  BY WordsTyped
<1>2. ~OnSameHost(table, server, n) /\ x.address # server
  BY DEF OnSameHost
<1>3. choice \in ChoiceRecord /\ ~choice.isSameHost /\ choice.server = server
  BY <1>2 DEF RightSoFar
<1>4. first = [choice EXCEPT !.client = first.client] /\ first.client \in Int
  BY <1>1, <1>3 DEF TakeDefault, ChoiceRecord
<1>5. TakeSameHost(first, x) = first
  BY <1>2, <1>3, <1>4 DEF TakeSameHost, ChoiceRecord
<1>6. final = [first EXCEPT !.isLocal = TRUE, !.client = x.address,
                            !.longestPrefixMatch = Mask(x)]
  <2> HIDE DEF first
  <2>1. first.longestPrefixMatch = choice.longestPrefixMatch
    BY <1>3, <1>4 DEF ChoiceRecord
  <2>2. ~first.isSameHost /\ first.server = server
    BY <1>3, <1>4 DEF ChoiceRecord
  <2>3. Better(first, x)
    BY <2>1 DEF Better
  <2> QED BY <1>5, <2>2, <2>3 DEF Visit, TakeLocal, first
<1>7. /\ final \in ChoiceRecord /\ ~final.isSameHost /\ final.server = server
      /\ final.isLocal /\ final.client = x.address /\ final.longestPrefixMatch = Mask(x)
  <2> HIDE DEF first, final
  <2> QED BY <1>1, <1>3, <1>4, <1>6 DEF ChoiceRecord
<1>8. choice.longestPrefixMatch \in Nat /\ choice.longestPrefixMatch < Mask(x)
  BY <1>3 DEF ChoiceRecord, Better
<1>9. n + 1 \in SharedAmong(table, server, n + 1)
  <2>1. Mask(x) > 0
    BY <1>1, <1>8
  <2> QED BY <2>1 DEF SharedAmong, SharedNetworks
<1>10. ASSUME NEW j \in SharedAmong(table, server, n + 1)
       PROVE  \/ table[j].hostBits > x.hostBits
              \/ table[j].hostBits = x.hostBits /\ j >= n + 1
  <2>1. CASE j = n + 1
    <3>1. x.hostBits \in Int
      BY <1>1, WordsTyped
    <3> QED BY <2>1, <3>1
  <2>2. CASE j # n + 1
    <3>1. j \in SharedAmong(table, server, n) /\ table[j] \in Interface
      BY <2>2 DEF SharedAmong
    <3>2. choice.isLocal
      BY <1>2, <3>1 DEF RightSoFar
    <3>3. PICK k \in SharedAmong(table, server, n) :
            /\ choice.longestPrefixMatch = Mask(table[k])
            /\ \/ table[j].hostBits > table[k].hostBits
               \/ table[j].hostBits = table[k].hostBits /\ j >= k
      BY <1>2, <3>1, <3>2 DEF RightSoFar, LongestAmong
    <3>4. table[k] \in Interface
      BY DEF SharedAmong
    <3>5. x.hostBits < table[k].hostBits
      <4>1. Mask(table[k]) < Mask(x)
        BY <1>8, <3>3
      <4> QED BY <1>1, <3>4, <4>1, MaskOrder
    <3>6. x.hostBits \in Int /\ table[k].hostBits \in Int /\ table[j].hostBits \in Int
      BY <1>1, <3>1, <3>4, WordsTyped
    <3> QED BY <3>3, <3>5, <3>6
  <2> QED BY <2>1, <2>2
<1>11. LongestAmong(table, server, n + 1, final)
  <2> HIDE DEF final
  <2> QED BY <1>7, <1>9, <1>10 DEF LongestAmong
<1> HIDE DEF final
<1>12. RightSoFar(table, server, n + 1, final)
  BY <1>7, <1>9, <1>11 DEF RightSoFar
<1> QED BY <1>12 DEF final

(* It is not, and the next interface is no better.                         *)
LEMMA PassNoBetter ==
  ASSUME NEW table \in Seq(Interface), NEW server \in Int,
         NEW n \in Nat, n + 1 \in 1 .. Len(table), NEW choice,
         RightSoFar(table, server, n, choice), ~OnSameHost(table, server, n + 1),
         ~ /\ Network(table[n + 1].address, table[n + 1]) = Network(server, table[n + 1])
           /\ Better(choice, table[n + 1])
  PROVE  RightSoFar(table, server, n + 1, Visit(choice, n + 1, table[n + 1]))
<1> DEFINE x == table[n + 1]
           first == TakeDefault(choice, n + 1, x)
           final == Visit(choice, n + 1, x)
           old == SharedAmong(table, server, n)
           new == SharedAmong(table, server, n + 1)
<1>1. x \in Interface /\ x.address \in Int /\ Mask(x) \in Nat /\ Loopback \in Int
  BY WordsTyped
<1>2. ~OnSameHost(table, server, n) /\ x.address # server
  BY DEF OnSameHost
<1>3. choice \in ChoiceRecord /\ ~choice.isSameHost /\ choice.server = server
  BY <1>2 DEF RightSoFar
<1>4. first = [choice EXCEPT !.client = first.client] /\ first.client \in Int
  BY <1>1, <1>3 DEF TakeDefault, ChoiceRecord
<1>5. TakeSameHost(first, x) = first
  BY <1>2, <1>3, <1>4 DEF TakeSameHost, ChoiceRecord
<1>6. final = first
  <2> HIDE DEF first
  <2>1. first.longestPrefixMatch = choice.longestPrefixMatch /\ first.server = server
    BY <1>3, <1>4 DEF ChoiceRecord
  <2>2. Better(first, x) <=> Better(choice, x)
    BY <2>1 DEF Better
  <2> QED BY <1>5, <2>1, <2>2 DEF Visit, TakeLocal, first
<1>7. /\ final \in ChoiceRecord /\ ~final.isSameHost /\ final.server = server
      /\ final.isLocal = choice.isLocal
      /\ final.longestPrefixMatch = choice.longestPrefixMatch
  <2> HIDE DEF first, final
  <2> QED BY <1>3, <1>4, <1>6 DEF ChoiceRecord
<1>8. choice.longestPrefixMatch \in Nat
  BY <1>3 DEF ChoiceRecord
<1>9. old \subseteq new /\ new \subseteq old \cup {n + 1}
  BY DEF SharedAmong
<1>10. CASE choice.isLocal
  <2>1. PICK k \in old :
          /\ choice.client = table[k].address
          /\ choice.longestPrefixMatch = Mask(table[k])
          /\ \A j \in old : \/ table[j].hostBits > table[k].hostBits
                            \/ table[j].hostBits = table[k].hostBits /\ j >= k
    BY <1>2, <1>10 DEF RightSoFar, LongestAmong
  <2>2. k \in 1 .. n /\ table[k] \in Interface
    BY DEF SharedAmong
  <2>3. first = choice
    BY <1>10, <2>2 DEF TakeDefault
  <2>4. ASSUME NEW j \in new
        PROVE  \/ table[j].hostBits > table[k].hostBits
               \/ table[j].hostBits = table[k].hostBits /\ j >= k
    <3>1. CASE j \in old
      BY <2>1, <3>1
    <3>2. CASE j = n + 1
      <4>1. Network(x.address, x) = Network(server, x)
        BY <3>2 DEF SharedAmong, SharedNetworks
      <4>2. ~(Mask(table[k]) < Mask(x))
        BY <2>1, <4>1 DEF Better
      <4>3. ~(x.hostBits < table[k].hostBits)
        <5> HIDE DEF x
        <5> QED BY <1>1, <2>2, <4>2, MaskOrder
      <4>4. x.hostBits \in Int /\ table[k].hostBits \in Int
        BY <1>1, <2>2, WordsTyped
      <4> QED BY <2>2, <3>2, <4>3, <4>4
    <3> QED BY <1>9, <3>1, <3>2
  <2>5. LongestAmong(table, server, n + 1, final)
    <3>1. k \in new
      BY <1>9
    <3>2. final.client = table[k].address /\ final.longestPrefixMatch = Mask(table[k])
      BY <1>6, <2>1, <2>3
    <3> HIDE DEF final
    <3> QED BY <2>4, <3>1, <3>2 DEF LongestAmong
  <2> HIDE DEF final
  <2>6. RightSoFar(table, server, n + 1, final)
    BY <1>7, <1>9, <1>10, <2>1, <2>5 DEF RightSoFar
  <2> QED BY <2>6 DEF final
<1>11. CASE ~choice.isLocal
  <2>1. /\ old = {} /\ choice.longestPrefixMatch = 0
        /\ DefaultAmong(table, n, choice.client)
    BY <1>2, <1>3, <1>11 DEF RightSoFar
  <2>2. n + 1 \notin new
    <3>1. ~(Mask(x) > 0) \/ Network(x.address, x) # Network(server, x)
      BY <1>1, <2>1 DEF Better
    <3> QED BY <3>1 DEF SharedAmong, SharedNetworks
  <2>3. new = {}
    BY <1>9, <2>1, <2>2
  <2>4. DefaultAmong(table, n + 1, first.client)
    <3>1. first.client = IF n = 0 \/ choice.client = Loopback THEN x.address ELSE choice.client
      BY <1>3, <1>11 DEF TakeDefault, ChoiceRecord
    <3>2. CASE n = 0
      BY <1>1, <3>1, <3>2 DEF DefaultAmong
    <3>3. CASE n > 0 /\ choice.client = Loopback
      <4>1. \A k \in 1 .. n : table[k].address = Loopback
        BY <2>1, <3>3 DEF DefaultAmong
      <4> QED BY <1>1, <3>1, <3>3, <4>1 DEF DefaultAmong
    <3>4. CASE n > 0 /\ choice.client # Loopback
      BY <2>1, <3>1, <3>4 DEF DefaultAmong
    <3> QED BY <3>2, <3>3, <3>4
  <2>5. DefaultAmong(table, n + 1, final.client)
    BY <1>6, <2>4
  <2> HIDE DEF final
  <2>6. RightSoFar(table, server, n + 1, final)
    BY <1>7, <1>11, <2>1, <2>3, <2>5 DEF RightSoFar
  <2> QED BY <2>6 DEF final
<1> QED BY <1>3, <1>10, <1>11 DEF ChoiceRecord

LEMMA PassIsRight ==
  ASSUME NEW table \in Seq(Interface), NEW server \in Int
  PROVE  RightSoFar(table, server, Len(table), Pass(table, server)[Len(table)])
<1> DEFINE choice(n) == Pass(table, server)[n]
           Bad == {n \in 0 .. Len(table) : ~RightSoFar(table, server, n, choice(n))}
<1>1. \A n \in 0 .. Len(table) :
        choice(n) = IF n = 0 THEN NoChoice(server) ELSE Visit(choice(n - 1), n, table[n])
  BY PassDef
<1> HIDE DEF choice
<1>2. Bad = {}
  <2> SUFFICES ASSUME Bad # {} PROVE FALSE
    OBVIOUS
  <2>0. Bad \in SUBSET Nat
    OBVIOUS
  <2>1. PICK k \in Bad : \A j \in Bad : k <= j
    BY ONLY <2>0, LeastNat, Bad # {}
  <2>2. k # 0
    <3>1. 0 \in 0 .. Len(table) /\ choice(0) = NoChoice(server)
      BY <1>1
    <3>2. RightSoFar(table, server, 0, NoChoice(server))
      BY DEF RightSoFar, NoChoice, ChoiceRecord, OnSameHost, SharedAmong, DefaultAmong,
             AnyAddress
    <3> QED BY <3>1, <3>2
  <2>3. k \in 1 .. Len(table) /\ k - 1 \in 0 .. Len(table) /\ k - 1 \notin Bad
    BY <2>1, <2>2
  <2>4. RightSoFar(table, server, k - 1, choice(k - 1))
    BY <2>3
  <2> DEFINE n == k - 1
  <2>5. n \in Nat /\ n + 1 = k
    BY <2>3
  <2> HIDE DEF n
  <2>6. RightSoFar(table, server, n, choice(n))
    BY <2>4 DEF n
  <2>7. RightSoFar(table, server, n + 1, Visit(choice(n), n + 1, table[n + 1]))
    BY <2>3, <2>5, <2>6, PassSameHost, PassBetter, PassNoBetter
  <2>8. choice(k) = Visit(choice(n), k, table[k])
    BY <1>1, <2>2, <2>3 DEF n
  <2> QED BY <2>1, <2>5, <2>7, <2>8
<1>3. Len(table) \in 0 .. Len(table)
  OBVIOUS
<1> QED BY <1>2, <1>3 DEF choice

(* GetClientIPAddress of client.c, in a single pass over the interfaces of *)
(* a host, finds the address that the client should use for a server: of   *)
(* the longest network they share, loopback for a server on the same host, *)
(* or a default; for every table, in any order.                            *)
THEOREM AddressChoice ==
  ASSUME NEW table \in Seq(Interface), NEW server \in Int
  PROVE  RightAddress(table, server, GetClientIPAddress(table, server).client)
<1> DEFINE n == Len(table)
           choice == GetClientIPAddress(table, server)
<1>1. RightSoFar(table, server, n, choice)
  BY PassIsRight DEF GetClientIPAddress
<1>2. DOMAIN table = 1 .. n /\ n \in Nat
  OBVIOUS
<1>3. SharedAmong(table, server, n) = SharedNetworks(table, server)
  BY <1>2 DEF SharedAmong, SharedNetworks
<1>4. n = 0 <=> table = << >>
  OBVIOUS
<1> HIDE DEF n, choice
<1>5. CASE OnSameHost(table, server, n)
  <2>1. \E k \in DOMAIN table : table[k].address = server
    BY <1>2, <1>5 DEF OnSameHost
  <2>2. choice.client = Loopback
    BY <1>1, <1>5 DEF RightSoFar
  <2> QED BY <2>1, <2>2 DEF RightAddress, choice
<1>6. CASE ~OnSameHost(table, server, n)
  <2>1. \A k \in DOMAIN table : table[k].address # server
    BY <1>2, <1>6 DEF OnSameHost
  <2>2. CASE choice.isLocal
    <3>1. SharedNetworks(table, server) # {} /\ LongestAmong(table, server, n, choice)
      BY <1>1, <1>3, <1>6, <2>2 DEF RightSoFar
    <3>2. \E k \in DOMAIN table :
            IsLongest(table, server, k) /\ choice.client = table[k].address
      BY <1>3, <3>1 DEF LongestAmong, IsLongest, SharedNetworks
    <3> QED BY <2>1, <3>1, <3>2 DEF RightAddress, choice
  <2>3. CASE ~choice.isLocal
    <3>1. SharedNetworks(table, server) = {} /\ DefaultAmong(table, n, choice.client)
      BY <1>1, <1>3, <1>6, <2>3 DEF RightSoFar
    <3>2. \/ \E k \in DOMAIN table :
               /\ choice.client = table[k].address /\ choice.client # Loopback
               /\ \A j \in 1 .. k - 1 : table[j].address = Loopback
          \/ /\ \A k \in DOMAIN table : table[k].address = Loopback
             /\ choice.client = IF table = << >> THEN AnyAddress ELSE Loopback
      BY <1>2, <1>4, <3>1 DEF DefaultAmong
    <3> QED BY <2>1, <3>1, <3>2 DEF RightAddress, choice
  <2> QED BY <2>2, <2>3
<1> QED BY <1>5, <1>6
=============================================================================
