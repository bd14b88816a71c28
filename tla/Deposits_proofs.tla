-------------------------- MODULE Deposits_proofs --------------------------
(***************************************************************************)
(* Proofs about headers and deposits, for every chain, set of items and    *)
(* retention.                                                              *)
(***************************************************************************)
EXTENDS DepositAccounting, Ledger_proofs

(***************************************************************************)
(* Type correctness.                                                       *)
(***************************************************************************)
HeaderMap(headers) == DOMAIN headers \subseteq Nat /\ headers \in [DOMAIN headers -> Header]

\* A header stored in a map of headers, or taken out, leaves one.
LEMMA WithType ==
    ASSUME NEW headers, HeaderMap(headers), NEW h \in Nat, NEW header \in Header
    PROVE  HeaderMap(With(headers, h, header))
BY DEF HeaderMap, With

LEMMA WithoutType ==
    ASSUME NEW headers, HeaderMap(headers), NEW h
    PROVE  HeaderMap(Without(headers, h))
BY DEF HeaderMap, Without

\* handlers.go:95, the tax: a part of the amount, so that the net amount is no
\* less than zero.
LEMMA GasTaxType ==
    ASSUME NEW amount \in Nat
    PROVE  GasTax(amount) \in Nat /\ GasTax(amount) <= amount
<1>1. TaxBps \in Nat /\ TaxBps <= 10000
  BY DepositsAssumption
<1>2. PICK x \in Nat : x = amount * TaxBps
  BY <1>1
<1>3. x <= amount * 10000
  BY <1>1, <1>2
<1>4. x \div 10000 \in Nat /\ x \div 10000 <= amount
  BY <1>3
<1> QED
  BY <1>2, <1>4 DEF GasTax

\* supply.go: a deposit keeps the totals natural numbers.
LEMMA TrackDepositType ==
    ASSUME supply \in Supplies, NEW a \in Assets, NEW user \in Nat, NEW fee \in Nat
    PROVE  TrackDeposit(a, user, fee) \in Supplies
BY DEF Supplies, SupplyRecord, TrackDeposit

\* The header a verified item is proved against is one that is stored.
LEMMA VerifiedType ==
    ASSUME TypeOK, NEW h, NEW item \in Items,
           VerifyETHDeposit(h, item) \/ VerifyERC20Deposit(h, item)
    PROVE  h \in Nat /\ GetHeader(h).content \in Contents
<1>1. HeaderMap(Headers)
  BY DEF TypeOK, HeaderMap, Headers
<1>2. h \in DOMAIN Headers /\ GetHeader(h) = Headers[h]
  BY DEF VerifyETHDeposit, VerifyERC20Deposit, HasHeader, GetHeader
<1>3. h \in Nat /\ Headers[h] \in Header
  BY <1>1, <1>2 DEF HeaderMap
<1> QED
  BY <1>2, <1>3 DEF Header

\* handlers.go:88-99: a swap is given the amount that is taxed afterwards.  None
\* is asked for with the native asset, or it is not taxed.
NoTaxedSwaps == Eth \notin SwapAssets \/ TaxBps = 0

\* What a mapped deposit does, native or token: it is routed and booked for the
\* net amount, which for a token is the whole.
LEMMA MapRoutes ==
    ASSUME TypeOK, MapOp
    PROVE  \E h \in 1..MaxHeight, item \in Items, net \in Nat :
              /\ VerifyETHDeposit(h, item) \/ VerifyERC20Deposit(h, item)
              /\ net <= item.amount
              /\ item.asset # Eth => net = item.amount
              /\ NoTaxedSwaps => net = item.amount \/ item.asset \notin SwapAssets
              /\ RouteAndBook(h, item, net)
              /\ UNCHANGED <<paused, own, ownLast, verifier, remote, seed, settingVars>>
<1>1. PICK h \in 1..MaxHeight, item \in Items :
         (\E c \in Callers : MapETH(c, h, item)) \/ MapERC20(h, item)
  BY DEF MapOp
<1>2. item.amount \in Nat
  BY DepositsAssumption DEF Item
<1>3. CASE \E c \in Callers : MapETH(c, h, item)
  <2>1. PICK c \in Callers : MapETH(c, h, item)
    BY <1>3
  <2>2. PICK tax \in Nat : tax = GasTax(item.amount) /\ tax <= item.amount
    BY <1>2, GasTaxType
  <2>3. item.asset = Eth
    BY <2>1 DEF MapETH, VerifyETHDeposit
  <2>4. TaxBps = 0 => tax = 0
    BY <1>2, <2>2 DEF GasTax
  <2>5. PICK net \in Nat : net = item.amount - tax /\ net <= item.amount
    BY <1>2, <2>2
  <2>6. NoTaxedSwaps => net = item.amount \/ item.asset \notin SwapAssets
    BY <1>2, <2>3, <2>4, <2>5 DEF NoTaxedSwaps
  <2>7. /\ VerifyETHDeposit(h, item)
        /\ RouteAndBook(h, item, net)
        /\ UNCHANGED <<paused, own, ownLast, verifier, remote, seed, settingVars>>
    BY <2>1, <2>2, <2>5 DEF MapETH
  <2> QED
    BY <2>3, <2>5, <2>6, <2>7
<1>4. CASE MapERC20(h, item)
  <2>1. /\ VerifyERC20Deposit(h, item)
        /\ RouteAndBook(h, item, item.amount)
        /\ UNCHANGED <<paused, own, ownLast, verifier, remote, seed, settingVars>>
    BY <1>4 DEF MapERC20
  <2> QED
    BY <1>2, <2>1
<1> QED
  BY <1>1, <1>3, <1>4

\* While the router is called, the deposit is in two balances.
LEMMA CalledTotal ==
    ASSUME NEW b \in Balances, NEW a \in Assets, NEW gross \in Nat, NEW taken \in 0..gross
    PROVE  LET c == Called(b, a, gross, taken)
           IN  /\ c \in Balances
               /\ \A x \in Assets : Total(c, x) = Total(b, x) + (IF x = a THEN gross ELSE 0)
               /\ taken = 0 => c[<<Self, a>>] >= gross
<1> DEFINE kept == gross - taken
           half == IncBalance(b, Self, a, kept)
           c == IncBalance(half, Router, a, taken)
<1>1. Self \in Accounts /\ Router \in Accounts /\ Self # Router
  BY DepositsAssumption
<1>2. taken \in Nat /\ kept \in Nat /\ kept + taken = gross
  OBVIOUS
<1>3. c = Called(b, a, gross, taken)
  BY DEF Called
<1> HIDE DEF kept
<1>4. /\ half \in Balances
      /\ \A x \in Assets : Total(half, x) = Total(b, x) + (IF x = a THEN kept ELSE 0)
  BY <1>1, <1>2, TotalCredit
<1>5. b[<<Self, a>>] \in Nat /\ half[<<Self, a>>] = b[<<Self, a>>] + kept
  BY <1>1, <1>2 DEF IncBalance, Balances
<1> HIDE DEF half
<1>6. /\ c \in Balances
      /\ \A x \in Assets : Total(c, x) = Total(half, x) + (IF x = a THEN taken ELSE 0)
  BY <1>1, <1>2, <1>4, TotalCredit
<1>7. c[<<Self, a>>] = half[<<Self, a>>]
  BY <1>1, <1>4 DEF IncBalance, Balances
<1> HIDE DEF c
<1>8. \A x \in Assets : Total(b, x) \in Nat /\ Total(half, x) \in Nat
  BY <1>4, TotalType
<1>9. \A x \in Assets : Total(c, x) = Total(b, x) + (IF x = a THEN gross ELSE 0)
  BY <1>2, <1>4, <1>6, <1>8
<1>10. taken = 0 => c[<<Self, a>>] >= gross
  BY <1>2, <1>5, <1>7
<1> QED
  BY <1>3, <1>6, <1>9, <1>10

\* What the reversal leaves is what there was, and all of it exactly if the
\* router took nothing.
LEMMA ReversedTotal ==
    ASSUME NEW b \in Balances, NEW a \in Assets, NEW gross \in Nat, NEW taken \in 0..gross
    PROVE  LET d == Reversed(Called(b, a, gross, taken), a, gross)
           IN  /\ d \in Balances
               /\ \A x \in Assets : Total(d, x) >= Total(b, x)
               /\ taken = 0 => \A x \in Assets : Total(d, x) = Total(b, x)
<1> DEFINE c == Called(b, a, gross, taken)
           d == Reversed(c, a, gross)
<1>1. /\ c \in Balances
      /\ \A x \in Assets : Total(c, x) = Total(b, x) + (IF x = a THEN gross ELSE 0)
      /\ taken = 0 => c[<<Self, a>>] >= gross
  BY CalledTotal
<1> HIDE DEF c
<1>2. Self \in Accounts /\ \A x \in Assets : Total(b, x) \in Nat
  BY DepositsAssumption, TotalType
<1>3. CASE c[<<Self, a>>] >= gross
  <2>1. d = DecBalance(c, Self, a, gross)
    BY <1>3 DEF Reversed
  <2>2. /\ d \in Balances
        /\ \A x \in Assets : Total(d, x) = Total(c, x) - (IF x = a THEN gross ELSE 0)
    BY <1>1, <1>2, <1>3, <2>1, TotalDebit
  <2> HIDE DEF d
  <2>3. \A x \in Assets : Total(d, x) = Total(b, x)
    BY <1>1, <1>2, <2>2
  <2> QED
    BY <1>2, <2>2, <2>3 DEF c, d
<1>4. CASE ~(c[<<Self, a>>] >= gross)
  <2>1. d = c /\ taken # 0
    BY <1>1, <1>4 DEF Reversed
  <2> HIDE DEF d
  <2>2. \A x \in Assets : Total(d, x) >= Total(b, x)
    BY <1>1, <1>2, <2>1
  <2> QED
    BY <1>1, <2>1, <2>2 DEF c, d
<1> QED
  BY <1>3, <1>4

\* However a swap ends, and whatever the router took, the balances of its asset
\* grow by the net amount at least; by no more, if the router is atomic and the
\* deposit untaxed.
LEMMA SwapTotals ==
    ASSUME NEW b \in Balances, allow \in Allowances, NEW a \in Assets,
           NEW gross \in Nat, NEW net \in Nat, net <= gross,
           SwapOutcome(b, a, gross, net)
    PROVE  /\ a \in SwapAssets
           /\ bal' \in Balances
           /\ allow' \in Allowances
           /\ \A x \in Assets : Total(bal', x) >= Total(b, x) + (IF x = a THEN net ELSE 0)
           /\ RouterAtomic /\ net = gross => \A x \in Assets :
                 Total(bal', x) = Total(b, x) + (IF x = a THEN net ELSE 0)
<1>1. a \in SwapAssets /\ Self \in Accounts /\ Router \in Accounts
      /\ \A x \in Assets : Total(b, x) \in Nat
  BY DepositsAssumption, TotalType DEF SwapOutcome
<1>2. allow' \in Allowances
  BY <1>1, SetAllowanceType DEF SwapOutcome
<1>3. ASSUME NEW taken \in 0..gross, bal' = Called(b, a, gross, taken)
      PROVE  /\ bal' \in Balances
             /\ \A x \in Assets : Total(bal', x) = Total(b, x) + (IF x = a THEN gross ELSE 0)
  <2> DEFINE c == Called(b, a, gross, taken)
  <2>1. /\ c \in Balances
        /\ \A x \in Assets : Total(c, x) = Total(b, x) + (IF x = a THEN gross ELSE 0)
    BY CalledTotal
  <2>2. bal' = c
    BY <1>3
  <2> HIDE DEF c
  <2> QED
    BY <2>1, <2>2
<1>4. ASSUME NEW dest \in Accounts, NEW taken \in 0..gross, RouterAtomic => taken = 0,
             bal' = Refunded(b, dest, a, gross, net, taken)
      PROVE  /\ bal' \in Balances
             /\ \A x \in Assets : Total(bal', x) >= Total(b, x) + (IF x = a THEN net ELSE 0)
             /\ RouterAtomic => \A x \in Assets :
                   Total(bal', x) = Total(b, x) + (IF x = a THEN net ELSE 0)
  <2> DEFINE d == Reversed(Called(b, a, gross, taken), a, gross)
  <2>1. /\ d \in Balances
        /\ \A x \in Assets : Total(d, x) >= Total(b, x)
        /\ taken = 0 => \A x \in Assets : Total(d, x) = Total(b, x)
    BY ReversedTotal
  <2>2. bal' = IncBalance(d, dest, a, net)
    BY <1>4 DEF Refunded
  <2> HIDE DEF d
  <2>3. /\ bal' \in Balances
        /\ \A x \in Assets : Total(bal', x) = Total(d, x) + (IF x = a THEN net ELSE 0)
    BY <2>1, <2>2, TotalCredit
  <2>4. \A x \in Assets : Total(d, x) \in Nat
    BY <2>1, TotalType
  <2>5. \A x \in Assets : Total(bal', x) >= Total(b, x) + (IF x = a THEN net ELSE 0)
    BY <1>1, <2>1, <2>3, <2>4
  <2>6. RouterAtomic => \A x \in Assets :
           Total(bal', x) = Total(b, x) + (IF x = a THEN net ELSE 0)
    BY <1>4, <2>1, <2>3
  <2> QED
    BY <2>3, <2>5, <2>6
<1>5. \/ \E taken \in 0..gross : bal' = Called(b, a, gross, taken)
      \/ \E dest \in Accounts, taken \in 0..gross :
            /\ RouterAtomic => taken = 0
            /\ bal' = Refunded(b, dest, a, gross, net, taken)
  BY DEF SwapOutcome
<1>6. CASE \E taken \in 0..gross : bal' = Called(b, a, gross, taken)
  <2>1. /\ bal' \in Balances
        /\ \A x \in Assets : Total(bal', x) = Total(b, x) + (IF x = a THEN gross ELSE 0)
    BY <1>3, <1>6
  <2> QED
    BY <1>1, <1>2, <2>1
<1>7. CASE \E dest \in Accounts, taken \in 0..gross :
              /\ RouterAtomic => taken = 0
              /\ bal' = Refunded(b, dest, a, gross, net, taken)
  BY <1>1, <1>2, <1>4, <1>7
<1> QED
  BY <1>5, <1>6, <1>7

\* Routing and booking, for each time the deposit is mapped: the balances grow
\* by what is booked for the user at least; by exactly that, if the router is
\* atomic and no taxed deposit is swapped.
LEMMA RouteTotals ==
    ASSUME bal \in Balances, allow \in Allowances, NEW h, NEW item \in Items,
           NEW net \in Nat, net <= item.amount, RouteAndBook(h, item, net)
    PROVE  \E times \in {1, 2} :
              /\ RouterAtomic => times = 1
              /\ Book(h, item, net, times)
              /\ bal' \in Balances
              /\ allow' \in Allowances
              /\ \A x \in Assets :
                    Total(bal', x) >= Total(bal, x) + (IF x = item.asset THEN times * net ELSE 0)
              /\ RouterAtomic /\ (net = item.amount \/ item.asset \notin SwapAssets) =>
                    \A x \in Assets :
                       Total(bal', x) = Total(bal, x) + (IF x = item.asset THEN net ELSE 0)
<1> DEFINE a == item.asset
           gross == item.amount
<1>1. a \in Assets /\ gross \in Nat
  BY DepositsAssumption DEF Item
<1>2. \A x \in Assets : Total(bal, x) \in Nat
  BY TotalType
<1>3. ASSUME NEW dest \in Accounts
      PROVE  /\ IncBalance(bal, dest, a, net) \in Balances
             /\ \A x \in Assets : Total(IncBalance(bal, dest, a, net), x)
                                     = Total(bal, x) + (IF x = a THEN net ELSE 0)
  BY <1>1, TotalCredit
<1>4. 1 * net = net /\ 2 * net = net + net
  OBVIOUS
<1>5. CASE (\E dest \in Accounts : Routed(dest, a, net)) /\ Book(h, item, net, 1)
  <2>1. PICK dest \in Accounts : Routed(dest, a, net)
    BY <1>5
  <2>2. /\ bal' \in Balances /\ allow' \in Allowances
        /\ \A x \in Assets : Total(bal', x) = Total(bal, x) + (IF x = a THEN net ELSE 0)
    BY <1>3, <2>1 DEF Routed
  <2>3. \A x \in Assets : Total(bal', x) >= Total(bal, x) + (IF x = a THEN 1 * net ELSE 0)
    BY <1>2, <1>4, <2>2
  <2> QED
    BY <1>5, <2>2, <2>3
<1>6. CASE SwapOutcome(bal, a, gross, net) /\ Book(h, item, net, 1)
  <2>1. /\ a \in SwapAssets
        /\ bal' \in Balances
        /\ allow' \in Allowances
        /\ \A x \in Assets : Total(bal', x) >= Total(bal, x) + (IF x = a THEN net ELSE 0)
        /\ RouterAtomic /\ net = gross => \A x \in Assets :
              Total(bal', x) = Total(bal, x) + (IF x = a THEN net ELSE 0)
    BY <1>1, <1>6, SwapTotals
  <2>2. \A x \in Assets : Total(bal', x) >= Total(bal, x) + (IF x = a THEN 1 * net ELSE 0)
    BY <1>4, <2>1
  <2> QED
    BY <1>6, <2>1, <2>2
<1>7. CASE RouteAndBookTwice(h, item, net)
  <2>1. PICK dest \in Accounts : SwapOutcome(IncBalance(bal, dest, a, net), a, gross, net)
    BY <1>7 DEF RouteAndBookTwice
  <2> DEFINE b == IncBalance(bal, dest, a, net)
  <2>2. /\ b \in Balances
        /\ \A x \in Assets : Total(b, x) = Total(bal, x) + (IF x = a THEN net ELSE 0)
    BY <1>3
  <2> HIDE DEF b
  <2>3. /\ bal' \in Balances
        /\ allow' \in Allowances
        /\ \A x \in Assets : Total(bal', x) >= Total(b, x) + (IF x = a THEN net ELSE 0)
    BY <1>1, <2>1, <2>2, SwapTotals DEF b
  <2>4. \A x \in Assets : Total(bal', x) \in Nat
    BY <2>3, TotalType
  <2>5. \A x \in Assets : Total(bal', x) >= Total(bal, x) + (IF x = a THEN 2 * net ELSE 0)
    BY <1>2, <1>4, <2>2, <2>3, <2>4
  <2>6. ~RouterAtomic /\ Book(h, item, net, 2)
    BY <1>7 DEF RouteAndBookTwice
  <2> QED
    BY <2>3, <2>5, <2>6
<1> QED
  BY <1>5, <1>6, <1>7 DEF RouteAndBook

\* Routing a verified item keeps every type, for any net amount up to its own.
LEMMA RouteType ==
    ASSUME TypeOK, NEW h, NEW item \in Items, NEW net \in Nat, net <= item.amount,
           VerifyETHDeposit(h, item) \/ VerifyERC20Deposit(h, item),
           RouteAndBook(h, item, net)
    PROVE  /\ bal' \in Balances
           /\ allow' \in Allowances
           /\ supply' \in Supplies
           /\ reserve' \in Nat
           /\ observed' \subseteq [height : Nat, hash : Nat, index : Nat]
           /\ DOMAIN credits' \subseteq CreditRecord
           /\ credits' \in [DOMAIN credits' -> Nat]
<1> DEFINE rec == [height |-> h, content |-> GetHeader(h).content, item |-> item]
<1>1. item.asset \in Assets /\ item.amount \in Nat /\ item.hash \in Nat /\ item.index \in Nat
  BY DepositsAssumption DEF Item
<1>2. bal \in Balances /\ allow \in Allowances /\ supply \in Supplies /\ reserve \in Nat
  BY DEF TypeOK, LedgerTypeOK, Balances, Allowances, Supplies
<1>3. h \in Nat /\ GetHeader(h).content \in Contents
  BY VerifiedType
<1>4. PICK times \in {1, 2} :
         Book(h, item, net, times) /\ bal' \in Balances /\ allow' \in Allowances
  BY <1>2, RouteTotals
<1>5. PICK tax \in Nat : tax = item.amount - net
  BY <1>1
<1>6. times * tax \in Nat /\ times * net \in Nat
  BY <1>4
<1>7. supply' \in Supplies /\ reserve' \in Nat
  <2>1. /\ supply' = TrackDeposit(item.asset, times * net, times * tax)
        /\ reserve' = reserve + times * tax
    BY <1>4, <1>5 DEF Book, addGasReserve
  <2> DEFINE user == times * net
             fee == times * tax
  <2>2. user \in Nat /\ fee \in Nat /\ supply' = TrackDeposit(item.asset, user, fee)
        /\ reserve' = reserve + fee
    BY <1>6, <2>1
  <2> HIDE DEF user, fee
  <2> QED
    BY <1>1, <1>2, <2>2, TrackDepositType
<1>8. observed' \subseteq [height : Nat, hash : Nat, index : Nat]
  BY <1>1, <1>3, <1>4 DEF Book, MarkObserved, Slot, TypeOK
<1>9. rec \in CreditRecord
  BY <1>3 DEF CreditRecord
<1>10. DOMAIN credits' \subseteq CreditRecord /\ credits' \in [DOMAIN credits' -> Nat]
  <2>1. DOMAIN credits \subseteq CreditRecord /\ credits \in [DOMAIN credits -> Nat]
    BY DEF TypeOK
  <2>2. credits' = Credited(h, item, times)
    BY <1>4 DEF Book
  <2>3. DOMAIN credits' = DOMAIN credits \cup {rec}
    BY <2>2 DEF Credited
  <2>4. PICK old \in Nat :
            credits' = [k \in DOMAIN credits \cup {rec} |-> IF k = rec THEN old + times ELSE credits[k]]
    BY <2>1, <2>2 DEF Credited
  <2>5. old + times \in Nat
    BY <1>4
  <2> HIDE DEF rec
  <2> QED
    BY <1>9, <2>1, <2>3, <2>4, <2>5
<1> QED
  BY <1>4, <1>7, <1>8, <1>10

\* A deposit keeps every type.
LEMMA MapType == ASSUME TypeOK, MapOp PROVE TypeOK'
<1>1. PICK h \in 1..MaxHeight, item \in Items, net \in Nat :
          /\ VerifyETHDeposit(h, item) \/ VerifyERC20Deposit(h, item)
          /\ net <= item.amount
          /\ RouteAndBook(h, item, net)
          /\ UNCHANGED <<paused, own, ownLast, verifier, remote, seed, settingVars>>
  BY MapRoutes
<1>2. /\ bal' \in Balances /\ allow' \in Allowances /\ supply' \in Supplies /\ reserve' \in Nat
      /\ observed' \subseteq [height : Nat, hash : Nat, index : Nat]
      /\ DOMAIN credits' \subseteq CreditRecord
      /\ credits' \in [DOMAIN credits' -> Nat]
  BY <1>1, RouteType
<1> QED
  BY <1>1, <1>2 DEF TypeOK, LedgerTypeOK, Balances, Allowances, Supplies, settingVars

\* The header feed keeps every type.
LEMMA HeaderType == ASSUME TypeOK, HeaderOp PROVE TypeOK'
<1>1. PICK h \in 1..MaxHeight, chain \in Chains :
        \E content \in BlocksAt[h], parent \in Contents :
            \/ h = GetLastHeight + 1 /\ \E c \in Callers : AddBlocks(c, content, chain, parent)
            \/ SeedBlock(h, content, chain)
            \/ ReplaceBlock(h, content, chain, parent)
            \/ \E v \in Verifiers : VerifierStores(v, h, content, chain)
  BY DEF HeaderOp
<1>2. PICK content \in BlocksAt[h], parent \in Contents :
            \/ h = GetLastHeight + 1 /\ \E c \in Callers : AddBlocks(c, content, chain, parent)
            \/ SeedBlock(h, content, chain)
            \/ ReplaceBlock(h, content, chain, parent)
            \/ \E v \in Verifiers : VerifierStores(v, h, content, chain)
  BY <1>1
<1> DEFINE fed == [content |-> content, chain |-> chain, parent |-> parent]
           seeded == [content |-> content, chain |-> chain, parent |-> NoParent]
<1>3. h \in Nat /\ content \in Contents
  BY DepositsAssumption
<1>4. fed \in Header /\ seeded \in Header
  BY <1>3 DEF Header
<1>5. HeaderMap(own) /\ ownLast \in Nat
  BY DEF TypeOK, HeaderMap
<1>6. UNCHANGED <<ledgerVars, settingVars, credits>>
  BY DEF HeaderOp
<1>7. ASSUME HeaderMap(own'), ownLast' \in Nat, seed' \in Nat, observed' \subseteq observed,
             UNCHANGED <<verifier, remote>>
      PROVE  TypeOK'
  BY <1>6, <1>7 DEF TypeOK, LedgerTypeOK, HeaderMap, ledgerVars, settingVars
<1> HIDE DEF fed, seeded
<1>8. ASSUME NEW c \in Callers, h = GetLastHeight + 1, AddBlocks(c, content, chain, parent)
      PROVE  TypeOK'
  <2>1. /\ own' = StoreAndPrune(h, fed)
        /\ ownLast' = h
        /\ UNCHANGED <<verifier, remote, observed, seed>>
    BY <1>8 DEF AddBlocks, fed
  <2>2. HeaderMap(With(own, h, fed))
    BY <1>3, <1>4, <1>5, WithType
  <2>3. HeaderMap(StoreAndPrune(h, fed))
    BY <2>2, WithoutType DEF StoreAndPrune
  <2>4. HeaderMap(own')
    BY <2>1, <2>3 DEF HeaderMap
  <2> QED
    BY <1>3, <1>7, <2>1, <2>4 DEF TypeOK
<1>9. ASSUME SeedBlock(h, content, chain)
      PROVE  TypeOK'
  <2>1. /\ own' = With(own, h, seeded) /\ ownLast' = h /\ seed' = h
        /\ UNCHANGED <<verifier, remote, observed>>
    BY <1>9 DEF SeedBlock, seeded
  <2>2. HeaderMap(With(own, h, seeded))
    BY <1>3, <1>4, <1>5, WithType
  <2>3. HeaderMap(own')
    BY <2>1, <2>2 DEF HeaderMap
  <2> QED
    BY <1>3, <1>7, <2>1, <2>3
<1>10. ASSUME ReplaceBlock(h, content, chain, parent)
       PROVE  TypeOK'
  <2>1. /\ own' = With(own, h, fed) /\ observed' \subseteq observed
        /\ UNCHANGED <<ownLast, verifier, remote, seed>>
    BY <1>10 DEF ReplaceBlock, ForgetObserved, fed
  <2>2. HeaderMap(With(own, h, fed))
    BY <1>3, <1>4, <1>5, WithType
  <2>3. HeaderMap(own')
    BY <2>1, <2>2 DEF HeaderMap
  <2> QED
    BY <1>7, <2>1, <2>3 DEF TypeOK
<1>11. ASSUME NEW v \in Verifiers, VerifierStores(v, h, content, chain)
       PROVE  TypeOK'
  <2> DEFINE new == With(remote[v].headers, h, seeded)
  <2>1. /\ remote' = [remote EXCEPT ![v] = [last |-> h, headers |-> new]]
        /\ UNCHANGED <<own, ownLast, verifier, observed, seed>>
    BY <1>11 DEF VerifierStores, seeded
  <2>2. HeaderMap(remote[v].headers)
    BY DEF TypeOK, HeaderMap
  <2>3. HeaderMap(new)
    BY <1>3, <1>4, <2>2, WithType
  <2> HIDE DEF new
  <2>4. /\ DOMAIN remote' = Verifiers
        /\ remote'[v] = [last |-> h, headers |-> new]
        /\ \A w \in Verifiers : w # v => remote'[w] = remote[w]
    BY <2>1 DEF TypeOK
  <2>5. \A w \in Verifiers : /\ remote'[w].last \in Nat
                             /\ DOMAIN remote'[w].headers \subseteq Nat
                             /\ remote'[w].headers \in [DOMAIN remote'[w].headers -> Header]
    <3>1. /\ remote'[v].last = h /\ remote'[v].headers = new
      BY <2>4
    <3> QED
      BY <1>3, <2>3, <2>4, <3>1 DEF TypeOK, HeaderMap
  <2> QED
    BY <1>6, <2>1, <2>4, <2>5 DEF TypeOK, LedgerTypeOK, ledgerVars, settingVars
<1> QED
  BY <1>2, <1>8, <1>9, <1>10, <1>11

\* Every step keeps every type.
LEMMA TypeStep == TypeOK /\ [Next]_vars => TypeOK'
<1> SUFFICES ASSUME TypeOK, [Next]_vars PROVE TypeOK'
  OBVIOUS
<1>1. CASE SetVerifier
  BY <1>1 DEF SetVerifier, SetVerifierContract, TypeOK, LedgerTypeOK, ledgerVars, settingVars
<1>2. CASE Configure
  <2>1. UNCHANGED <<ledgerVars, headerVars, credits>>
    BY <1>2 DEF Configure, SetVault, RegisterRelayer, DeregisterRelayer, RegisterToken,
                RegisterRouter
  <2>2. /\ vault' \in Addresses
        /\ relayers' \subseteq Relayers
        /\ registered' \subseteq Tokens
        /\ router' \in {Router, NoRouter}
    BY <1>2, DepositsAssumption
       DEF TypeOK, Configure, SetVault, RegisterRelayer, DeregisterRelayer, RegisterToken,
           RegisterRouter
  <2> QED
    BY <2>1, <2>2 DEF TypeOK, LedgerTypeOK, ledgerVars, headerVars
<1>3. CASE ClearTestnetState
  BY <1>3 DEF ClearTestnetState, TypeOK, LedgerTypeOK, ledgerVars, settingVars
<1>4. CASE LedgerOp
  <2>1. LedgerTypeOK'
    <3>1. CASE UserOp
      BY <3>1, UserOpType DEF TypeOK
    <3>2. CASE Pause \/ Unpause
      BY <3>2 DEF Pause, Unpause, TypeOK, LedgerTypeOK
    <3> QED
      BY <1>4, <3>1, <3>2 DEF LedgerOp
  <2> QED
    BY <1>4, <2>1 DEF LedgerOp, TypeOK, headerVars, settingVars
<1>5. CASE UNCHANGED vars
  BY <1>5 DEF vars, TypeOK, LedgerTypeOK, ledgerVars, headerVars, settingVars
<1> QED
  BY <1>1, <1>2, <1>3, <1>4, <1>5, MapType, HeaderType DEF Next

\* In every reachable state every variable has its type: no deposit is taxed
\* more than it brings, and none leaves a balance or a total below zero.
THEOREM TypeCorrect == Spec => []TypeOK
<1>1. Init => TypeOK
  <2> SUFFICES ASSUME Init PROVE TypeOK
    OBVIOUS
  <2>1. LedgerTypeOK
    BY LedgerAssumption DEF Init, LedgerInit, LedgerTypeOK
  <2>2. DOMAIN << >> = {} /\ << >> \in [{} -> Header] /\ << >> \in [{} -> Nat]
    OBVIOUS
  <2>3. /\ own = << >> /\ ownLast = 0 /\ verifier = NoVerifier /\ observed = {} /\ seed = 0
        /\ DOMAIN remote = Verifiers
        /\ \A v \in Verifiers : remote[v].last = 0 /\ remote[v].headers = << >>
    BY DEF Init, HeadersInit
  <2>4. /\ vault \in Addresses /\ relayers = {} /\ registered = {}
        /\ router = NoRouter /\ credits = << >>
    BY DepositsAssumption DEF Init
  <2>5. DOMAIN own \subseteq Nat /\ own \in [DOMAIN own -> Header]
    BY <2>2, <2>3, Zenon
  <2>6. DOMAIN credits \subseteq CreditRecord /\ credits \in [DOMAIN credits -> Nat]
    BY <2>2, <2>4, Zenon
  <2>7. \A v \in Verifiers :
          /\ remote[v].last \in Nat
          /\ DOMAIN remote[v].headers \subseteq Nat
          /\ remote[v].headers \in [DOMAIN remote[v].headers -> Header]
    <3> SUFFICES ASSUME NEW v \in Verifiers
                 PROVE  /\ remote[v].last \in Nat
                        /\ DOMAIN remote[v].headers \subseteq Nat
                        /\ remote[v].headers \in [DOMAIN remote[v].headers -> Header]
      OBVIOUS
    <3>1. remote[v].last = 0 /\ remote[v].headers = << >>
      BY <2>3
    <3>2. remote[v].last \in Nat
      BY <3>1
    <3> QED
      BY <2>2, <3>1, <3>2, Zenon
  <2> QED
    BY <2>1, <2>3, <2>4, <2>5, <2>6, <2>7 DEF TypeOK
<1> QED
  BY <1>1, TypeStep, PTL DEF Spec

(***************************************************************************)
(* The header store.                                                       *)
(***************************************************************************)
\* HeaderWindow says nothing of the seed once headers are pruned; the proof
\* needs it to lie below the newest header.
HeaderInv ==
    verifier = NoVerifier =>
        /\ HeaderWindow
        /\ ownLast \in Nat
        /\ ownLast > 0 => seed \in 1..ownLast

\* Every step of the contract is one of these, as far as headers go.
HeaderStep ==
    \/ \E h \in 1..MaxHeight, chain \in Chains :
          \E content \in BlocksAt[h], parent \in Contents :
             \/ h = GetLastHeight + 1 /\ \E c \in Callers : AddBlocks(c, content, chain, parent)
             \/ SeedBlock(h, content, chain)
             \/ "replaceBlock" \in Ops /\ ReplaceBlock(h, content, chain, parent)
             \/ \E v \in Verifiers : VerifierStores(v, h, content, chain)
    \/ \E v \in Verifiers : SetVerifierContract(v)
    \/ UNCHANGED <<own, ownLast, verifier, remote, seed>>

\* Every step of the contract is one of these as far as headers go.
LEMMA HeaderSteps == [Next]_vars => HeaderStep
<1> SUFFICES ASSUME [Next]_vars PROVE HeaderStep
  OBVIOUS
<1>1. CASE MapOp
  BY <1>1 DEF MapOp, MapETH, MapERC20, HeaderStep
<1>2. CASE HeaderOp
  BY <1>2 DEF HeaderOp, HeaderStep, Admin
<1>3. CASE SetVerifier
  BY <1>3 DEF SetVerifier, HeaderStep
<1>4. CASE Configure
  BY <1>4 DEF Configure, SetVault, RegisterRelayer, DeregisterRelayer, RegisterToken,
              RegisterRouter, headerVars, HeaderStep
<1>5. CASE ClearTestnetState
  BY <1>5 DEF ClearTestnetState, HeaderStep
<1>6. CASE LedgerOp
  BY <1>6 DEF LedgerOp, headerVars, HeaderStep
<1>7. CASE UNCHANGED vars
  BY <1>7 DEF vars, headerVars, HeaderStep
<1> QED
  BY <1>1, <1>2, <1>3, <1>4, <1>5, <1>6, <1>7 DEF Next

\* Storing a header and pruning adds its height and drops one.
LEMMA StoreAndPruneDomain ==
    ASSUME NEW h, NEW header
    PROVE  /\ h > Retention =>
                 DOMAIN StoreAndPrune(h, header) = (DOMAIN own \cup {h}) \ {h - Retention}
           /\ ~(h > Retention) => DOMAIN StoreAndPrune(h, header) = DOMAIN own \cup {h}
<1>1. DOMAIN With(own, h, header) = DOMAIN own \cup {h}
  BY DEF With
<1>2. DOMAIN Without(With(own, h, header), h - Retention)
        = DOMAIN With(own, h, header) \ {h - Retention}
  BY DEF Without
<1> QED
  BY <1>1, <1>2 DEF StoreAndPrune

\* Every step keeps the window.
LEMMA HeaderInvStep == HeaderInv /\ [Next]_vars => HeaderInv'
<1> SUFFICES ASSUME HeaderInv, HeaderStep, verifier' = NoVerifier
             PROVE  /\ HeaderWindow'
                    /\ ownLast' \in Nat
                    /\ ownLast' > 0 => seed' \in 1..ownLast'
  BY HeaderSteps DEF HeaderInv
<1>1. verifier = NoVerifier
  <2>1. \A v \in Verifiers : ~SetVerifierContract(v)
    BY HeadersAssumption DEF SetVerifierContract
  <2>2. \A c, h, content, chain, parent, v :
           \/ AddBlocks(c, content, chain, parent)
           \/ SeedBlock(h, content, chain)
           \/ ReplaceBlock(h, content, chain, parent)
           \/ VerifierStores(v, h, content, chain)
           => UNCHANGED verifier
    BY DEF AddBlocks, SeedBlock, ReplaceBlock, VerifierStores
  <2> QED
    BY <2>1, <2>2 DEF HeaderStep
<1>2. /\ DOMAIN own = IF ownLast = 0 THEN {} ELSE {h \in seed..ownLast : h + Retention > ownLast}
      /\ ownLast \in Nat
      /\ ownLast > 0 => seed \in 1..ownLast
      /\ GetLastHeight = ownLast
  BY <1>1 DEF HeaderInv, HeaderWindow, GetLastHeight
<1>3. ASSUME NEW content, NEW chain, NEW parent, NEW c, AddBlocks(c, content, chain, parent)
      PROVE  /\ HeaderWindow'
             /\ ownLast' \in Nat
             /\ ownLast' > 0 => seed' \in 1..ownLast'
  <2>1. /\ ownLast > 0 /\ seed \in 1..ownLast
        /\ ownLast' = ownLast + 1 /\ seed' = seed
        /\ \E header : own' = StoreAndPrune(ownLast + 1, header)
    BY <1>2, <1>3 DEF AddBlocks
  <2>2. DOMAIN own' = {h \in seed..(ownLast + 1) : h + Retention > ownLast + 1}
    <3>1. DOMAIN own = {h \in seed..ownLast : h + Retention > ownLast}
      BY <1>2, <2>1
    <3>2. PICK header : own' = StoreAndPrune(ownLast + 1, header)
      BY <2>1
    <3>3. PICK h \in Nat : h = ownLast + 1
      BY <1>2
    <3>4. /\ h > Retention => DOMAIN own' = (DOMAIN own \cup {h}) \ {h - Retention}
          /\ ~(h > Retention) => DOMAIN own' = DOMAIN own \cup {h}
      BY <3>2, <3>3, StoreAndPruneDomain
    <3>5. Retention \in Nat \ {0} /\ ownLast \in Nat /\ seed \in 1..ownLast
      BY <1>2, <2>1, HeadersAssumption
    <3>6. /\ h > Retention => (DOMAIN own \cup {h}) \ {h - Retention}
                                 = {k \in seed..h : k + Retention > h}
          /\ ~(h > Retention) => DOMAIN own \cup {h} = {k \in seed..h : k + Retention > h}
      BY <3>1, <3>3, <3>5
    <3> QED
      BY <3>3, <3>4, <3>6
  <2> QED
    BY <1>2, <2>1, <2>2 DEF HeaderWindow
<1>4. ASSUME NEW h \in 1..MaxHeight, NEW content, NEW chain, SeedBlock(h, content, chain)
      PROVE  /\ HeaderWindow'
             /\ ownLast' \in Nat
             /\ ownLast' > 0 => seed' \in 1..ownLast'
  <2>1. ownLast' = h /\ seed' = h /\ ownLast = 0 /\ h \in Nat \ {0}
    BY <1>2, <1>4 DEF SeedBlock
  <2>2. DOMAIN own' = {h}
    BY <1>2, <1>4, <2>1 DEF SeedBlock, With
  <2>3. {h} = {k \in h..h : k + Retention > h}
    BY <2>1, HeadersAssumption
  <2> QED
    BY <2>1, <2>2, <2>3 DEF HeaderWindow
<1>5. ASSUME NEW h, NEW content, NEW chain, NEW parent, ReplaceBlock(h, content, chain, parent)
      PROVE  DOMAIN own' = DOMAIN own /\ UNCHANGED <<ownLast, seed>>
  BY <1>1, <1>5 DEF ReplaceBlock, With, HasHeader, Headers
<1>6. ASSUME NEW v \in Verifiers, NEW h, NEW content, NEW chain,
             VerifierStores(v, h, content, chain)
      PROVE  UNCHANGED <<own, ownLast, seed>>
  BY <1>6 DEF VerifierStores
<1>7. ASSUME NEW v \in Verifiers, SetVerifierContract(v)
      PROVE  FALSE
  BY <1>7, HeadersAssumption DEF SetVerifierContract
<1>8. ASSUME DOMAIN own' = DOMAIN own, UNCHANGED <<ownLast, seed>>
      PROVE  /\ HeaderWindow'
             /\ ownLast' \in Nat
             /\ ownLast' > 0 => seed' \in 1..ownLast'
  BY <1>2, <1>8 DEF HeaderWindow
<1> QED
  BY <1>3, <1>4, <1>5, <1>6, <1>7, <1>8 DEF HeaderStep

\* No header is missing from the window of a contract that reads its own.
THEOREM WindowAlways == Spec => []HeaderWindow
<1>1. Init => HeaderInv
  BY DEF Init, HeadersInit, HeaderInv, HeaderWindow
<1>2. HeaderInv => HeaderWindow
  BY DEF HeaderInv, HeaderWindow
<1> QED
  BY <1>1, <1>2, HeaderInvStep, PTL DEF Spec

\* A header stored leaves the others that stay as they are.
LEMMA StoreAndPruneValues ==
    ASSUME NEW h, NEW header
    PROVE  \A k \in DOMAIN StoreAndPrune(h, header) :
              StoreAndPrune(h, header)[k] = IF k = h THEN header ELSE own[k]
<1>1. \A k \in DOMAIN With(own, h, header) :
         With(own, h, header)[k] = IF k = h THEN header ELSE own[k]
  BY DEF With
<1>2. DOMAIN Without(With(own, h, header), h - Retention)
        = DOMAIN With(own, h, header) \ {h - Retention}
  BY DEF Without
<1>3. \A k \in DOMAIN Without(With(own, h, header), h - Retention) :
         Without(With(own, h, header), h - Retention)[k] = With(own, h, header)[k]
  BY DEF Without
<1> QED
  BY <1>1, <1>2, <1>3 DEF StoreAndPrune

\* A feed that reads its own headers extends the newest one by its child.
LEMMA OwnTip ==
    ASSUME HeaderInv, verifier = NoVerifier, NEW content, NEW chain, NEW parent, NEW c,
           AddBlocks(c, content, chain, parent)
    PROVE  LET header == [content |-> content, chain |-> chain, parent |-> parent]
           IN  /\ ownLast \in Nat /\ ownLast > 0
               /\ DOMAIN own \subseteq 1..ownLast
               /\ parent = own[ownLast].content
               /\ own' = StoreAndPrune(ownLast + 1, header)
<1>1. /\ ownLast \in Nat
      /\ ownLast > 0 => seed \in 1..ownLast
      /\ DOMAIN own = IF ownLast = 0 THEN {} ELSE {h \in seed..ownLast : h + Retention > ownLast}
  BY DEF HeaderInv, HeaderWindow
<1>2. GetLastHeight = ownLast /\ Headers = own
  BY DEF GetLastHeight, Headers
<1>3. /\ ownLast > 0
      /\ parent = own[ownLast].content
      /\ own' = StoreAndPrune(ownLast + 1,
                              [content |-> content, chain |-> chain, parent |-> parent])
  BY <1>2 DEF AddBlocks, ChainsTo, GetHeader
<1>4. DOMAIN own \subseteq 1..ownLast
  BY <1>1, <1>3
<1> QED
  BY <1>1, <1>3, <1>4

\* A seed is the only header.
LEMMA SeedAlone ==
    ASSUME HeaderInv, verifier = NoVerifier, NEW h, NEW content, NEW chain,
           SeedBlock(h, content, chain)
    PROVE  DOMAIN own = {} /\ DOMAIN own' = {h}
<1>1. DOMAIN own = {}
  BY DEF HeaderInv, HeaderWindow, SeedBlock, GetLastHeight
<1> QED
  BY <1>1 DEF SeedBlock, With

\* No verifier is configured unless one was not before.
LEMMA VerifierStays == HeaderStep /\ verifier' = NoVerifier => verifier = NoVerifier
<1>1. \A v \in Verifiers : SetVerifierContract(v) => verifier' # NoVerifier
  BY HeadersAssumption DEF SetVerifierContract
<1>2. \A c, h, content, chain, parent, v :
         \/ AddBlocks(c, content, chain, parent)
         \/ SeedBlock(h, content, chain)
         \/ ReplaceBlock(h, content, chain, parent)
         \/ VerifierStores(v, h, content, chain)
         => UNCHANGED verifier
  BY DEF AddBlocks, SeedBlock, ReplaceBlock, VerifierStores
<1> QED
  BY <1>1, <1>2 DEF HeaderStep

\* Where no header is rewritten, a step keeps the chain linked.
LEMMA LinkedStep ==
    ASSUME "replaceBlock" \notin Ops, HeaderInv, ChainLinked, [Next]_vars
    PROVE  ChainLinked'
<1> SUFFICES ASSUME verifier' = NoVerifier
             PROVE  \A h \in DOMAIN own' :
                       h + 1 \in DOMAIN own' => own'[h + 1].parent = own'[h].content
  BY DEF ChainLinked
<1>1. HeaderStep /\ verifier = NoVerifier
  BY HeaderSteps, VerifierStays
<1>2. \A h \in DOMAIN own : h + 1 \in DOMAIN own => own[h + 1].parent = own[h].content
  BY <1>1 DEF ChainLinked
<1>3. ASSUME NEW content, NEW chain, NEW parent, NEW c, AddBlocks(c, content, chain, parent),
             NEW h \in DOMAIN own', h + 1 \in DOMAIN own'
      PROVE  own'[h + 1].parent = own'[h].content
  <2> DEFINE header == [content |-> content, chain |-> chain, parent |-> parent]
  <2>1. /\ ownLast \in Nat /\ ownLast > 0
        /\ DOMAIN own \subseteq 1..ownLast
        /\ parent = own[ownLast].content
        /\ own' = StoreAndPrune(ownLast + 1, header)
    BY <1>1, <1>3, OwnTip
  <2>3. header.parent = parent
    OBVIOUS
  <2> HIDE DEF header
  <2>2. /\ DOMAIN own' \subseteq DOMAIN own \cup {ownLast + 1}
        /\ \A k \in DOMAIN own' : own'[k] = IF k = ownLast + 1 THEN header ELSE own[k]
    <3>1. DOMAIN own' \subseteq DOMAIN own \cup {ownLast + 1}
      <4>1. PICK k \in Nat : k = ownLast + 1
        BY <2>1
      <4>2. /\ k > Retention => DOMAIN own' = (DOMAIN own \cup {k}) \ {k - Retention}
            /\ ~(k > Retention) => DOMAIN own' = DOMAIN own \cup {k}
        BY <2>1, <4>1, StoreAndPruneDomain
      <4> QED
        BY <4>1, <4>2
    <3>2. \A k \in DOMAIN own' : own'[k] = IF k = ownLast + 1 THEN header ELSE own[k]
      BY <2>1, StoreAndPruneValues
    <3> QED
      BY <3>1, <3>2
  <2>4. h \in 1..ownLast /\ h \in DOMAIN own
    BY <1>3, <2>1, <2>2
  <2>5. CASE h = ownLast
    BY <1>3, <2>1, <2>2, <2>3, <2>4, <2>5
  <2>6. CASE h # ownLast
    BY <1>2, <1>3, <2>1, <2>2, <2>4, <2>6
  <2> QED
    BY <2>5, <2>6
<1>4. ASSUME NEW h \in 1..MaxHeight, NEW content, NEW chain, SeedBlock(h, content, chain)
      PROVE  \A k \in DOMAIN own' : k + 1 \notin DOMAIN own'
  <2>1. DOMAIN own' = {h}
    BY <1>1, <1>4, SeedAlone
  <2>2. h \in Nat
    BY DepositsAssumption
  <2> QED
    BY <2>1, <2>2
<1>5. ASSUME NEW v \in Verifiers, NEW h, NEW content, NEW chain,
             VerifierStores(v, h, content, chain)
      PROVE  UNCHANGED own
  BY <1>5 DEF VerifierStores
<1>6. ASSUME NEW v \in Verifiers, SetVerifierContract(v)
      PROVE  UNCHANGED own
  BY <1>6 DEF SetVerifierContract
<1>7. ASSUME UNCHANGED own
      PROVE  \A h \in DOMAIN own' :
                h + 1 \in DOMAIN own' => own'[h + 1].parent = own'[h].content
  BY <1>2, <1>7
<1> QED
  BY <1>1, <1>3, <1>4, <1>5, <1>6, <1>7 DEF HeaderStep

\* Unless the admin rewrites headers, the headers the contract keeps are a
\* chain: each is the child of the one stored below it, over any pruning.
THEOREM ChainLinkedAlways ==
    ASSUME "replaceBlock" \notin Ops
    PROVE  Spec => []ChainLinked
<1> DEFINE IInv == HeaderInv /\ ChainLinked
<1>1. Init => IInv
  BY DEF Init, HeadersInit, HeaderInv, HeaderWindow, ChainLinked
<1>2. IInv /\ [Next]_vars => IInv'
  BY HeaderInvStep, LinkedStep
<1>3. IInv => ChainLinked
  OBVIOUS
<1> QED
  BY <1>1, <1>2, <1>3, PTL DEF Spec

\* A height whose header changes under the contract loses its observed
\* entries with it, so that the new block's deposits are not shut out.
THEOREM StaleEntriesAlwaysForgotten == Spec => StaleEntriesForgotten
<1> DEFINE Forgotten ==
        verifier = NoVerifier =>
            \A h \in DOMAIN own \cap DOMAIN own' :
                own'[h].content # own[h].content => \A o \in observed' : o.height # h
<1>1. Init => HeaderInv
  BY DEF Init, HeadersInit, HeaderInv, HeaderWindow
<1>2. ASSUME HeaderInv, [Next]_vars
      PROVE  Forgotten
  <2> SUFFICES ASSUME verifier = NoVerifier, NEW h \in DOMAIN own, h \in DOMAIN own',
                      own'[h].content # own[h].content
               PROVE  \A o \in observed' : o.height # h
    OBVIOUS
  <2>1. HeaderStep
    BY <1>2, HeaderSteps
  <2>2. ASSUME NEW content, NEW chain, NEW parent, NEW c, AddBlocks(c, content, chain, parent)
        PROVE  FALSE
    <3> DEFINE header == [content |-> content, chain |-> chain, parent |-> parent]
    <3>1. /\ ownLast \in Nat /\ DOMAIN own \subseteq 1..ownLast
          /\ own' = StoreAndPrune(ownLast + 1, header)
      BY <1>2, <2>2, OwnTip
    <3>2. h # ownLast + 1
      BY <3>1
    <3>3. own'[h] = own[h]
      BY <3>1, <3>2, StoreAndPruneValues
    <3> QED
      BY <3>3
  <2>3. ASSUME NEW k, NEW content, NEW chain, SeedBlock(k, content, chain)
        PROVE  FALSE
    BY <1>2, <2>3, SeedAlone
  <2>4. ASSUME NEW k, NEW content, NEW chain, NEW parent, ReplaceBlock(k, content, chain, parent)
        PROVE  \A o \in observed' : o.height # h
    BY <2>4 DEF ReplaceBlock, With, ForgetObserved
  <2>5. ASSUME NEW v, NEW k, NEW content, NEW chain,
               VerifierStores(v, k, content, chain) \/ SetVerifierContract(v)
        PROVE  FALSE
    BY <2>5 DEF VerifierStores, SetVerifierContract
  <2> QED
    BY <2>1, <2>2, <2>3, <2>4, <2>5 DEF HeaderStep
<1>3. Forgotten => (verifier = NoVerifier =>
            \A h \in DOMAIN own \cap DOMAIN own' :
                own'[h].content # own[h].content => \A o \in observed' : o.height # h)
  OBVIOUS
<1> QED
  BY <1>1, <1>2, HeaderInvStep, PTL DEF Spec, StaleEntriesForgotten

(***************************************************************************)
(* Credits.                                                                *)
(***************************************************************************)
\* No action that takes observed entries back is available.
NoRewrites == "replaceBlock" \notin Ops /\ "clearTestnetState" \notin Ops

\* L1 holds an item in blocks of one height only.
OneHeightEach ==
    \A h, k \in 1..MaxHeight :
        \A b \in BlocksAt[h], c \in BlocksAt[k] : b \cap c # {} => h = k

\* A store of headers holds what L1 may have at each height.
FromL1(headers) ==
    \A h \in DOMAIN headers : h \in 1..MaxHeight /\ headers[h].content \in BlocksAt[h]

\* CreditedOnce is not inductive: that a second proof is refused rests on the
\* observed entry of the first, and that on the item's one height.
CreditInv ==
    /\ verifier \in Verifiers \cup {NoVerifier}
    /\ DOMAIN remote = Verifiers
    /\ FromL1(own)
    /\ \A v \in Verifiers : FromL1(remote[v].headers)
    /\ \A r \in DOMAIN credits :
          /\ r.height \in 1..MaxHeight
          /\ r.content \in BlocksAt[r.height]
          /\ r.item \in r.content
          /\ Slot(r.height, r.item) \in observed
          /\ credits[r] = 1
    /\ CreditedOnce

\* A header added to a store keeps it a store of L1 blocks.
LEMMA FromL1With ==
    ASSUME NEW headers, FromL1(headers), NEW h \in 1..MaxHeight, NEW header,
           header.content \in BlocksAt[h]
    PROVE  FromL1(With(headers, h, header))
BY DEF FromL1, With

\* So does pruning.
LEMMA FromL1Without ==
    ASSUME NEW headers, FromL1(headers), NEW h
    PROVE  FromL1(Without(headers, h))
BY DEF FromL1, Without

\* An item that passes verification is in an L1 block of that height and has
\* no observed entry.
LEMMA VerifiedItem ==
    ASSUME CreditInv, NEW h, NEW item,
           VerifyETHDeposit(h, item) \/ VerifyERC20Deposit(h, item)
    PROVE  /\ h \in 1..MaxHeight
           /\ GetHeader(h).content \in BlocksAt[h]
           /\ item \in GetHeader(h).content
           /\ Slot(h, item) \notin observed
<1>1. FromL1(Headers)
  BY DEF CreditInv, Headers
<1>2. h \in DOMAIN Headers /\ GetHeader(h) = Headers[h]
  BY DEF VerifyETHDeposit, VerifyERC20Deposit, HasHeader, GetHeader
<1>3. h \in 1..MaxHeight /\ Headers[h].content \in BlocksAt[h]
  BY <1>1, <1>2 DEF FromL1
<1>4. item \in GetHeader(h).content /\ Slot(h, item) \notin observed
  BY DEF VerifyETHDeposit, VerifyERC20Deposit
<1> QED
  BY <1>2, <1>3, <1>4

\* So it was never credited: a record of it would be of this height, where its
\* observed entry is.
LEMMA VerifiedIsNew ==
    ASSUME OneHeightEach, CreditInv, NEW h, NEW item,
           VerifyETHDeposit(h, item) \/ VerifyERC20Deposit(h, item)
    PROVE  \A q \in DOMAIN credits : q.item # item
<1> DEFINE content == GetHeader(h).content
<1>1. /\ h \in 1..MaxHeight /\ content \in BlocksAt[h] /\ item \in content
      /\ Slot(h, item) \notin observed
  BY VerifiedItem
<1> SUFFICES ASSUME NEW q \in DOMAIN credits, q.item = item PROVE FALSE
  OBVIOUS
<1>2. /\ q.height \in 1..MaxHeight /\ q.content \in BlocksAt[q.height]
      /\ q.item \in q.content /\ Slot(q.height, q.item) \in observed
  BY DEF CreditInv
<1>3. q.content \cap content # {}
  BY <1>1, <1>2
<1>4. q.height = h
  BY <1>1, <1>2, <1>3 DEF OneHeightEach
<1> QED
  BY <1>1, <1>2, <1>4

\* A step that maps a deposit adds one record with an item not credited yet.
LEMMA MapStep ==
    ASSUME OneHeightEach, CreditInv, NEW h, NEW item,
           VerifyETHDeposit(h, item) \/ VerifyERC20Deposit(h, item),
           credits' = Credited(h, item, 1), observed' = MarkObserved(h, item),
           UNCHANGED <<own, verifier, remote>>
    PROVE  CreditInv'
<1> DEFINE content == GetHeader(h).content
           rec == [height |-> h, content |-> content, item |-> item]
<1>1. /\ h \in 1..MaxHeight /\ content \in BlocksAt[h] /\ item \in content
      /\ Slot(h, item) \notin observed
  BY VerifiedItem
<1>2. \A q \in DOMAIN credits : q.item # item
  BY VerifiedIsNew
<1>3. /\ rec \notin DOMAIN credits
      /\ credits' = [k \in DOMAIN credits \cup {rec} |-> IF k = rec THEN 1 ELSE credits[k]]
  BY <1>2 DEF Credited
<1>4. /\ rec.height = h /\ rec.content = content /\ rec.item = item
  OBVIOUS
<1>5. observed \subseteq observed' /\ Slot(h, item) \in observed'
  BY DEF MarkObserved
<1> HIDE DEF content, rec
<1>6. \A r \in DOMAIN credits' :
         /\ r.height \in 1..MaxHeight
         /\ r.content \in BlocksAt[r.height]
         /\ r.item \in r.content
         /\ Slot(r.height, r.item) \in observed'
         /\ credits'[r] = 1
  BY <1>1, <1>3, <1>4, <1>5 DEF CreditInv
<1>7. CreditedOnce'
  BY <1>2, <1>3, <1>4, <1>6 DEF CreditInv, CreditedOnce
<1> QED
  BY <1>6, <1>7 DEF CreditInv

\* Every step keeps the invariant, when nothing takes entries back.
LEMMA CreditInvStep ==
    ASSUME RouterAtomic, NoRewrites, OneHeightEach, CreditInv, [Next]_vars
    PROVE  CreditInv'
<1>1. ASSUME NEW h, NEW item, NEW net, RouteAndBook(h, item, net)
      PROVE  credits' = Credited(h, item, 1) /\ observed' = MarkObserved(h, item)
  BY <1>1 DEF RouteAndBook, RouteAndBookTwice, Book
<1>2. CASE MapOp
  BY <1>1, <1>2, MapStep DEF MapOp, MapETH, MapERC20
<1>3. ASSUME UNCHANGED <<credits, observed, remote>>, FromL1(own'),
             verifier' \in Verifiers \cup {NoVerifier}
      PROVE  CreditInv'
  BY <1>3 DEF CreditInv, CreditedOnce
<1>4. CASE HeaderOp
  <2>1. PICK h \in 1..MaxHeight, chain \in Chains :
          \E content \in BlocksAt[h], parent \in Contents :
              \/ h = GetLastHeight + 1 /\ \E c \in Callers : AddBlocks(c, content, chain, parent)
              \/ SeedBlock(h, content, chain)
              \/ \E v \in Verifiers : VerifierStores(v, h, content, chain)
    BY <1>4 DEF HeaderOp, NoRewrites, Admin
  <2>2. PICK content \in BlocksAt[h], parent \in Contents :
              \/ h = GetLastHeight + 1 /\ \E c \in Callers : AddBlocks(c, content, chain, parent)
              \/ SeedBlock(h, content, chain)
              \/ \E v \in Verifiers : VerifierStores(v, h, content, chain)
    BY <2>1
  <2>3. UNCHANGED credits
    BY <1>4 DEF HeaderOp
  <2>4. ASSUME NEW c, h = GetLastHeight + 1, AddBlocks(c, content, chain, parent)
        PROVE  CreditInv'
    <3> DEFINE header == [content |-> content, chain |-> chain, parent |-> parent]
    <3>1. own' = StoreAndPrune(h, header) /\ UNCHANGED <<verifier, remote, observed>>
      BY <2>4 DEF AddBlocks
    <3>2. FromL1(With(own, h, header))
      BY FromL1With DEF CreditInv
    <3>3. FromL1(StoreAndPrune(h, header))
      BY <3>2, FromL1Without DEF StoreAndPrune
    <3>4. FromL1(own')
      BY <3>1, <3>3 DEF FromL1
    <3>5. verifier' \in Verifiers \cup {NoVerifier}
      BY <3>1 DEF CreditInv
    <3> QED
      BY <1>3, <2>3, <3>1, <3>4, <3>5
  <2>5. ASSUME SeedBlock(h, content, chain)
        PROVE  CreditInv'
    <3> DEFINE header == [content |-> content, chain |-> chain, parent |-> NoParent]
    <3>1. own' = With(own, h, header) /\ UNCHANGED <<verifier, remote, observed>>
      BY <2>5 DEF SeedBlock
    <3>2. FromL1(With(own, h, header))
      BY FromL1With DEF CreditInv
    <3>3. FromL1(own') /\ verifier' \in Verifiers \cup {NoVerifier}
      BY <3>1, <3>2 DEF FromL1, CreditInv
    <3> QED
      BY <1>3, <2>3, <3>1, <3>3
  <2>6. ASSUME NEW v \in Verifiers, VerifierStores(v, h, content, chain)
        PROVE  CreditInv'
    <3> DEFINE header == [content |-> content, chain |-> chain, parent |-> NoParent]
               new == With(remote[v].headers, h, header)
    <3>1. /\ remote' = [remote EXCEPT ![v] = [last |-> h, headers |-> new]]
          /\ UNCHANGED <<own, verifier, observed>>
      BY <2>6 DEF VerifierStores
    <3>2. FromL1(new)
      BY FromL1With DEF CreditInv
    <3> HIDE DEF new
    <3>3. /\ DOMAIN remote' = Verifiers
          /\ remote'[v].headers = new
          /\ \A w \in Verifiers : w # v => remote'[w] = remote[w]
      BY <3>1 DEF CreditInv
    <3>4. \A w \in Verifiers : FromL1(remote'[w].headers)
      BY <3>2, <3>3 DEF CreditInv
    <3> QED
      BY <2>3, <3>1, <3>3, <3>4 DEF CreditInv, CreditedOnce, FromL1
  <2> QED
    BY <2>2, <2>4, <2>5, <2>6
<1>5. CASE SetVerifier
  <2>1. PICK v \in Verifiers : SetVerifierContract(v)
    BY <1>5 DEF SetVerifier
  <2>2. FromL1(own')
    BY <2>1 DEF SetVerifierContract, CreditInv, FromL1
  <2> QED
    BY <1>3, <1>5, <2>1, <2>2 DEF SetVerifier, SetVerifierContract
<1>6. CASE Configure \/ LedgerOp \/ UNCHANGED vars
  <2>1. UNCHANGED <<headerVars, credits>>
    BY <1>6 DEF Configure, SetVault, RegisterRelayer, DeregisterRelayer, RegisterToken,
                RegisterRouter, LedgerOp, vars
  <2>2. FromL1(own') /\ verifier' \in Verifiers \cup {NoVerifier}
    BY <2>1 DEF headerVars, CreditInv, FromL1
  <2> QED
    BY <1>3, <2>1, <2>2 DEF headerVars
<1>7. ~ClearTestnetState
  BY DEF NoRewrites, ClearTestnetState, Admin
<1> QED
  BY <1>2, <1>4, <1>5, <1>6, <1>7 DEF Next

\* As long as no header is rewritten and the router maps nothing from within its
\* call, each L1 deposit is credited at most once: whichever path its proofs
\* take, before and after a verifier is configured, and however far its header
\* has been pruned.
THEOREM CreditedAtMostOnce ==
    ASSUME RouterAtomic, NoRewrites, OneHeightEach
    PROVE  Spec => []CreditedOnce
<1>1. Init => CreditInv
  BY DEF Init, HeadersInit, CreditInv, FromL1, CreditedOnce
<1>2. CreditInv /\ [Next]_vars => CreditInv'
  BY CreditInvStep
<1>3. CreditInv => CreditedOnce
  BY DEF CreditInv
<1> QED
  BY <1>1, <1>2, <1>3, PTL DEF Spec

\* Every entry of an observed list was made by a credit: whatever becomes of
\* its header, no deposit is refused as seen without having been paid out.
THEOREM ObservedAlwaysCredited == Spec => []ObservedIsCredited
<1>1. Init => ObservedIsCredited
  BY DEF Init, HeadersInit, ObservedIsCredited
<1>2. ASSUME ObservedIsCredited, [Next]_vars
      PROVE  ObservedIsCredited'
  <2>1. ASSUME NEW h, NEW item, NEW times,
               credits' = Credited(h, item, times), observed' = MarkObserved(h, item)
        PROVE  ObservedIsCredited'
    <3> DEFINE rec == [height |-> h, content |-> GetHeader(h).content, item |-> item]
    <3>1. DOMAIN credits' = DOMAIN credits \cup {rec}
      BY <2>1 DEF Credited
    <3>2. rec.height = h /\ rec.item = item
      OBVIOUS
    <3> QED
      BY <1>2, <2>1, <3>1, <3>2 DEF ObservedIsCredited, MarkObserved
  <2>2. ASSUME observed' \subseteq observed, UNCHANGED credits
        PROVE  ObservedIsCredited'
    BY <1>2, <2>2 DEF ObservedIsCredited
  <2>3. CASE MapOp
    BY <2>1, <2>3 DEF MapOp, MapETH, MapERC20, RouteAndBook, RouteAndBookTwice, Book
  <2>4. CASE HeaderOp
    BY <2>2, <2>4 DEF HeaderOp, AddBlocks, SeedBlock, ReplaceBlock, ForgetObserved, VerifierStores
  <2>5. CASE SetVerifier
    BY <2>2, <2>5 DEF SetVerifier, SetVerifierContract
  <2>6. CASE Configure
    BY <2>2, <2>6 DEF Configure, SetVault, RegisterRelayer, DeregisterRelayer, RegisterToken,
                      RegisterRouter, headerVars
  <2>7. CASE ClearTestnetState
    BY <2>2, <2>7 DEF ClearTestnetState
  <2>8. CASE LedgerOp \/ UNCHANGED vars
    BY <2>2, <2>8 DEF LedgerOp, vars, headerVars
  <2> QED
    BY <1>2, <2>3, <2>4, <2>5, <2>6, <2>7, <2>8 DEF Next
<1> QED
  BY <1>1, <1>2, PTL DEF Spec

(***************************************************************************)
(* The books.                                                              *)
(***************************************************************************)
\* The ledger to start from is one that deposits may have left.
BooksAtFirst ==
    \A a \in Assets : /\ InitSupply[a].User = Total(InitBal, a)
                      /\ InitSupply[a].Active = InitSupply[a].User + InitSupply[a].Fee

Books ==
    /\ UserSupplyIsCredited
    /\ \A a \in Assets : supply[a].Active = supply[a].User + supply[a].Fee

LEMMA HeldIsTotal == \A a : Held(a) = Total(bal, a)
BY DEF Held, Total

LEMMA DepositTypes ==
    ASSUME TypeOK
    PROVE  /\ LedgerTypeOK /\ bal \in Balances /\ supply \in Supplies /\ reserve \in Nat
           /\ \A a \in Assets : /\ Total(bal, a) \in Nat
                                /\ supply[a].Active \in Nat
                                /\ supply[a].User \in Nat
                                /\ supply[a].Fee \in Nat
<1>1. LedgerTypeOK /\ bal \in Balances /\ supply \in Supplies /\ reserve \in Nat
  BY DEF TypeOK, LedgerTypeOK, Balances, Supplies
<1> QED
  BY <1>1, TotalType DEF Supplies, SupplyRecord

\* A step that maps a deposit keeps the books, if the router is atomic and no
\* taxed deposit is swapped.
LEMMA RouteBooks ==
    ASSUME TypeOK, Books, NEW h, NEW item \in Items, NEW net \in Nat, net <= item.amount,
           net = item.amount \/ item.asset \notin SwapAssets,
           RouterAtomic, RouteAndBook(h, item, net)
    PROVE  Books'
<1>1. item.asset \in Assets /\ item.amount - net \in Nat
  BY DepositsAssumption DEF Item
<1>2. /\ Book(h, item, net, 1)
      /\ \A x \in Assets :
            Total(bal', x) = Total(bal, x) + (IF x = item.asset THEN net ELSE 0)
  <2>1. bal \in Balances /\ allow \in Allowances
    BY DEF TypeOK, LedgerTypeOK, Balances, Allowances
  <2> QED
    BY <2>1, RouteTotals
<1>3. /\ supply \in Supplies
      /\ \A a \in Assets : /\ Total(bal, a) \in Nat
                           /\ supply[a].Active \in Nat
                           /\ supply[a].User \in Nat
                           /\ supply[a].Fee \in Nat
  BY DepositTypes
<1>4. PICK fee \in Nat : fee = item.amount - net /\ supply' = TrackDeposit(item.asset, net, fee)
  BY <1>1, <1>2 DEF Book
<1>5. /\ supply'[item.asset].User = supply[item.asset].User + net
      /\ supply'[item.asset].Fee = supply[item.asset].Fee + fee
      /\ supply'[item.asset].Active = supply[item.asset].Active + net + fee
      /\ \A x \in Assets : x # item.asset => supply'[x] = supply[x]
  BY <1>1, <1>3, <1>4 DEF TrackDeposit, Supplies
<1>6. \A a \in Assets : supply[a].User = Total(bal, a)
  BY HeldIsTotal DEF Books, UserSupplyIsCredited
<1>7. \A x \in Assets : supply'[x].User = Total(bal', x)
  BY <1>1, <1>2, <1>3, <1>5, <1>6
<1>8. \A x \in Assets : supply'[x].Active = supply'[x].User + supply'[x].Fee
  BY <1>1, <1>3, <1>5 DEF Books
<1>9. \A x \in Assets : Held(x)' = Total(bal', x)
  BY DEF Held, Total
<1> QED
  BY <1>7, <1>8, <1>9 DEF Books, UserSupplyIsCredited

\* What a step that maps no deposit does to the ledger: a handler moves an
\* amount, and everything else leaves balances, supply and reserve alone.
LEMMA OtherStepsMove ==
    ASSUME TypeOK, [Next]_vars, ~MapOp
    PROVE  /\ UNCHANGED <<supply, reserve, credits>>
           /\ \A x \in Assets : Total(bal', x) = Total(bal, x)
<1>1. CASE LedgerOp
  <2>1. UNCHANGED credits
    BY <1>1 DEF LedgerOp
  <2>2. CASE UserOp
    <3>1. LedgerTypeOK /\ bal \in Balances
      BY DepositTypes
    <3>2. UNCHANGED <<supply, reserve>>
      BY <2>2, <3>1, UserOpMoves
    <3>3. \/ UNCHANGED bal
          \/ \E u \in Accounts, v \in Accounts, a \in Assets :
                 \E amt \in 1..bal[<<u, a>>] : Moves(u, v, a, amt)
      BY <2>2, <3>1, UserOpMoves
    <3>4. \A x \in Assets : Total(bal', x) = Total(bal, x)
      BY <3>1, <3>3, TotalMove
    <3> QED
      BY <2>1, <3>2, <3>4
  <2>3. CASE Pause \/ Unpause
    BY <2>1, <2>3 DEF Pause, Unpause
  <2> QED
    BY <1>1, <2>2, <2>3 DEF LedgerOp
<1>2. CASE ~LedgerOp
  <2>1. UNCHANGED <<bal, supply, reserve, credits>>
    BY <1>2 DEF Next, HeaderOp, SetVerifier, Configure, SetVault, RegisterRelayer,
                DeregisterRelayer, RegisterToken, RegisterRouter, ClearTestnetState, vars,
                ledgerVars
  <2> QED
    BY <2>1
<1> QED
  BY <1>1, <1>2

\* Every step keeps the books.
LEMMA BooksStep ==
    ASSUME RouterAtomic, NoTaxedSwaps, TypeOK, Books, [Next]_vars
    PROVE  Books'
<1>1. CASE MapOp
  <2>1. PICK h \in 1..MaxHeight, item \in Items, net \in Nat :
            /\ net <= item.amount
            /\ net = item.amount \/ item.asset \notin SwapAssets
            /\ RouteAndBook(h, item, net)
    BY <1>1, MapRoutes
  <2> QED
    BY <2>1, RouteBooks
<1>2. CASE ~MapOp
  <2>1. /\ UNCHANGED <<supply, reserve, credits>>
        /\ \A x \in Assets : Total(bal', x) = Total(bal, x)
    BY <1>2, OtherStepsMove
  <2>2. \A x \in Assets : Held(x) = Total(bal, x) /\ Held(x)' = Total(bal', x)
    BY DEF Held, Total
  <2> QED
    BY <2>1, <2>2 DEF Books, UserSupplyIsCredited
<1> QED
  BY <1>1, <1>2

\* supply.go:13, "credited to users": where no taxed deposit is swapped and the
\* router is atomic, the User total of each asset is what deposits put into the
\* balances, whatever the router took of them and wherever transfers moved them
\* since.
THEOREM UserSupplyAlwaysCredited ==
    ASSUME RouterAtomic, NoTaxedSwaps, BooksAtFirst
    PROVE  Spec => []UserSupplyIsCredited
<1>1. Init => Books
  BY HeldIsTotal DEF Init, LedgerInit, BooksAtFirst, Books, UserSupplyIsCredited
<1>2. TypeOK /\ Books /\ [Next]_vars => Books'
  BY BooksStep
<1>3. Books => UserSupplyIsCredited
  BY DEF Books
<1> QED
  BY <1>1, <1>2, <1>3, TypeCorrect, PTL DEF Spec

\* The ledger to start from holds what it counts as credited.
HeldAtFirst == \A a \in Assets : InitSupply[a].User <= Total(InitBal, a)

\* Every step keeps credits held: what a deposit books for the user, the
\* balances grow by at least, and nothing else changes a total.
LEMMA HeldStep ==
    ASSUME TypeOK, CreditsAreHeld, [Next]_vars
    PROVE  CreditsAreHeld'
<1>1. /\ supply \in Supplies
      /\ \A a \in Assets : Total(bal, a) \in Nat /\ supply[a].User \in Nat
  BY DepositTypes
<1>2. \A a \in Assets : supply[a].User <= Total(bal, a)
  BY HeldIsTotal DEF CreditsAreHeld
<1>3. ASSUME \A a \in Assets : supply'[a].User <= Total(bal', a)
      PROVE  CreditsAreHeld'
  <2>1. \A x \in Assets : Held(x)' = Total(bal', x)
    BY DEF Held, Total
  <2> QED
    BY <1>3, <2>1 DEF CreditsAreHeld
<1>4. CASE MapOp
  <2>1. PICK h \in 1..MaxHeight, item \in Items, net \in Nat :
            net <= item.amount /\ RouteAndBook(h, item, net)
    BY <1>4, MapRoutes
  <2>2. item.asset \in Assets /\ item.amount \in Nat /\ bal \in Balances /\ allow \in Allowances
    BY DepositsAssumption DEF Item, TypeOK, LedgerTypeOK, Balances, Allowances
  <2>3. PICK times \in {1, 2} :
            /\ Book(h, item, net, times)
            /\ bal' \in Balances
            /\ \A x \in Assets :
                  Total(bal', x) >= Total(bal, x) + (IF x = item.asset THEN times * net ELSE 0)
    <3>1. \E times \in {1, 2} :
              /\ RouterAtomic => times = 1
              /\ Book(h, item, net, times)
              /\ bal' \in Balances
              /\ allow' \in Allowances
              /\ \A x \in Assets :
                    Total(bal', x) >= Total(bal, x) + (IF x = item.asset THEN times * net ELSE 0)
              /\ RouterAtomic /\ (net = item.amount \/ item.asset \notin SwapAssets) =>
                    \A x \in Assets :
                       Total(bal', x) = Total(bal, x) + (IF x = item.asset THEN net ELSE 0)
      BY <2>1, <2>2, RouteTotals
    <3> QED
      BY <3>1, Zenon
  <2>4. PICK user \in Nat : user = times * net
    BY <2>3
  <2>5. /\ supply'[item.asset].User = supply[item.asset].User + user
        /\ \A x \in Assets : x # item.asset => supply'[x] = supply[x]
    BY <1>1, <2>2, <2>3, <2>4 DEF Book, TrackDeposit, Supplies
  <2>6. \A x \in Assets : Total(bal', x) \in Nat
    BY <2>3, TotalType
  <2>7. \A x \in Assets : Total(bal', x) >= Total(bal, x) + (IF x = item.asset THEN user ELSE 0)
    BY <2>3, <2>4
  <2> QED
    BY <1>1, <1>2, <1>3, <2>2, <2>5, <2>6, <2>7
<1>5. CASE ~MapOp
  BY <1>2, <1>3, <1>5, OtherStepsMove
<1> QED
  BY <1>4, <1>5

\* handlers.go:687-694: whatever the router does with a deposit, and though it
\* fails after it took part of it or maps it again within its call, what the
\* supply counts as credited to users is in balances: no swap leaves a depositor
\* unpaid.
THEOREM CreditsAlwaysHeld ==
    ASSUME HeldAtFirst
    PROVE  Spec => []CreditsAreHeld
<1>1. Init => CreditsAreHeld
  BY HeldIsTotal DEF Init, LedgerInit, HeldAtFirst, CreditsAreHeld
<1>2. TypeOK /\ CreditsAreHeld /\ [Next]_vars => CreditsAreHeld'
  BY HeldStep
<1> QED
  BY <1>1, <1>2, TypeCorrect, PTL DEF Spec

(***************************************************************************)
(* Backing.                                                                *)
(***************************************************************************)
CreditedItems == {r.item : r \in DOMAIN credits}

\* The amount of an asset in a set of L1 payments and logs.
ItemSum(S, a) == SumFunction([i \in S |-> IF i.asset = a THEN i.amount ELSE 0])

LEMMA ReceivedIsSum == \A a : Received(a) = ItemSum(CreditedItems, a)
BY DEF Received, ItemSum, CreditedItems

\* One more item adds its amount to the sum of its asset.
LEMMA ItemSumAdd ==
    ASSUME NEW S \in SUBSET Items, IsFiniteSet(S), NEW item \in Items, item \notin S, NEW a
    PROVE  /\ IsFiniteSet(S \cup {item})
           /\ ItemSum(S, a) \in Int
           /\ ItemSum(S \cup {item}, a) =
                 ItemSum(S, a) + (IF item.asset = a THEN item.amount ELSE 0)
<1> DEFINE T == S \cup {item}
           f == [i \in S |-> IF i.asset = a THEN i.amount ELSE 0]
           g == [i \in T |-> IF i.asset = a THEN i.amount ELSE 0]
<1>1. \A i \in Items : i.amount \in Nat
  BY DepositsAssumption DEF Item
<1>2. IsFiniteSet(T) /\ item \in T /\ T \ {item} = S
  BY FS_AddElement
<1>3. /\ g \in [T -> Int] /\ g[item] = IF item.asset = a THEN item.amount ELSE 0
      /\ f \in [S -> Int] /\ f = [i \in S |-> g[i]]
  BY <1>1
<1>4. ItemSum(S, a) = SumFunction(f) /\ ItemSum(T, a) = SumFunction(g)
  BY DEF ItemSum
<1> HIDE DEF f, g, T
<1>5. SumFunction(g) = SumFunction([i \in T \ {item} |-> g[i]]) + g[item]
  BY <1>2, <1>3, SumTake
<1>6. SumFunction(f) \in Int
  <2>1. \A i \in S : f[i] \in Int
    BY <1>3
  <2> QED
    BY <1>3, SumType
<1> QED
  BY <1>2, <1>3, <1>4, <1>5, <1>6 DEF T

\* The bridge starts empty.
StartsEmpty ==
    /\ InitReserve = 0
    /\ \A a \in Assets : Total(InitBal, a) = 0

\* What accounts and the reserve have of an asset.
Assigned(b, rsv, a) == Total(b, a) + (IF a = Eth THEN rsv ELSE 0)

\* Stronger than Backed, and inductive with CreditInv: not a wei of what the
\* vault received is lost either.
Accounted ==
    /\ IsFiniteSet(CreditedItems)
    /\ \A a \in Assets : Assigned(bal, reserve, a) = ItemSum(CreditedItems, a)

\* Every step keeps it: the item mapped is one that was never credited.
LEMMA AccountedStep ==
    ASSUME RouterAtomic, NoRewrites, OneHeightEach, NoTaxedSwaps,
           TypeOK, CreditInv, Accounted, [Next]_vars
    PROVE  Accounted'
<1>1. /\ reserve \in Nat
      /\ \A a \in Assets : Total(bal, a) \in Nat
  BY DepositTypes
<1>2. CreditedItems \in SUBSET Items
  BY DEF TypeOK, CreditRecord, CreditedItems
<1>3. CASE MapOp
  <2>1. PICK h \in 1..MaxHeight, item \in Items, net \in Nat :
              /\ VerifyETHDeposit(h, item) \/ VerifyERC20Deposit(h, item)
              /\ net <= item.amount
              /\ item.asset # Eth => net = item.amount
              /\ net = item.amount \/ item.asset \notin SwapAssets
              /\ RouteAndBook(h, item, net)
    BY <1>3, MapRoutes
  <2>2. item.amount \in Nat /\ item.asset \in Assets /\ bal \in Balances /\ allow \in Allowances
    BY DepositsAssumption DEF Item, TypeOK, LedgerTypeOK, Balances, Allowances
  <2>3. item \notin CreditedItems
    BY <2>1, VerifiedIsNew DEF CreditedItems
  <2>4. /\ Book(h, item, net, 1)
        /\ \A x \in Assets :
              Total(bal', x) = Total(bal, x) + (IF x = item.asset THEN net ELSE 0)
    BY <2>1, <2>2, RouteTotals
  <2>5. CreditedItems' = CreditedItems \cup {item}
    <3> DEFINE rec == [height |-> h, content |-> GetHeader(h).content, item |-> item]
    <3>1. DOMAIN credits' = DOMAIN credits \cup {rec}
      BY <2>4 DEF Book, Credited
    <3>2. rec.item = item
      OBVIOUS
    <3> HIDE DEF rec
    <3> QED
      BY <3>1, <3>2 DEF CreditedItems
  <2>6. \A x \in Assets :
           Assigned(bal', reserve', x) =
              Assigned(bal, reserve, x) + (IF item.asset = x THEN item.amount ELSE 0)
    <3>1. reserve' = reserve + (item.amount - net)
      BY <2>1, <2>2, <2>4 DEF Book, addGasReserve
    <3> QED
      BY <1>1, <2>1, <2>2, <2>4, <3>1 DEF Assigned
  <2>7. /\ IsFiniteSet(CreditedItems')
        /\ \A x \in Assets : ItemSum(CreditedItems', x) =
              ItemSum(CreditedItems, x) + (IF item.asset = x THEN item.amount ELSE 0)
    BY <1>2, <2>3, <2>5, ItemSumAdd DEF Accounted
  <2> QED
    BY <2>6, <2>7 DEF Accounted
<1>4. CASE ~MapOp
  <2>1. /\ UNCHANGED <<supply, reserve, credits>>
        /\ \A x \in Assets : Total(bal', x) = Total(bal, x)
    BY <1>4, OtherStepsMove
  <2>2. CreditedItems' = CreditedItems
    BY <2>1 DEF CreditedItems
  <2> QED
    BY <2>1, <2>2 DEF Accounted, Assigned
<1> QED
  BY <1>3, <1>4

\* The bridge is backed: as long as no header is rewritten, no taxed deposit is
\* swapped and the router is atomic, what accounts and the gas reserve hold is
\* what the vault received on L1, whoever brings the proofs and however often,
\* and however the router splits a deposit.
THEOREM AlwaysBacked ==
    ASSUME RouterAtomic, NoRewrites, OneHeightEach, NoTaxedSwaps, StartsEmpty
    PROVE  Spec => []Backed
<1> DEFINE IInv == CreditInv /\ Accounted
<1>1. Init => IInv
  <2> SUFFICES ASSUME Init PROVE IInv
    OBVIOUS
  <2>1. CreditInv
    BY DEF Init, HeadersInit, CreditInv, FromL1, CreditedOnce
  <2>2. CreditedItems = {}
    BY DEF Init, CreditedItems
  <2>3. \A a : ItemSum({}, a) = 0
    BY SumNone DEF ItemSum
  <2>4. \A a \in Assets : Assigned(bal, reserve, a) = 0
    BY DEF Init, LedgerInit, StartsEmpty, Assigned
  <2> QED
    BY <2>1, <2>2, <2>3, <2>4, FS_EmptySet DEF Accounted
<1>2. TypeOK /\ IInv /\ [Next]_vars => IInv'
  BY CreditInvStep, AccountedStep
<1>3. TypeOK /\ IInv => Backed
  <2> SUFFICES ASSUME TypeOK, Accounted, NEW a \in Assets
               PROVE  Held(a) + (IF a = Eth THEN reserve ELSE 0) <= Received(a)
    BY DEF Backed
  <2>1. Total(bal, a) \in Nat /\ reserve \in Nat
    BY DepositTypes
  <2>2. Held(a) = Total(bal, a) /\ Received(a) = ItemSum(CreditedItems, a)
    BY HeldIsTotal, ReceivedIsSum
  <2>3. Total(bal, a) + (IF a = Eth THEN reserve ELSE 0) = ItemSum(CreditedItems, a)
    BY DEF Accounted, Assigned
  <2> QED
    BY <2>1, <2>2, <2>3
<1> QED
  BY <1>1, <1>2, <1>3, TypeCorrect, PTL DEF Spec
=============================================================================
