--------------------------- MODULE Ledger_proofs ---------------------------
(***************************************************************************)
(* Lemmas about the account ledger, which the withdrawal lifecycle and the *)
(* deposits share, and about the sums of its balances.                     *)
(***************************************************************************)
EXTENDS Ledger, FiniteSetTheorems, TLAPS

(***************************************************************************)
(* Sums.  The library adds up the values of a function over a finite set   *)
(* by recursion.  What the ledger needs of it follows by induction over    *)
(* the subsets of that set, each time by a smallest counterexample.        *)
(***************************************************************************)
\* A set of natural numbers has a least element.
LEMMA LeastNat ==
    ASSUME NEW T \in SUBSET Nat, T # {}
    PROVE  \E n \in T : \A m \in T : ~(m < n)
<1>1. IsWellFoundedOn(OpToRel(<, Nat), Nat)
  BY NatLessThanWellFounded
<1>2. \E x \in T : \A y \in T : ~(<<y, x>> \in OpToRel(<, Nat))
  BY <1>1, WFMin, Zenon
<1>3. \A x, y \in Nat : (y < x) => <<y, x>> \in OpToRel(<, Nat)
  BY DEF OpToRel
<1> QED
  BY <1>2, <1>3

\* Induction on the natural numbers, about a set instead of an operator.
LEMMA SetInduction ==
    ASSUME NEW T \in SUBSET Nat, 0 \in T, \A n \in T : n + 1 \in T
    PROVE  T = Nat
<1> SUFFICES ASSUME Nat \ T # {} PROVE FALSE
  OBVIOUS
<1>1. PICK n \in Nat \ T : \A m \in Nat \ T : ~(m < n)
  BY LeastNat
<1>2. n # 0 /\ n - 1 \in Nat
  BY <1>1
<1> QED
  BY <1>1, <1>2

\* The finite subsets of a set are well founded.
LEMMA SmallestSubset ==
    ASSUME NEW S, IsFiniteSet(S), NEW Bad \in SUBSET (SUBSET S), Bad # {}
    PROVE  \E T \in Bad : \A U \in Bad : U \subseteq T => U = T
<1>1. IsWellFoundedOn(StrictSubsetOrdering(S), SUBSET S)
  BY FS_StrictSubsetOrderingWellFounded, FS_FiniteSubsetsOfFinite
<1>2. PICK T \in Bad : \A U \in Bad : ~(<<U, T>> \in StrictSubsetOrdering(S))
  BY <1>1, WFMin, Zenon
<1>3. ASSUME NEW U \in Bad, U \subseteq T, U # T PROVE FALSE
  <2>1. <<U, T>> \in StrictSubsetOrdering(S)
    BY <1>3 DEF StrictSubsetOrdering
  <2> QED BY <1>2, <2>1, Zenon
<1> QED
  BY <1>3

\* The member a sum takes first, and the equation that defines sums.
Chosen(T) == CHOOSE x \in T : TRUE
SumTerm(sum, f, T) == IF T = {} THEN 0 ELSE f[Chosen(T)] + sum[T \ {Chosen(T)}]
SumsUp(sum, f, S) == sum = [T \in SUBSET S |-> SumTerm(sum, f, T)]

\* The member taken is one of the set.
LEMMA ChosenIn == ASSUME NEW T, T # {} PROVE Chosen(T) \in T
BY DEF Chosen

\* The equation has a solution, built up by the size of the subsets.
LEMMA SumRecExists ==
    ASSUME NEW f, NEW S, IsFiniteSet(S)
    PROVE  \E sum : sum = [T \in SUBSET S |-> SumTerm(sum, f, T)]
<1> DEFINE Upto(n) == {T \in SUBSET S : Cardinality(T) <= n}
           Good == {n \in Nat : \E sum : sum = [T \in Upto(n) |-> SumTerm(sum, f, T)]}
<1>0. \A T \in SUBSET S : /\ IsFiniteSet(T) /\ Cardinality(T) \in Nat /\ Cardinality(T) <= Cardinality(S)
         /\ \A x \in T : Cardinality(T \ {x}) = Cardinality(T) - 1
  BY FS_Subset, FS_CardinalityType, FS_RemoveElement
<1>1. 0 \in Good
  <2> DEFINE zero == [T \in Upto(0) |-> 0]
  <2>1. \A T \in Upto(0) : SumTerm(zero, f, T) = 0
    BY <1>0, FS_EmptySet DEF SumTerm
  <2>2. zero = [T \in Upto(0) |-> SumTerm(zero, f, T)]
    BY <2>1
  <2> QED BY <2>2, Zenon
<1>2. ASSUME NEW n \in Good PROVE n + 1 \in Good
  <2>1. PICK sum : sum = [T \in Upto(n) |-> SumTerm(sum, f, T)]
    OBVIOUS
  <2> DEFINE next == [T \in Upto(n + 1) |-> SumTerm(sum, f, T)]
  <2>2. ASSUME NEW T \in Upto(n + 1), T # {} PROVE next[T \ {Chosen(T)}] = sum[T \ {Chosen(T)}]
    <3>1. T \ {Chosen(T)} \in Upto(n)
      BY <1>0, <2>2, ChosenIn
    <3>2. T \ {Chosen(T)} \in Upto(n + 1)
      BY <1>0, <3>1
    <3> HIDE DEF Upto
    <3> QED BY <2>1, <3>1, <3>2
  <2>3. \A T \in Upto(n + 1) : SumTerm(next, f, T) = SumTerm(sum, f, T)
    <3> HIDE DEF next, Upto
    <3> QED BY <2>2 DEF SumTerm
  <2>4. next = [T \in Upto(n + 1) |-> SumTerm(next, f, T)]
    BY <2>3
  <2> HIDE DEF next, Upto
  <2>5. n + 1 \in Nat
    OBVIOUS
  <2>6. \E sum1 : sum1 = [T \in Upto(n + 1) |-> SumTerm(sum1, f, T)]
    BY <2>4, Zenon
  <2> QED BY <2>5, <2>6, Zenon
<1>3. Good = Nat
  <2> HIDE DEF Good
  <2>1. Good \in SUBSET Nat BY DEF Good
  <2> QED BY <1>1, <1>2, <2>1, SetInduction
<1>4. SUBSET S = Upto(Cardinality(S)) /\ Cardinality(S) \in Good
  <2> HIDE DEF Good
  <2> QED BY <1>0, <1>3
<1> QED
  BY <1>4

\* The library's sum is one of its solutions.
LEMMA SumOnSetDef ==
    ASSUME NEW f, NEW S, IsFiniteSet(S)
    PROVE  \E sum : SumsUp(sum, f, S) /\ SumFunctionOnSet(f, S) = sum[S]
<1> DEFINE sum == CHOOSE s : s = [T \in SUBSET S |-> SumTerm(s, f, T)]
<1>1. SumFunctionOnSet(f, S) = sum[S]
  BY DEF SumFunctionOnSet, FoldFunctionOnSet, MapThenFoldSet, SumTerm, Chosen
<1>2. SumsUp(sum, f, S)
  <2>1. \E s : s = [T \in SUBSET S |-> SumTerm(s, f, T)]
    BY SumRecExists
  <2> QED BY <2>1, Zenon DEF SumsUp
<1> HIDE DEF sum
<1> QED BY <1>1, <1>2, Zenon

\* Whatever set it was asked for, the sum of a subset is the same.
LEMMA SumOnSubset ==
    ASSUME NEW f, NEW S, IsFiniteSet(S), NEW sum, SumsUp(sum, f, S), NEW T \in SUBSET S
    PROVE  SumFunctionOnSet(f, T) = sum[T]
<1>1. IsFiniteSet(T)
  BY FS_Subset
<1>2. PICK part : SumsUp(part, f, T) /\ SumFunctionOnSet(f, T) = part[T]
  BY <1>1, SumOnSetDef
<1> DEFINE Bad == {U \in SUBSET T : part[U] # sum[U]}
<1> SUFFICES ASSUME Bad # {} PROVE FALSE
  BY <1>2
<1>3. PICK U \in Bad : \A V \in Bad : V \subseteq U => V = U
  <2>1. Bad \in SUBSET (SUBSET T)
    OBVIOUS
  <2> HIDE DEF Bad
  <2> QED BY <1>1, <2>1, SmallestSubset
<1>4. part[U] = SumTerm(part, f, U) /\ sum[U] = SumTerm(sum, f, U)
  BY <1>2 DEF SumsUp
<1>5. ASSUME U # {} PROVE part[U \ {Chosen(U)}] = sum[U \ {Chosen(U)}]
  <2>1. Chosen(U) \in U
    BY <1>5, ChosenIn
  <2>2. U \ {Chosen(U)} \notin Bad
    BY <1>3, <2>1
  <2> QED BY <2>2
<1> QED
  BY <1>3, <1>4, <1>5 DEF SumTerm

\* The sum of a set is a member's value and the sum of the rest.
LEMMA SumStep ==
    ASSUME NEW f, NEW S, IsFiniteSet(S)
    PROVE  SumFunctionOnSet(f, S) =
             IF S = {} THEN 0
             ELSE f[Chosen(S)] + SumFunctionOnSet(f, S \ {Chosen(S)})
<1>1. PICK sum : SumsUp(sum, f, S) /\ SumFunctionOnSet(f, S) = sum[S]
  BY SumOnSetDef
<1>2. sum[S] = SumTerm(sum, f, S)
  BY <1>1 DEF SumsUp
<1>3. \A T \in SUBSET S : SumFunctionOnSet(f, T) = sum[T]
  BY <1>1, SumOnSubset
<1> QED
  BY <1>1, <1>2, <1>3 DEF SumTerm

\* The sum of integers is an integer, of natural numbers one too.
LEMMA SumOnSetType ==
    ASSUME NEW f, NEW S, IsFiniteSet(S), \A x \in S : f[x] \in Int
    PROVE  /\ SumFunctionOnSet(f, S) \in Int
           /\ (\A x \in S : f[x] >= 0) => SumFunctionOnSet(f, S) >= 0
<1> DEFINE Bad == {T \in SUBSET S : ~ /\ SumFunctionOnSet(f, T) \in Int
                                      /\ (\A x \in S : f[x] >= 0) => SumFunctionOnSet(f, T) >= 0}
<1> SUFFICES ASSUME Bad # {} PROVE FALSE
  OBVIOUS
<1>1. PICK T \in Bad : \A U \in Bad : U \subseteq T => U = T
  <2>1. Bad \in SUBSET (SUBSET S)
    OBVIOUS
  <2> HIDE DEF Bad
  <2> QED BY <2>1, SmallestSubset
<1>2. IsFiniteSet(T)
  BY FS_Subset
<1>3. T # {} => /\ Chosen(T) \in T
                /\ T \ {Chosen(T)} \notin Bad
  BY <1>1, ChosenIn
<1> QED
  BY <1>1, <1>2, <1>3, SumStep

\* Any member may be taken out first.
LEMMA SumOnSetRemove ==
    ASSUME NEW f, NEW S, IsFiniteSet(S), \A x \in S : f[x] \in Int, NEW z \in S
    PROVE  SumFunctionOnSet(f, S) = f[z] + SumFunctionOnSet(f, S \ {z})
<1> DEFINE Bad == {T \in SUBSET S : \E x \in T :
                      SumFunctionOnSet(f, T) # f[x] + SumFunctionOnSet(f, T \ {x})}
<1> SUFFICES ASSUME Bad # {} PROVE FALSE
  OBVIOUS
<1>1. PICK T \in Bad : \A U \in Bad : U \subseteq T => U = T
  <2>1. Bad \in SUBSET (SUBSET S)
    OBVIOUS
  <2> HIDE DEF Bad
  <2> QED BY <2>1, SmallestSubset
<1>2. PICK x \in T : SumFunctionOnSet(f, T) # f[x] + SumFunctionOnSet(f, T \ {x})
  BY <1>1
<1> DEFINE y == Chosen(T)
<1>3. /\ y \in T
      /\ IsFiniteSet(T)
      /\ SumFunctionOnSet(f, T) = f[y] + SumFunctionOnSet(f, T \ {y})
  BY <1>2, ChosenIn, FS_Subset, SumStep
<1> HIDE DEF y
<1>4. x # y
  BY <1>2, <1>3
<1>5. SumFunctionOnSet(f, T \ {y}) = f[x] + SumFunctionOnSet(f, (T \ {y}) \ {x})
  BY <1>1, <1>3, <1>4
<1>6. SumFunctionOnSet(f, T \ {x}) = f[y] + SumFunctionOnSet(f, (T \ {x}) \ {y})
  BY <1>1, <1>2, <1>3, <1>4
<1>7. (T \ {y}) \ {x} = (T \ {x}) \ {y}
  OBVIOUS
<1>8. SumFunctionOnSet(f, T \ {y}) = f[x] + SumFunctionOnSet(f, (T \ {x}) \ {y})
  BY <1>5, <1>7, Zenon
<1>9. SumFunctionOnSet(f, (T \ {x}) \ {y}) \in Int
  <2>1. IsFiniteSet((T \ {x}) \ {y})
    BY <1>3, FS_Subset
  <2> QED BY <2>1, SumOnSetType
<1>10. f[x] \in Int /\ f[y] \in Int
  BY <1>3
<1> HIDE DEF Bad
<1> QED
  BY <1>2, <1>3, <1>6, <1>8, <1>9, <1>10

\* Smaller terms have no larger sum.
LEMMA SumOnSetAtMost ==
    ASSUME NEW f, NEW g, NEW S, IsFiniteSet(S),
           \A x \in S : f[x] \in Int /\ g[x] \in Int /\ f[x] <= g[x]
    PROVE  SumFunctionOnSet(f, S) <= SumFunctionOnSet(g, S)
<1> DEFINE Bad == {T \in SUBSET S : ~(SumFunctionOnSet(f, T) <= SumFunctionOnSet(g, T))}
<1> SUFFICES ASSUME Bad # {} PROVE FALSE
  OBVIOUS
<1>1. PICK T \in Bad : \A U \in Bad : U \subseteq T => U = T
  <2>1. Bad \in SUBSET (SUBSET S)
    OBVIOUS
  <2> HIDE DEF Bad
  <2> QED BY <2>1, SmallestSubset
<1>2. IsFiniteSet(T) /\ IsFiniteSet(T \ {Chosen(T)})
  BY FS_Subset
<1>3. T # {} => /\ Chosen(T) \in T
                /\ T \ {Chosen(T)} \notin Bad
  BY <1>1, ChosenIn
<1>4. /\ SumFunctionOnSet(f, T \ {Chosen(T)}) \in Int
      /\ SumFunctionOnSet(g, T \ {Chosen(T)}) \in Int
  BY <1>2, SumOnSetType
<1>5. /\ SumFunctionOnSet(f, T) = IF T = {} THEN 0
             ELSE f[Chosen(T)] + SumFunctionOnSet(f, T \ {Chosen(T)})
      /\ SumFunctionOnSet(g, T) = IF T = {} THEN 0
             ELSE g[Chosen(T)] + SumFunctionOnSet(g, T \ {Chosen(T)})
  BY <1>2, SumStep
<1>6. ~(SumFunctionOnSet(f, T) <= SumFunctionOnSet(g, T))
  OBVIOUS
<1> QED
  BY <1>3, <1>4, <1>5, <1>6

\* The same for the sum of a whole function.
LEMMA SumType ==
    ASSUME NEW S, IsFiniteSet(S), NEW f \in [S -> Int]
    PROVE  /\ SumFunction(f) \in Int
           /\ (\A x \in S : f[x] >= 0) => SumFunction(f) >= 0
BY SumOnSetType DEF SumFunction

\* Nothing sums to zero.
LEMMA SumNone == ASSUME NEW f, DOMAIN f = {} PROVE SumFunction(f) = 0
BY SumStep, FS_EmptySet DEF SumFunction

\* The sum of one value is that value.
LEMMA SumOne ==
    ASSUME NEW z, NEW f, DOMAIN f = {z}, f[z] \in Int
    PROVE  SumFunction(f) = f[z]
<1>1. IsFiniteSet({z})
  BY FS_Singleton
<1>2. SumFunctionOnSet(f, {}) = 0
  BY SumStep, FS_EmptySet
<1>3. Chosen({z}) = z
  BY ChosenIn
<1>4. {z} \ {z} = {}
  OBVIOUS
<1>5. SumFunctionOnSet(f, {z}) = f[z] + SumFunctionOnSet(f, {})
  BY <1>1, <1>3, <1>4, SumStep
<1>6. SumFunction(f) = SumFunctionOnSet(f, {z})
  BY DEF SumFunction
<1> QED
  BY <1>2, <1>5, <1>6

\* A function below another has no larger sum.
LEMMA SumAtMost ==
    ASSUME NEW S, IsFiniteSet(S), NEW f \in [S -> Int], NEW g \in [S -> Int],
           \A x \in S : f[x] <= g[x]
    PROVE  SumFunction(f) <= SumFunction(g)
BY SumOnSetAtMost DEF SumFunction

\* A member taken out of a function takes its value out of the sum.
LEMMA SumTake ==
    ASSUME NEW S, IsFiniteSet(S), NEW z \in S, NEW g \in [S -> Int]
    PROVE  SumFunction(g) = SumFunction([x \in S \ {z} |-> g[x]]) + g[z]
<1> DEFINE T == S \ {z}
           f == [x \in T |-> g[x]]
<1>1. /\ IsFiniteSet(T)
      /\ \A x \in T : g[x] \in Int /\ f[x] = g[x]
      /\ g[z] \in Int
      /\ DOMAIN f = T
  BY FS_RemoveElement
<1>2. SumFunctionOnSet(g, S) = g[z] + SumFunctionOnSet(g, T)
  BY SumOnSetRemove
<1> HIDE DEF T, f
<1>3. \A x \in T : g[x] \in Int /\ f[x] \in Int /\ f[x] <= g[x] /\ g[x] <= f[x]
  BY <1>1
<1>4. /\ SumFunctionOnSet(g, T) \in Int /\ SumFunctionOnSet(f, T) \in Int
      /\ SumFunctionOnSet(g, T) <= SumFunctionOnSet(f, T)
      /\ SumFunctionOnSet(f, T) <= SumFunctionOnSet(g, T)
  BY <1>1, <1>3, SumOnSetAtMost, SumOnSetType
<1>5. SumFunction(g) = SumFunctionOnSet(g, S) /\ SumFunction(f) = SumFunctionOnSet(f, T)
  BY <1>1 DEF SumFunction
<1>6. SumFunction(g) = SumFunction(f) + g[z]
  BY <1>1, <1>2, <1>4, <1>5
<1> QED
  BY <1>6 DEF f, T

\* A changed member moves the sum by the difference.
LEMMA SumChange ==
    ASSUME NEW S, IsFiniteSet(S), NEW f \in [S -> Int], NEW g \in [S -> Int], NEW z \in S,
           \A x \in S \ {z} : f[x] = g[x]
    PROVE  SumFunction(g) = SumFunction(f) + g[z] - f[z]
<1> DEFINE h == [x \in S \ {z} |-> f[x]]
<1>1. h = [x \in S \ {z} |-> g[x]] /\ h \in [S \ {z} -> Int]
  OBVIOUS
<1>2. IsFiniteSet(S \ {z})
  BY FS_RemoveElement
<1>3. SumFunction(f) = SumFunction(h) + f[z]
  BY SumTake
<1> HIDE DEF h
<1>4. SumFunction(g) = SumFunction(h) + g[z]
  BY <1>1, SumTake
<1>5. SumFunction(h) \in Int /\ f[z] \in Int /\ g[z] \in Int
  BY <1>1, <1>2, SumType
<1> QED
  BY <1>3, <1>4, <1>5

\* No member of a sum of natural numbers exceeds it.
LEMMA SumMember ==
    ASSUME NEW S, IsFiniteSet(S), NEW f \in [S -> Nat], NEW z \in S
    PROVE  SumFunction(f) >= f[z]
<1> DEFINE g == [f EXCEPT ![z] = 0]
<1>1. /\ g \in [S -> Int] /\ f \in [S -> Int]
      /\ \A x \in S : g[x] >= 0
      /\ \A x \in S \ {z} : g[x] = f[x]
      /\ g[z] = 0
  OBVIOUS
<1> HIDE DEF g
<1>2. SumFunction(f) = SumFunction(g) + f[z] - g[z]
  BY <1>1, SumChange
<1>3. SumFunction(g) \in Int /\ SumFunction(g) >= 0
  BY <1>1, SumType
<1> QED
  BY <1>1, <1>2, <1>3

(***************************************************************************)
(* Helpers.                                                                *)
(***************************************************************************)
Balances == [Accounts \X Assets -> Nat]
Allowances == [Grants \X Assets -> Nat]
Supplies == [Assets -> SupplyRecord]

\* balance.go: a credit keeps every balance a natural number.
LEMMA IncBalanceType ==
    ASSUME NEW b \in Balances, NEW u \in Accounts, NEW a \in Assets, NEW amt \in Nat
    PROVE  IncBalance(b, u, a, amt) \in Balances
BY DEF Balances, IncBalance

\* balance.go: so does a debit that DecBalance's check let through.
LEMMA DecBalanceType ==
    ASSUME NEW b \in Balances, NEW u \in Accounts, NEW a \in Assets, NEW amt \in Nat,
           b[<<u, a>>] >= amt
    PROVE  DecBalance(b, u, a, amt) \in Balances
BY DEF Balances, DecBalance

\* An owner and a spender, joined, name an allowance.
LEMMA GrantIn ==
    ASSUME NEW o \in Accounts, NEW s \in Accounts
    PROVE  o \o s \in Grants
BY DEF Grants

\* balance.go: GetAllowance returns a natural number.
LEMMA GetAllowanceType ==
    ASSUME allow \in Allowances, NEW o \in Accounts, NEW s \in Accounts, NEW a \in Assets
    PROVE  GetAllowance(o, s, a) \in Nat
BY GrantIn DEF Allowances, GetAllowance

\* balance.go: SetAllowance keeps allowances natural numbers.
LEMMA SetAllowanceType ==
    ASSUME allow \in Allowances, NEW o \in Accounts, NEW s \in Accounts, NEW a \in Assets,
           NEW amt \in Nat
    PROVE  SetAllowance(o, s, a, amt) \in Allowances
BY DEF Allowances, SetAllowance

\* The product of a gas limit and a fee cap is a natural number.
LEMMA ProductType == ASSUME NEW x \in Nat, NEW y \in Nat PROVE x * y \in Nat
OBVIOUS

\* supply.go: a withdrawal within the totals keeps them natural numbers.
LEMMA TrackWithdrawalType ==
    ASSUME supply \in Supplies, NEW a \in Assets, NEW amt \in Nat, CanTrack(a, amt)
    PROVE  TrackWithdrawal(a, amt) \in Supplies
BY DEF Supplies, SupplyRecord, CanTrack, TrackWithdrawal

\* supply.go: so does a refund.
LEMMA RestoreSupplyType ==
    ASSUME supply \in Supplies, NEW a \in Assets, NEW amt \in Nat
    PROVE  RestoreSupply(a, amt) \in Supplies
BY DEF Supplies, SupplyRecord, RestoreSupply

(***************************************************************************)
(* Handlers.                                                               *)
(***************************************************************************)
\* The ledger handlers keep the ledger's types (a debit is checked first).
LEMMA UserOpType == ASSUME LedgerTypeOK, UserOp PROVE LedgerTypeOK'
<1>1. /\ bal \in Balances
      /\ allow \in Allowances
      /\ supply \in Supplies
      /\ reserve \in Nat
      /\ paused \in BOOLEAN
  BY DEF LedgerTypeOK, Balances, Allowances, Supplies
<1>2. PICK c \in Callers, p \in Parts, a \in Assets, amt \in Amounts :
         \/ \E to \in Accounts : Transfer(c, to, p, a, amt)
         \/ \E from, to \in Accounts : TransferFrom(c, from, to, p, a, amt)
         \/ \E s \in Spenders : Approve(c, p, s, a, amt)
         \/ \E s \in Spenders : Approve(c, p, s, a, 0)
         \/ \E s \in Spenders : IncreaseAllowance(c, p, s, a, amt)
         \/ \E s \in Spenders : DecreaseAllowance(c, p, s, a, amt)
  BY DEF UserOp
<1>3. amt \in Nat /\ Spenders \subseteq Accounts
  BY LedgerAssumption
<1>4. SUFFICES /\ bal' \in Balances
               /\ allow' \in Allowances
               /\ supply' = supply
               /\ reserve' = reserve
               /\ paused' = paused
  BY <1>1 DEF LedgerTypeOK, Balances, Allowances, Supplies
<1>5. CASE \E to \in Accounts : Transfer(c, to, p, a, amt)
  <2>1. PICK to \in Accounts : Transfer(c, to, p, a, amt)
    BY <1>5
  <2>2. DecBalance(bal, c \o p, a, amt) \in Balances
    BY <1>1, <1>3, <2>1, DecBalanceType DEF Transfer, CanDebit
  <2>3. bal' \in Balances
    BY <1>3, <2>1, <2>2, IncBalanceType DEF Transfer
  <2>4. QED
    BY <1>1, <2>1, <2>3 DEF Transfer
<1>6. CASE \E from, to \in Accounts : TransferFrom(c, from, to, p, a, amt)
  <2>1. PICK from \in Accounts, to \in Accounts : TransferFrom(c, from, to, p, a, amt)
    BY <1>6
  <2>2. DecBalance(bal, from \o p, a, amt) \in Balances
    BY <1>1, <1>3, <2>1, DecBalanceType DEF TransferFrom, CanDebit
  <2>3. bal' \in Balances
    BY <1>3, <2>1, <2>2, IncBalanceType DEF TransferFrom
  <2>4. GetAllowance(from, c \o p, a) - amt \in Nat
    BY <1>1, <1>3, <2>1, GetAllowanceType DEF TransferFrom
  <2>5. allow' \in Allowances
    BY <1>1, <1>3, <2>1, <2>4, SetAllowanceType DEF TransferFrom, SpendAllowance
  <2>6. QED
    BY <2>1, <2>3, <2>5 DEF TransferFrom
<1>7. ASSUME c \o p \in Accounts, NEW s \in Spenders, NEW v \in Nat,
             allow' = SetAllowance(c \o p, s, a, v)
      PROVE  allow' \in Allowances
  BY <1>1, <1>3, <1>7, SetAllowanceType
<1>8. CASE \E s \in Spenders : Approve(c, p, s, a, amt)
  BY <1>1, <1>3, <1>7, <1>8 DEF Approve
<1>9. CASE \E s \in Spenders : Approve(c, p, s, a, 0)
  BY <1>1, <1>7, <1>9 DEF Approve
<1>10. ASSUME c \o p \in Accounts, NEW s \in Spenders
       PROVE  /\ GetAllowance(c \o p, s, a) + amt \in Nat
              /\ Floor0(GetAllowance(c \o p, s, a) - amt) \in Nat
  <2>1. GetAllowance(c \o p, s, a) \in Nat
    BY <1>1, <1>3, <1>10, GetAllowanceType
  <2> QED
    BY <1>3, <2>1 DEF Floor0
<1>11. CASE \E s \in Spenders : IncreaseAllowance(c, p, s, a, amt)
  BY <1>1, <1>7, <1>10, <1>11 DEF IncreaseAllowance
<1>12. CASE \E s \in Spenders : DecreaseAllowance(c, p, s, a, amt)
  BY <1>1, <1>7, <1>10, <1>12 DEF DecreaseAllowance
<1>13. QED
  BY <1>2, <1>5, <1>6, <1>8, <1>9, <1>11, <1>12

(***************************************************************************)
(* The ledger handlers move an amount between two accounts, or no balance. *)
(***************************************************************************)
Moves(u, v, a, amt) == bal' = IncBalance(DecBalance(bal, u, a, amt), v, a, amt)

\* Every handler does one or the other, and leaves the supply and the reserve alone.
LEMMA UserOpMoves ==
    ASSUME LedgerTypeOK, UserOp
    PROVE  /\ UNCHANGED <<supply, reserve>>
           /\ \/ UNCHANGED bal
              \/ \E u \in Accounts, v \in Accounts, a \in Assets :
                     \E amt \in 1..bal[<<u, a>>] : Moves(u, v, a, amt)
<1>1. PICK c \in Callers, p \in Parts, a \in Assets, amt \in Amounts :
         \/ \E to \in Accounts : Transfer(c, to, p, a, amt)
         \/ \E from, to \in Accounts : TransferFrom(c, from, to, p, a, amt)
         \/ \E s \in Spenders : Approve(c, p, s, a, amt)
         \/ \E s \in Spenders : Approve(c, p, s, a, 0)
         \/ \E s \in Spenders : IncreaseAllowance(c, p, s, a, amt)
         \/ \E s \in Spenders : DecreaseAllowance(c, p, s, a, amt)
  BY DEF UserOp
<1>2. amt \in Nat \ {0}
  BY LedgerAssumption
<1>3. ASSUME NEW u \in Accounts, CanDebit(u, a, amt)
      PROVE  amt \in 1..bal[<<u, a>>]
  BY <1>2, <1>3 DEF CanDebit, LedgerTypeOK
<1>4. CASE \E to \in Accounts : Transfer(c, to, p, a, amt)
  BY <1>3, <1>4 DEF Transfer, Moves
<1>5. CASE \E from, to \in Accounts : TransferFrom(c, from, to, p, a, amt)
  BY <1>3, <1>5 DEF TransferFrom, Moves
<1>6. CASE \E s \in Spenders : \/ Approve(c, p, s, a, amt)
                               \/ Approve(c, p, s, a, 0)
                               \/ IncreaseAllowance(c, p, s, a, amt)
                               \/ DecreaseAllowance(c, p, s, a, amt)
  <2>1. PICK s \in Spenders : \/ Approve(c, p, s, a, amt)
                              \/ Approve(c, p, s, a, 0)
                              \/ IncreaseAllowance(c, p, s, a, amt)
                              \/ DecreaseAllowance(c, p, s, a, amt)
    BY <1>6
  <2> QED
    BY <2>1 DEF Approve, IncreaseAllowance, DecreaseAllowance
<1> QED
  BY <1>1, <1>4, <1>5, <1>6

(***************************************************************************)
(* The total of an asset over all accounts.                                *)
(***************************************************************************)
Total(b, a) == SumFunction([u \in Accounts |-> b[<<u, a>>]])

\* The total is a natural number that no balance exceeds.
LEMMA TotalType ==
    ASSUME NEW b \in Balances, NEW a \in Assets
    PROVE  /\ Total(b, a) \in Nat
           /\ \A u \in Accounts : b[<<u, a>>] \in Nat /\ b[<<u, a>>] <= Total(b, a)
<1> DEFINE f == [u \in Accounts |-> b[<<u, a>>]]
<1>1. /\ f \in [Accounts -> Nat]
      /\ f \in [Accounts -> Int]
      /\ \A u \in Accounts : f[u] = b[<<u, a>>] /\ f[u] \in Nat /\ f[u] >= 0
  BY DEF Balances
<1>2. Total(b, a) = SumFunction(f)
  BY DEF Total
<1> HIDE DEF f
<1>3. SumFunction(f) \in Int /\ SumFunction(f) >= 0
  BY <1>1, FiniteAccounts, SumType
<1>4. \A u \in Accounts : SumFunction(f) >= f[u]
  BY <1>1, FiniteAccounts, SumMember
<1> QED
  BY <1>1, <1>2, <1>3, <1>4

\* One changed balance moves the total of its asset, and no other, as far.
LEMMA TotalChange ==
    ASSUME NEW b \in Balances, NEW c \in Balances, NEW u \in Accounts, NEW a \in Assets,
           \A v \in Accounts, x \in Assets : v # u \/ x # a => c[<<v, x>>] = b[<<v, x>>]
    PROVE  /\ Total(c, a) = Total(b, a) + c[<<u, a>>] - b[<<u, a>>]
           /\ \A x \in Assets \ {a} : Total(c, x) = Total(b, x)
<1> DEFINE f == [v \in Accounts |-> b[<<v, a>>]]
           g == [v \in Accounts |-> c[<<v, a>>]]
<1>1. /\ f \in [Accounts -> Int] /\ g \in [Accounts -> Int]
      /\ \A v \in Accounts \ {u} : f[v] = g[v]
      /\ f[u] = b[<<u, a>>] /\ g[u] = c[<<u, a>>]
  BY DEF Balances
<1>2. Total(b, a) = SumFunction(f) /\ Total(c, a) = SumFunction(g)
  BY DEF Total
<1> HIDE DEF f, g
<1>3. SumFunction(g) = SumFunction(f) + g[u] - f[u]
  BY <1>1, FiniteAccounts, SumChange
<1>4. ASSUME NEW x \in Assets \ {a} PROVE Total(c, x) = Total(b, x)
  <2>1. [v \in Accounts |-> c[<<v, x>>]] = [v \in Accounts |-> b[<<v, x>>]]
    OBVIOUS
  <2> QED
    BY <2>1 DEF Total
<1> QED
  BY <1>1, <1>2, <1>3, <1>4

\* balance.go: a credit raises the total of its asset by the amount.
LEMMA TotalCredit ==
    ASSUME NEW b \in Balances, NEW u \in Accounts, NEW a \in Assets, NEW amt \in Nat
    PROVE  /\ IncBalance(b, u, a, amt) \in Balances
           /\ \A x \in Assets :
                 Total(IncBalance(b, u, a, amt), x) = Total(b, x) + (IF x = a THEN amt ELSE 0)
<1> DEFINE c == IncBalance(b, u, a, amt)
<1>1. /\ c \in Balances
      /\ c[<<u, a>>] = b[<<u, a>>] + amt
      /\ \A v \in Accounts, x \in Assets : v # u \/ x # a => c[<<v, x>>] = b[<<v, x>>]
  BY IncBalanceType DEF IncBalance, Balances
<1>2. \A x \in Assets : Total(b, x) \in Nat
  BY TotalType
<1>3. b[<<u, a>>] \in Nat
  BY TotalType
<1> HIDE DEF c
<1>4. /\ Total(c, a) = Total(b, a) + c[<<u, a>>] - b[<<u, a>>]
      /\ \A x \in Assets \ {a} : Total(c, x) = Total(b, x)
  BY <1>1, TotalChange
<1>5. \A x \in Assets : Total(c, x) = Total(b, x) + (IF x = a THEN amt ELSE 0)
  BY <1>1, <1>2, <1>3, <1>4
<1> QED
  BY <1>1, <1>5 DEF c

\* balance.go: a debit lowers it by the amount.
LEMMA TotalDebit ==
    ASSUME NEW b \in Balances, NEW u \in Accounts, NEW a \in Assets, NEW amt \in Nat,
           b[<<u, a>>] >= amt
    PROVE  /\ DecBalance(b, u, a, amt) \in Balances
           /\ \A x \in Assets :
                 Total(DecBalance(b, u, a, amt), x) = Total(b, x) - (IF x = a THEN amt ELSE 0)
<1> DEFINE c == DecBalance(b, u, a, amt)
<1>1. /\ c \in Balances
      /\ c[<<u, a>>] = b[<<u, a>>] - amt
      /\ \A v \in Accounts, x \in Assets : v # u \/ x # a => c[<<v, x>>] = b[<<v, x>>]
  BY DecBalanceType DEF DecBalance, Balances
<1>2. \A x \in Assets : Total(b, x) \in Nat
  BY TotalType
<1>3. b[<<u, a>>] \in Nat
  BY TotalType
<1> HIDE DEF c
<1>4. /\ Total(c, a) = Total(b, a) + c[<<u, a>>] - b[<<u, a>>]
      /\ \A x \in Assets \ {a} : Total(c, x) = Total(b, x)
  BY <1>1, TotalChange
<1>5. \A x \in Assets : Total(c, x) = Total(b, x) - (IF x = a THEN amt ELSE 0)
  BY <1>1, <1>2, <1>3, <1>4
<1> QED
  BY <1>1, <1>5 DEF c

\* transfer, transferFrom: a move leaves every total as it was.
LEMMA TotalMove ==
    ASSUME bal \in Balances, NEW u \in Accounts, NEW v \in Accounts, NEW a \in Assets,
           NEW amt \in 1..bal[<<u, a>>], Moves(u, v, a, amt)
    PROVE  \A x \in Assets : Total(bal', x) = Total(bal, x)
<1> DEFINE c == DecBalance(bal, u, a, amt)
<1>1. amt \in Nat /\ bal[<<u, a>>] >= amt
  BY DEF Balances
<1>2. c \in Balances /\ \A x \in Assets : Total(c, x) = Total(bal, x) - (IF x = a THEN amt ELSE 0)
  BY <1>1, TotalDebit
<1>3. bal' = IncBalance(c, v, a, amt)
  BY DEF Moves
<1> HIDE DEF c
<1>4. \A x \in Assets : Total(bal', x) = Total(c, x) + (IF x = a THEN amt ELSE 0)
  BY <1>1, <1>2, <1>3, TotalCredit
<1>5. \A x \in Assets : Total(bal, x) \in Nat
  BY TotalType
<1> QED
  BY <1>1, <1>2, <1>4, <1>5
=============================================================================
