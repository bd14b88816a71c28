-------------------------- MODULE Encodings_proofs --------------------------
(***************************************************************************)
(* The encodings, for every block of L1, every proof submitted for it and  *)
(* every size of the code's strings: what the contract accepts as a        *)
(* deposit is one, and a withdrawal is read back as it was signed.  And    *)
(* the pure functions of contract/mapping/balance.go, for every width of   *)
(* an unsigned integer and for names of every length.                      *)
(*                                                                         *)
(* From the bytes up: numbers and their bytes, trie keys and paths, nodes  *)
(* of a trie, the contract's walk through a proof, what it reads of a      *)
(* transaction or a receipt, and what it accepts.                          *)
(***************************************************************************)
EXTENDS Evidence, GasFee, StateKeys, SequenceTheorems, FiniteSetTheorems, TLAPS

(***************************************************************************)
(* safeGasFee.                                                             *)
(***************************************************************************)
\* A number below the width does not wrap, and one below twice or three times
\* the width wraps once or twice: no product or sum of safeGasFee is larger.
LEMMA WrapsUpTo ==
    ASSUME NEW x \in Nat
    PROVE  LET W == MaxUint64 + 1
           IN  /\ x < W => Wrap(x) = x
               /\ W <= x /\ x < 2 * W => Wrap(x) = x - W
               /\ 2 * W <= x /\ x < 3 * W => Wrap(x) = x - 2 * W
  <1>. DEFINE W == MaxUint64 + 1
  <1>1. W \in Nat \ {0}
    BY GasFeeAssumption
  <1>. HIDE DEF W
  <1>2. /\ x < W => x % W = x
        /\ W <= x /\ x < 2 * W => x % W = x - W
        /\ 2 * W <= x /\ x < 3 * W => x % W = x - 2 * W
    BY <1>1
  <1>. QED
    BY <1>2 DEF Wrap, W

\* The division of the product gives the base fee back exactly if the product
\* did not wrap.
LEMMA ProductCheck ==
    ASSUME NEW base \in Uint64, NEW multiplier \in Multipliers
    PROVE  /\ Wrap(base * multiplier) \in Nat
           /\ base * multiplier <= MaxUint64 =>
                  /\ Wrap(base * multiplier) = base * multiplier
                  /\ Wrap(base * multiplier) \div multiplier = base
           /\ base * multiplier > MaxUint64 =>
                  /\ base # 0
                  /\ Wrap(base * multiplier) \div multiplier # base
  <1>1. MaxUint64 \in Nat /\ base \in Nat /\ base <= MaxUint64
    BY GasFeeAssumption DEF Uint64
  <1>2. CASE multiplier = 2
    <2>1. 2 * base \in Nat /\ 2 * base < 2 * (MaxUint64 + 1)
      BY <1>1
    <2>2. IF 2 * base <= MaxUint64 THEN Wrap(2 * base) = 2 * base
          ELSE Wrap(2 * base) = 2 * base - (MaxUint64 + 1)
      BY <1>1, <2>1, WrapsUpTo
    <2>3. Wrap(2 * base) \in Nat /\ base * 2 = 2 * base
      BY <1>1, <2>1, <2>2
    <2>. QED
      BY <1>1, <1>2, <2>2, <2>3
  <1>3. CASE multiplier = 3
    <2>1. 3 * base \in Nat /\ 3 * base < 3 * (MaxUint64 + 1)
      BY <1>1
    <2>2. \/ 3 * base <= MaxUint64 /\ Wrap(3 * base) = 3 * base
          \/ /\ MaxUint64 + 1 <= 3 * base /\ 3 * base < 2 * (MaxUint64 + 1)
             /\ Wrap(3 * base) = 3 * base - (MaxUint64 + 1)
          \/ /\ 2 * (MaxUint64 + 1) <= 3 * base
             /\ Wrap(3 * base) = 3 * base - 2 * (MaxUint64 + 1)
      BY <1>1, <2>1, WrapsUpTo
    <2>3. Wrap(3 * base) \in Nat /\ base * 3 = 3 * base
      BY <1>1, <2>1, <2>2
    <2>. QED
      BY <1>1, <1>3, <2>2, <2>3
  <1>. QED
    BY <1>2, <1>3 DEF Multipliers

\* A sum of two uint64 that wraps is below either of them.
LEMMA SumCheck ==
    ASSUME NEW scaled \in Nat, NEW tip \in Nat, scaled <= MaxUint64, tip <= MaxUint64,
           ~(scaled + tip <= MaxUint64)
    PROVE  Wrap(scaled + tip) < scaled
  <1>1. MaxUint64 + 1 <= scaled + tip /\ scaled + tip < 2 * (MaxUint64 + 1)
        /\ scaled + tip \in Nat
    BY GasFeeAssumption
  <1>2. Wrap(scaled + tip) = scaled + tip - (MaxUint64 + 1)
    BY <1>1, WrapsUpTo, GasFeeAssumption
  <1>. QED
    BY <1>2, GasFeeAssumption

\* safeGasFee prices every input whose price is a uint64 exactly, and refuses
\* every other.
LEMMA PricedOrRefused ==
    ASSUME NEW units \in Uint64, NEW base \in Uint64, NEW tip \in Uint64,
           NEW multiplier \in Multipliers
    PROVE  safeGasFee(units, base, multiplier, tip) =
               IF Price(base, multiplier, tip) <= MaxUint64
               THEN [ok |-> TRUE, cap |-> Price(base, multiplier, tip),
                     fee |-> units * Price(base, multiplier, tip)]
               ELSE Overflow
  <1>. DEFINE scaled == Wrap(base * multiplier)
  <1>1. MaxUint64 \in Nat /\ base \in Nat /\ tip \in Nat /\ tip <= MaxUint64
        /\ multiplier \in Nat \ {0} /\ base * multiplier \in Nat
    BY GasFeeAssumption DEF Uint64, Multipliers
  <1>2. CASE base * multiplier > MaxUint64
    <2>1. base # 0 /\ multiplier # 0 /\ scaled \div multiplier # base
      BY <1>1, <1>2, ProductCheck
    <2>2. ~(Price(base, multiplier, tip) <= MaxUint64)
      BY <1>1, <1>2 DEF Price
    <2>. QED
      BY <2>1, <2>2 DEF safeGasFee
  <1>3. CASE base * multiplier <= MaxUint64
    <2>1. scaled = base * multiplier /\ scaled \div multiplier = base
      BY <1>3, ProductCheck
    <2>2. scaled + tip \in Nat /\ scaled + tip < 2 * (MaxUint64 + 1)
          /\ scaled + tip = Price(base, multiplier, tip)
      BY <1>1, <1>3, <2>1 DEF Price
    <2>3. CASE scaled + tip <= MaxUint64
      <3>1. Wrap(scaled + tip) = scaled + tip /\ ~(Wrap(scaled + tip) < scaled)
        <4>1. Wrap(scaled + tip) = scaled + tip
          BY <1>1, <2>2, <2>3, WrapsUpTo
        <4>. QED
          BY <1>1, <2>1, <4>1
      <3>. QED
        BY <2>1, <2>2, <2>3, <3>1 DEF safeGasFee
    <2>4. CASE ~(scaled + tip <= MaxUint64)
      <3>1. Wrap(scaled + tip) < scaled
        BY <1>1, <1>3, <2>1, <2>2, <2>4, SumCheck
      <3>. QED
        BY <2>1, <2>2, <2>4, <3>1 DEF safeGasFee
    <2>. QED
      BY <2>3, <2>4
  <1>. QED
    BY <1>1, <1>2, <1>3

\* Whatever safeGasFee is called with, the price is exact or refused: no
\* withdrawal is signed for less gas than its reserve assumed.
THEOREM FeeCapIsExact == call \in Calls => FeeCapExact
  BY PricedOrRefused DEF Calls, FeeCapExact

(***************************************************************************)
(* balanceKey and allowanceKey.                                            *)
(***************************************************************************)
\* Two names with a delimiter between them.
Dashed(x, a) == x \o (<<Dash>> \o a)

\* Names are sequences of characters, symbols of letters.
LEMMA NamesAreSequences ==
    /\ Names \subseteq Seq(Chars)
    /\ \A a \in Symbols : a \in Seq(Chars) /\ \A i \in 1..Len(a) : a[i] \in Letters
    /\ \A x \in Accounts :
           /\ x \in Seq(Chars)
           /\ Len(x) >= 1
           /\ x[1] \in Domains
           /\ \A i \in 2..Len(x) : x[i] \notin Domains
  <1>1. Names \subseteq Seq(Chars)
    BY SeqDef, StateKeysAssumption DEF Names
  <1>2. ASSUME NEW x \in Seq(Chars)
        PROVE  DOMAIN x = 1..Len(x) /\ Len(x) \in Nat /\ (x # << >> => Len(x) >= 1)
    BY LenProperties, EmptySeq
  <1>. QED
    BY <1>1, <1>2 DEF Symbols, Accounts

\* The characters of two names joined with a delimiter, and of the second part.
LEMMA JoinedCharacters ==
    ASSUME NEW x \in Seq(Chars), NEW a \in Seq(Chars)
    PROVE  LET joined == Dashed(x, a)
           IN  /\ joined \in Seq(Chars)
               /\ Len(joined) = Len(x) + 1 + Len(a)
               /\ \A i \in 1..Len(x) : joined[i] = x[i]
               /\ joined[Len(x) + 1] = Dash
               /\ \A i \in Len(x) + 2..Len(joined) : joined[i] = a[i - Len(x) - 1]
  <1>. DEFINE tail == <<Dash>> \o a
              joined == x \o tail
  <1>1. <<Dash>> \in Seq(Chars) /\ Len(<<Dash>>) = 1 /\ <<Dash>>[1] = Dash
    BY DEF Chars
  <1>2. Len(x) \in Nat /\ Len(a) \in Nat
    BY LenProperties
  <1>3. /\ tail \in Seq(Chars)
        /\ Len(tail) = 1 + Len(a)
        /\ tail[1] = Dash
        /\ \A i \in 2..1 + Len(a) : tail[i] = a[i - 1]
    BY <1>1, <1>2, ConcatProperties
  <1>. HIDE DEF tail
  <1>4. /\ joined \in Seq(Chars)
        /\ Len(joined) = Len(x) + Len(tail)
        /\ \A i \in 1..Len(x) + Len(tail) :
               joined[i] = IF i <= Len(x) THEN x[i] ELSE tail[i - Len(x)]
    BY <1>3, ConcatProperties DEF Dashed, tail
  <1>. HIDE DEF joined
  <1>5. /\ Len(joined) = Len(x) + 1 + Len(a)
        /\ \A i \in 1..Len(x) : joined[i] = x[i]
    BY <1>2, <1>3, <1>4
  <1>6. joined[Len(x) + 1] = Dash
    BY <1>2, <1>3, <1>4
  <1>7. \A i \in Len(x) + 2..Len(joined) : joined[i] = a[i - Len(x) - 1]
    <2>. TAKE i \in Len(x) + 2..Len(joined)
    <2>1. joined[i] = tail[i - Len(x)]
      BY <1>2, <1>3, <1>4, <1>5
    <2>2. tail[i - Len(x)] = a[i - Len(x) - 1]
      <3>. DEFINE k == i - Len(x)
      <3>1. k \in 2..1 + Len(a)
        BY <1>2, <1>5
      <3>. HIDE DEF k
      <3>2. tail[k] = a[k - 1]
        BY <1>3, <3>1
      <3>. QED
        BY <3>2 DEF k
    <2>. QED
      BY <2>1, <2>2
  <1>. QED
    BY <1>4, <1>5, <1>6, <1>7 DEF Dashed, joined, tail

\* The prefix of a key is cancelled.
LEMMA CancelPrefix ==
    ASSUME NEW kind, NEW x \in Seq(Chars), NEW y \in Seq(Chars),
           <<kind, Dash>> \o x = <<kind, Dash>> \o y
    PROVE  x = y
  <1>. DEFINE S == Chars \cup {kind}
  <1>1. x \in Seq(S) /\ y \in Seq(S)
    BY SeqMonotonic, Chars \subseteq S
  <1>2. <<kind, Dash>> \in Seq(S)
    BY DEF Chars
  <1>. HIDE DEF S
  <1>. QED
    BY <1>1, <1>2, ConcatSimplifications

\* Joined names of which the first parts have one length have the same parts.
LEMMA SameLengthSameParts ==
    ASSUME NEW x \in Seq(Chars), NEW y \in Seq(Chars),
           NEW a \in Seq(Chars), NEW b \in Seq(Chars),
           Dashed(x, a) = Dashed(y, b),
           Len(x) = Len(y)
    PROVE  x = y /\ a = b
  <1>1. x = y
    <2>1. \A i \in 1..Len(x) : x[i] = y[i]
      <3>1. \A i \in 1..Len(x) : Dashed(x, a)[i] = x[i]
        BY JoinedCharacters
      <3>2. \A i \in 1..Len(y) : Dashed(y, b)[i] = y[i]
        BY JoinedCharacters
      <3>. QED
        BY <3>1, <3>2
    <2>. QED
      BY <2>1, SeqEqual
  <1>2. <<Dash>> \in Seq(Chars)
    BY DEF Chars
  <1>3. <<Dash>> \o a \in Seq(Chars) /\ <<Dash>> \o b \in Seq(Chars)
    BY <1>2, ConcatProperties
  <1>4. <<Dash>> \o a = <<Dash>> \o b
    BY <1>1, <1>3, ConcatSimplifications DEF Dashed
  <1>. QED
    BY <1>1, <1>2, <1>4, ConcatSimplifications

\* The last delimiter is the one before the symbol.
LEMMA SymbolCannotReachBack ==
    ASSUME NEW x \in Seq(Chars), NEW y \in Seq(Chars),
           NEW a \in Symbols, NEW b \in Seq(Chars),
           Dashed(x, a) = Dashed(y, b)
    PROVE  ~(Len(x) < Len(y))
  <1>. SUFFICES ASSUME Len(x) < Len(y)
                PROVE  FALSE
    OBVIOUS
  <1>1. a \in Seq(Chars) /\ \A i \in 1..Len(a) : a[i] \in Letters
    BY NamesAreSequences
  <1>2. Len(x) \in Nat /\ Len(y) \in Nat /\ Len(a) \in Nat /\ Len(b) \in Nat
    BY <1>1, LenProperties
  <1>. DEFINE joined == Dashed(x, a)
  <1>3. /\ Len(joined) = Len(x) + 1 + Len(a)
        /\ Len(joined) = Len(y) + 1 + Len(b)
        /\ joined[Len(y) + 1] = Dash
        /\ \A i \in Len(x) + 2..Len(joined) : joined[i] = a[i - Len(x) - 1]
    BY <1>1, JoinedCharacters
  <1>. HIDE DEF joined
  <1>4. Len(y) + 1 \in Len(x) + 2..Len(joined) /\ (Len(y) + 1) - Len(x) - 1 \in 1..Len(a)
    BY <1>2, <1>3
  <1>5. Dash \in Letters
    BY <1>1, <1>3, <1>4
  <1>. QED
    BY <1>5, StateKeysAssumption

\* Nor can an owner reach over the delimiter: a spender begins with a domain.
LEMMA OwnerCannotReachOver ==
    ASSUME NEW o \in Accounts, NEW p \in Accounts, NEW s \in Accounts,
           NEW a \in Seq(Chars), NEW v \in Seq(Chars),
           Dashed(o, Dashed(s, a)) = Dashed(p, v)
    PROVE  ~(Len(o) < Len(p))
  <1>. SUFFICES ASSUME Len(o) < Len(p)
                PROVE  FALSE
    OBVIOUS
  <1>. DEFINE u == Dashed(s, a)
              joined == Dashed(o, u)
              at == Len(o) + 2
  <1>1. /\ o \in Seq(Chars) /\ p \in Seq(Chars) /\ s \in Seq(Chars)
        /\ Len(s) >= 1 /\ s[1] \in Domains
        /\ \A i \in 2..Len(p) : p[i] \notin Domains
    BY NamesAreSequences
  <1>2. Len(o) \in Nat /\ Len(p) \in Nat /\ Len(s) \in Nat /\ Len(a) \in Nat /\ Len(v) \in Nat
    BY <1>1, LenProperties
  <1>3. u \in Seq(Chars) /\ Len(u) = Len(s) + 1 + Len(a) /\ u[1] = s[1]
    <2>1. 1 \in 1..Len(s)
      BY <1>1, <1>2
    <2>. QED
      BY <1>1, <2>1, JoinedCharacters
  <1>. HIDE DEF u
  <1>4. /\ Len(joined) = Len(o) + 1 + Len(u)
        /\ \A i \in Len(o) + 2..Len(joined) : joined[i] = u[i - Len(o) - 1]
        /\ \A i \in 1..Len(p) : joined[i] = p[i]
        /\ joined[Len(p) + 1] = Dash
    <2>1. joined = Dashed(p, v)
      BY DEF u
    <2>2. /\ Len(joined) = Len(o) + 1 + Len(u)
          /\ \A i \in Len(o) + 2..Len(joined) : joined[i] = u[i - Len(o) - 1]
      BY <1>1, <1>3, JoinedCharacters
    <2>. DEFINE other == Dashed(p, v)
    <2>3. /\ \A i \in 1..Len(p) : other[i] = p[i]
          /\ other[Len(p) + 1] = Dash
      BY <1>1, JoinedCharacters
    <2>4. joined = other
      BY <2>1
    <2>. HIDE DEF joined, other
    <2>. QED
      BY <2>2, <2>3, <2>4
  <1>. HIDE DEF joined
  <1>5. joined[at] \in Domains
    <2>1. at \in Len(o) + 2..Len(joined) /\ at - Len(o) - 1 = 1
      BY <1>1, <1>2, <1>3, <1>4
    <2>2. joined[at] = u[at - Len(o) - 1]
      BY <1>4, <2>1
    <2>. QED
      BY <1>1, <1>3, <2>1, <2>2
  <1>6. CASE at <= Len(p)
    BY <1>1, <1>2, <1>4, <1>5, <1>6, SMTT(30)
  <1>7. CASE at = Len(p) + 1
    BY <1>4, <1>5, <1>7, StateKeysAssumption
  <1>. QED
    BY <1>2, <1>6, <1>7

\* A name with its first part taken off is a name, character by character.
LEMMA RestOfName ==
    ASSUME NEW u \in Seq(Chars), NEW o \in Seq(Chars)
    PROVE  /\ PartAfter(u, o) \in Seq(Chars)
           /\ Len(u) < Len(o) =>
                  /\ Len(PartAfter(u, o)) = Len(o) - Len(u) - 1
                  /\ \A i \in 1..Len(o) - Len(u) - 1 : PartAfter(u, o)[i] = o[Len(u) + 1 + i]
  <1>. DEFINE m == Len(u) + 2
              n == Len(o)
  <1>1. Len(u) \in Nat /\ Len(o) \in Nat /\ m \in Int /\ n \in Int /\ m >= 1
    BY LenProperties
  <1>2. ASSUME NEW i \in m..n PROVE o[i] \in Chars
    <2>1. i \in 1..Len(o)
      BY <1>1
    <2>. QED
      BY <2>1, LenProperties
  <1>. HIDE DEF m, n
  <1>3. /\ SubSeq(o, m, n) \in Seq(Chars)
        /\ Len(SubSeq(o, m, n)) = IF m <= n THEN n - m + 1 ELSE 0
        /\ \A i \in 1..n - m + 1 : SubSeq(o, m, n)[i] = o[m + i - 1]
    BY <1>1, <1>2, SubSeqProperties
  <1>4. PartAfter(u, o) = SubSeq(o, m, n)
    BY DEF PartAfter, m, n
  <1>. HIDE DEF PartAfter
  <1>5. ASSUME Len(u) < Len(o)
        PROVE  /\ Len(PartAfter(u, o)) = Len(o) - Len(u) - 1
               /\ \A i \in 1..Len(o) - Len(u) - 1 : PartAfter(u, o)[i] = o[Len(u) + 1 + i]
    <2>1. Len(PartAfter(u, o)) = n - m + 1
      BY <1>1, <1>3, <1>4, <1>5 DEF m, n
    <2>2. ASSUME NEW i \in 1..Len(o) - Len(u) - 1
          PROVE  PartAfter(u, o)[i] = o[Len(u) + 1 + i]
      <3>1. i \in 1..n - m + 1 /\ m + i - 1 = Len(u) + 1 + i
        BY <1>1 DEF m, n
      <3>. QED
        BY <1>3, <1>4, <3>1
    <2>. QED
      BY <1>1, <2>1, <2>2 DEF m, n
  <1>. QED
    BY <1>3, <1>4, <1>5

\* Joining does not depend on the order it is done in.
LEMMA Regroup ==
    ASSUME NEW x \in Seq(Chars), NEW r \in Seq(Chars), NEW b \in Seq(Chars)
    PROVE  Dashed(Dashed(x, r), b) = Dashed(x, Dashed(r, b))
  <1>. DEFINE dash == <<Dash>>
  <1>1. dash \in Seq(Chars)
    BY DEF Chars
  <1>. HIDE DEF dash
  <1>2. dash \o r \in Seq(Chars) /\ dash \o b \in Seq(Chars)
    BY <1>1, ConcatProperties
  <1>3. \A s, t, u \in Seq(Chars) : (s \o t) \o u = s \o (t \o u)
    BY ConcatAssociative
  <1>4. /\ (x \o (dash \o r)) \o (dash \o b) = x \o ((dash \o r) \o (dash \o b))
        /\ (dash \o r) \o (dash \o b) = dash \o (r \o (dash \o b))
    BY <1>1, <1>2, <1>3, Zenon
  <1>. QED
    BY <1>4 DEF dash, Dashed

\* Of two joined names that are one text, the longer first part begins with the
\* shorter one and a delimiter, and the rest of it went to the second part.
LEMMA SplitAtDash ==
    ASSUME NEW x \in Seq(Chars), NEW y \in Seq(Chars),
           NEW a \in Seq(Chars), NEW b \in Seq(Chars),
           Dashed(x, a) = Dashed(y, b),
           Len(x) < Len(y)
    PROVE  /\ Begins(x, y)
           /\ PartAfter(x, y) \in Seq(Chars)
           /\ a = Dashed(PartAfter(x, y), b)
  <1>. DEFINE r == PartAfter(x, y)
              joined == Dashed(x, a)
              again == Dashed(x, r)
  <1>1. /\ Len(x) \in Nat /\ Len(y) \in Nat /\ Len(a) \in Nat
        /\ r \in Seq(Chars)
        /\ Len(r) = Len(y) - Len(x) - 1
        /\ \A i \in 1..Len(y) - Len(x) - 1 : r[i] = y[Len(x) + 1 + i]
    BY RestOfName, LenProperties
  <1>. HIDE DEF r
  <1>2. /\ \A i \in 1..Len(x) : joined[i] = x[i]
        /\ joined[Len(x) + 1] = Dash
        /\ \A i \in 1..Len(y) : joined[i] = y[i]
    BY JoinedCharacters
  <1>3. /\ again \in Seq(Chars)
        /\ Len(again) = Len(x) + 1 + Len(r)
        /\ \A i \in 1..Len(x) : again[i] = x[i]
        /\ again[Len(x) + 1] = Dash
        /\ \A i \in Len(x) + 2..Len(again) : again[i] = r[i - Len(x) - 1]
    BY <1>1, JoinedCharacters
  <1>. HIDE DEF joined, again
  <1>4. y = again
    <2>1. Len(y) = Len(again)
      BY <1>1, <1>3
    <2>2. ASSUME NEW i \in 1..Len(y) PROVE y[i] = again[i]
      <3>1. CASE i <= Len(x)
        <4>1. i \in 1..Len(x)
          BY <1>1, <3>1
        <4>. QED
          BY <1>2, <1>3, <4>1
      <3>2. CASE i = Len(x) + 1
        BY <1>2, <1>3, <3>2
      <3>3. CASE i >= Len(x) + 2
        <4>. DEFINE k == i - Len(x) - 1
        <4>1. i \in Len(x) + 2..Len(again) /\ k \in 1..Len(y) - Len(x) - 1 /\ Len(x) + 1 + k = i
          BY <1>1, <2>1, <3>3
        <4>2. again[i] = r[k]
          BY <1>3, <4>1
        <4>. HIDE DEF k
        <4>3. r[k] = y[Len(x) + 1 + k]
          BY <1>1, <4>1
        <4>. QED
          BY <4>1, <4>2, <4>3
      <3>. QED
        BY <1>1, <3>1, <3>2, <3>3
    <2>. QED
      BY <1>3, <2>1, <2>2, SeqEqual
  <1>5. a = Dashed(r, b)
    <2>1. Dashed(r, b) \in Seq(Chars)
      BY <1>1, JoinedCharacters
    <2>2. Dashed(x, a) = Dashed(x, Dashed(r, b))
      BY <1>1, <1>4, Regroup DEF again
    <2>. QED
      BY <2>1, <2>2, SameLengthSameParts
  <1>. QED
    BY <1>1, <1>4, <1>5 DEF Begins, Dashed, again, r

\* A text joined with another is an account joined with a symbol exactly if it
\* reaches it.
LEMMA JoinReaches ==
    ASSUME NEW u \in Seq(Chars), NEW asset \in Seq(Chars),
           NEW o \in Seq(Chars), NEW symbol \in Symbols
    PROVE  Dashed(u, asset) = Dashed(o, symbol)
               <=> Reaches(u, asset, o, symbol)
  <1>1. symbol \in Seq(Chars) /\ Len(u) \in Nat /\ Len(o) \in Nat
    BY NamesAreSequences, LenProperties
  <1>2. ASSUME Dashed(u, asset) = Dashed(o, symbol)
        PROVE  Reaches(u, asset, o, symbol)
    <2>1. CASE Len(u) = Len(o)
      BY <1>1, <1>2, <2>1, SameLengthSameParts DEF Reaches
    <2>2. CASE Len(u) < Len(o)
      <3>1. Begins(u, o) /\ asset = Dashed(PartAfter(u, o), symbol)
        BY <1>1, <1>2, <2>2, SplitAtDash
      <3>. QED
        BY <3>1 DEF Reaches, Dashed
    <2>3. ~(Len(o) < Len(u))
      BY <1>2, SymbolCannotReachBack
    <2>. QED
      BY <1>1, <2>1, <2>2, <2>3
  <1>3. ASSUME Begins(u, o), asset = Dashed(PartAfter(u, o), symbol)
        PROVE  Dashed(u, asset) = Dashed(o, symbol)
    <2>1. PartAfter(u, o) \in Seq(Chars)
      BY RestOfName
    <2>. HIDE DEF PartAfter
    <2>2. o = Dashed(u, PartAfter(u, o))
      BY <1>3 DEF Begins, Dashed
    <2>3. Dashed(o, symbol) = Dashed(Dashed(u, PartAfter(u, o)), symbol)
      BY <2>2
    <2>4. Dashed(Dashed(u, PartAfter(u, o)), symbol)
              = Dashed(u, Dashed(PartAfter(u, o), symbol))
      BY <1>1, <2>1, Regroup
    <2>. QED
      BY <1>3, <2>3, <2>4
  <1>. QED
    BY <1>2, <1>3 DEF Reaches, Dashed

\* A balance's key is made exactly by those who reach it.
LEMMA BalanceKeys ==
    ASSUME NEW u \in Seq(Chars), NEW asset \in Seq(Chars),
           NEW o \in Seq(Chars), NEW symbol \in Symbols
    PROVE  balanceKey(u, asset) = balanceKey(o, symbol) <=> Reaches(u, asset, o, symbol)
  <1>1. symbol \in Seq(Chars)
    BY NamesAreSequences
  <1>2. Dashed(u, asset) \in Seq(Chars) /\ Dashed(o, symbol) \in Seq(Chars)
    BY <1>1, JoinedCharacters
  <1>3. balanceKey(u, asset) = balanceKey(o, symbol)
            <=> Dashed(u, asset) = Dashed(o, symbol)
    BY <1>2, CancelPrefix DEF balanceKey, BalancePrefix, Dashed
  <1>. QED
    BY <1>3, JoinReaches

\* An allowance's key, without its prefix.
LEMMA AllowanceParts ==
    ASSUME NEW o \in Seq(Chars), NEW s \in Seq(Chars), NEW a \in Seq(Chars),
           NEW p \in Seq(Chars), NEW t \in Seq(Chars), NEW b \in Seq(Chars),
           allowanceKey(o, s, a) = allowanceKey(p, t, b)
    PROVE  /\ Dashed(s, a) \in Seq(Chars)
           /\ Dashed(t, b) \in Seq(Chars)
           /\ Dashed(o, Dashed(s, a)) = Dashed(p, Dashed(t, b))
  <1>. DEFINE u == Dashed(s, a)
              v == Dashed(t, b)
              left == Dashed(o, u)
              right == Dashed(p, v)
  <1>1. u \in Seq(Chars) /\ v \in Seq(Chars)
    BY JoinedCharacters
  <1>2. <<"q", Dash>> \o left = <<"q", Dash>> \o right
    BY DEF allowanceKey, AllowancePrefix, Dashed
  <1>3. left \in Seq(Chars) /\ right \in Seq(Chars)
    <2>. HIDE DEF u, v
    <2>. QED
      BY <1>1, JoinedCharacters
  <1>. HIDE DEF left, right
  <1>4. left = right
    BY <1>2, <1>3, CancelPrefix
  <1>. QED
    BY <1>1, <1>4 DEF left, right

\* An approve writes allowances of the caller's own and of the accounts its name
\* begins.
LEMMA ApproveKeys ==
    ASSUME NEW caller \in Accounts, NEW other \in Seq(Chars), NEW asset \in Seq(Chars),
           NEW owner \in Accounts, NEW spender \in Accounts, NEW symbol \in Symbols,
           allowanceKey(caller, other, asset) = allowanceKey(owner, spender, symbol)
    PROVE  caller = owner \/ Begins(caller, owner)
  <1>. DEFINE u == Dashed(other, asset)
              v == Dashed(spender, symbol)
  <1>1. /\ caller \in Seq(Chars) /\ owner \in Seq(Chars)
        /\ spender \in Seq(Chars) /\ symbol \in Seq(Chars)
        /\ Len(caller) \in Nat /\ Len(owner) \in Nat
    BY NamesAreSequences, LenProperties
  <1>2. u \in Seq(Chars) /\ v \in Seq(Chars) /\ Dashed(caller, u) = Dashed(owner, v)
    BY <1>1, AllowanceParts
  <1>3. ~(Len(owner) < Len(caller))
    <2>1. Dashed(owner, Dashed(spender, symbol)) = Dashed(caller, u)
      BY <1>2
    <2>. HIDE DEF u
    <2>. QED
      BY <1>1, <1>2, <2>1, OwnerCannotReachOver
  <1>. HIDE DEF u, v
  <1>4. CASE Len(caller) = Len(owner)
    BY <1>1, <1>2, <1>4, SameLengthSameParts
  <1>5. CASE Len(caller) < Len(owner)
    BY <1>1, <1>2, <1>5, SplitAtDash
  <1>. QED
    BY <1>1, <1>3, <1>4, <1>5

\* After its first character, an account joined with a symbol holds no domain.
LEMMA NoLaterDomain ==
    ASSUME NEW s \in Accounts, NEW b \in Symbols, NEW r \in Seq(Chars), NEW v \in Seq(Chars),
           Len(v) >= 1, v[1] \in Domains
    PROVE  Dashed(s, b) # Dashed(r, v)
  <1>. DEFINE joined == Dashed(s, b)
              other == Dashed(r, v)
              at == Len(r) + 2
  <1>. SUFFICES ASSUME joined = other
                PROVE  FALSE
    OBVIOUS
  <1>1. /\ s \in Seq(Chars) /\ b \in Seq(Chars)
        /\ \A i \in 2..Len(s) : s[i] \notin Domains
        /\ \A i \in 1..Len(b) : b[i] \in Letters
    BY NamesAreSequences
  <1>2. Len(s) \in Nat /\ Len(b) \in Nat /\ Len(r) \in Nat /\ Len(v) \in Nat
    BY <1>1, LenProperties
  <1>3. /\ Len(joined) = Len(s) + 1 + Len(b)
        /\ \A i \in 1..Len(s) : joined[i] = s[i]
        /\ joined[Len(s) + 1] = Dash
        /\ \A i \in Len(s) + 2..Len(joined) : joined[i] = b[i - Len(s) - 1]
    BY <1>1, JoinedCharacters
  <1>4. /\ Len(other) = Len(r) + 1 + Len(v)
        /\ \A i \in Len(r) + 2..Len(other) : other[i] = v[i - Len(r) - 1]
    BY JoinedCharacters
  <1>. HIDE DEF joined, other
  <1>5. joined[at] \in Domains
    <2>1. at \in Len(r) + 2..Len(other) /\ at - Len(r) - 1 = 1
      BY <1>2, <1>4
    <2>2. other[at] = v[at - Len(r) - 1]
      BY <1>4, <2>1
    <2>. QED
      BY <2>1, <2>2
  <1>6. at \in Nat /\ at >= 2 /\ at <= Len(joined)
    BY <1>2, <1>4
  <1>. HIDE DEF at
  <1>7. CASE at <= Len(s)
    <2>1. at \in 1..Len(s) /\ at \in 2..Len(s)
      BY <1>2, <1>6, <1>7
    <2>. QED
      BY <1>1, <1>3, <1>5, <2>1
  <1>8. CASE at = Len(s) + 1
    BY <1>3, <1>5, <1>8, StateKeysAssumption
  <1>9. CASE at >= Len(s) + 2
    <2>. DEFINE k == at - Len(s) - 1
    <2>1. at \in Len(s) + 2..Len(joined) /\ k \in 1..Len(b)
      BY <1>2, <1>3, <1>6, <1>9
    <2>2. joined[at] = b[k]
      BY <1>3, <2>1
    <2>. HIDE DEF k
    <2>3. b[k] \in Letters
      BY <1>1, <2>1
    <2>. QED
      BY <1>5, <2>2, <2>3, StateKeysAssumption
  <1>. QED
    BY <1>2, <1>6, <1>7, <1>8, <1>9

\* No part of an account's name after a delimiter begins a caller's name.
LEMMA NoCallerInside ==
    ASSUME NEW x \in Seq(Chars), NEW o \in Accounts, NEW c \in Accounts,
           NEW a \in Seq(Chars), NEW v \in Seq(Chars),
           Len(x) < Len(o)
    PROVE  Dashed(c, a) # Dashed(PartAfter(x, o), v)
  <1>. DEFINE r == PartAfter(x, o)
              joined == Dashed(c, a)
              other == Dashed(r, v)
  <1>. SUFFICES ASSUME joined = other
                PROVE  FALSE
    OBVIOUS
  <1>1. /\ c \in Seq(Chars) /\ Len(c) >= 1 /\ c[1] \in Domains
        /\ o \in Seq(Chars) /\ \A i \in 2..Len(o) : o[i] \notin Domains
    BY NamesAreSequences
  <1>2. Len(x) \in Nat /\ Len(o) \in Nat /\ Len(c) \in Nat
    BY <1>1, LenProperties
  <1>3. /\ r \in Seq(Chars)
        /\ Len(r) = Len(o) - Len(x) - 1
        /\ \A i \in 1..Len(o) - Len(x) - 1 : r[i] = o[Len(x) + 1 + i]
    BY <1>1, RestOfName
  <1>. HIDE DEF r
  <1>4. joined[1] \in Domains
    <2>1. \A i \in 1..Len(c) : joined[i] = c[i]
      BY <1>1, JoinedCharacters
    <2>2. 1 \in 1..Len(c)
      BY <1>1, <1>2
    <2>. QED
      BY <1>1, <2>1, <2>2
  <1>5. /\ \A i \in 1..Len(r) : other[i] = r[i]
        /\ other[Len(r) + 1] = Dash
    BY <1>3, JoinedCharacters
  <1>. HIDE DEF joined, other
  <1>6. CASE Len(r) = 0
    BY <1>4, <1>5, <1>6, StateKeysAssumption
  <1>7. CASE Len(r) >= 1
    <2>1. /\ 1 \in 1..Len(r) /\ 1 \in 1..Len(o) - Len(x) - 1
          /\ Len(x) + 1 + 1 \in 2..Len(o)
      BY <1>2, <1>3, <1>7
    <2>2. other[1] = o[Len(x) + 1 + 1]
      BY <1>3, <1>5, <2>1
    <2>. QED
      BY <1>1, <1>4, <2>1, <2>2
  <1>. QED
    BY <1>2, <1>3, <1>6, <1>7

\* A transferFrom reads allowances of the owner it names, given to an account it
\* reaches with its own name.
LEMMA TransferFromKeys ==
    ASSUME NEW from \in Seq(Chars), NEW caller \in Accounts, NEW asset \in Seq(Chars),
           NEW owner \in Accounts, NEW spender \in Accounts, NEW symbol \in Symbols
    PROVE  allowanceKey(from, caller, asset) = allowanceKey(owner, spender, symbol)
               <=> from = owner /\ Reaches(caller, asset, spender, symbol)
  <1>. DEFINE u == Dashed(caller, asset)
              v == Dashed(spender, symbol)
  <1>1. /\ caller \in Seq(Chars) /\ owner \in Seq(Chars)
        /\ spender \in Seq(Chars) /\ symbol \in Seq(Chars)
        /\ Len(from) \in Nat /\ Len(owner) \in Nat
    BY NamesAreSequences, LenProperties
  <1>2. u = v <=> Reaches(caller, asset, spender, symbol)
    BY <1>1, JoinReaches
  <1>3. ASSUME allowanceKey(from, caller, asset) = allowanceKey(owner, spender, symbol)
        PROVE  from = owner /\ u = v
    <2>1. u \in Seq(Chars) /\ v \in Seq(Chars) /\ Dashed(from, u) = Dashed(owner, v)
      BY <1>1, <1>3, AllowanceParts
    <2>2. ~(Len(owner) < Len(from))
      <3>. SUFFICES ASSUME Len(owner) < Len(from)
                    PROVE  FALSE
        OBVIOUS
      <3>1. Dashed(owner, v) = Dashed(from, u)
        BY <2>1
      <3>2. PartAfter(owner, from) \in Seq(Chars) /\ v = Dashed(PartAfter(owner, from), u)
        <4>. HIDE DEF u, v
        <4>. QED
          BY <1>1, <2>1, <3>1, SplitAtDash
      <3>3. Len(u) >= 1 /\ u[1] \in Domains
        <4>1. Len(caller) >= 1 /\ caller[1] \in Domains
          BY NamesAreSequences
        <4>2. /\ Len(u) = Len(caller) + 1 + Len(asset)
              /\ \A i \in 1..Len(caller) : u[i] = caller[i]
          BY <1>1, JoinedCharacters
        <4>3. Len(caller) \in Nat /\ Len(asset) \in Nat
          BY <1>1, LenProperties
        <4>. HIDE DEF u
        <4>4. 1 \in 1..Len(caller) /\ Len(u) >= 1
          BY <4>1, <4>2, <4>3
        <4>. QED
          BY <4>1, <4>2, <4>4
      <3>. HIDE DEF u
      <3>. QED
        BY <2>1, <3>2, <3>3, NoLaterDomain
    <2>3. ~(Len(from) < Len(owner))
      <3>. SUFFICES ASSUME Len(from) < Len(owner)
                    PROVE  FALSE
        OBVIOUS
      <3>1. u = Dashed(PartAfter(from, owner), v)
        <4>. HIDE DEF u, v
        <4>. QED
          BY <1>1, <2>1, SplitAtDash
      <3>2. u # Dashed(PartAfter(from, owner), v)
        <4>. HIDE DEF v
        <4>. QED
          BY <2>1, NoCallerInside
      <3>. QED
        BY <3>1, <3>2
    <2>. HIDE DEF u, v
    <2>4. Len(from) = Len(owner)
      BY <1>1, <2>2, <2>3
    <2>. QED
      BY <1>1, <2>1, <2>4, SameLengthSameParts
  <1>. QED
    BY <1>2, <1>3 DEF allowanceKey, Dashed

\* The kinds of keys differ in their first character.
LEMMA Kinds ==
    ASSUME NEW x \in Seq(Chars), NEW a \in Seq(Chars),
           NEW o \in Seq(Chars), NEW s \in Seq(Chars), NEW b \in Seq(Chars)
    PROVE  balanceKey(x, a) # allowanceKey(o, s, b)
  <1>. DEFINE First(kind, name) == (<<kind, Dash>> \o name)[1]
  <1>1. ASSUME NEW kind, NEW name \in Seq(Chars)
        PROVE  First(kind, name) = kind
    <2>. DEFINE S == Chars \cup {kind}
    <2>1. name \in Seq(S)
      BY <1>1, SeqMonotonic, Chars \subseteq S
    <2>2. <<kind, Dash>> \in Seq(S) /\ Len(<<kind, Dash>>) = 2
      BY DEF Chars
    <2>3. Len(name) \in Nat
      BY <1>1, LenProperties
    <2>. HIDE DEF S
    <2>. QED
      BY <2>1, <2>2, <2>3, ConcatProperties
  <1>2. Dashed(x, a) \in Seq(Chars)
    BY JoinedCharacters
  <1>3. Dashed(o, Dashed(s, b)) \in Seq(Chars)
    <2>1. Dashed(s, b) \in Seq(Chars)
      BY JoinedCharacters
    <2>. QED
      BY <2>1, JoinedCharacters
  <1>4. balanceKey(x, a)[1] = "a" /\ allowanceKey(o, s, b)[1] = "q"
    BY <1>1, <1>2, <1>3 DEF balanceKey, allowanceKey, BalancePrefix, AllowancePrefix, Dashed
  <1>. QED
    BY <1>4

\* Whatever a caller names, in words of any length: the balances it reaches are
\* its own and those of the accounts its name begins at a '-', which it does
\* reach; the allowances it writes are of those owners, and those it spends are
\* of the owner it names, given to it or to one of those.
THEOREM KeysReachOwnOrExtended == named \in Named => KeysReachOnlyExtensions
  <1>. SUFFICES ASSUME named \in Named
                PROVE  KeysReachOnlyExtensions
    OBVIOUS
  <1>1. /\ named.caller \in Accounts /\ named.caller \in Seq(Chars)
        /\ named.other \in Seq(Chars) /\ named.asset \in Seq(Chars)
    BY NamesAreSequences DEF Named
  <1>. SUFFICES ASSUME NEW owner \in Accounts, NEW symbol \in Symbols
                PROVE  /\ \A u \in {named.caller, named.other} :
                             balanceKey(u, named.asset) = balanceKey(owner, symbol)
                                 <=> Reaches(u, named.asset, owner, symbol)
                       /\ \A spender \in Accounts :
                             LET held == allowanceKey(owner, spender, symbol)
                             IN  /\ allowanceKey(named.caller, named.other, named.asset) = held
                                        => named.caller = owner \/ Begins(named.caller, owner)
                                 /\ allowanceKey(named.other, named.caller, named.asset) = held
                                        <=> /\ named.other = owner
                                            /\ Reaches(named.caller, named.asset, spender, symbol)
                                 /\ balanceKey(named.other, named.asset) # held
    BY DEF KeysReachOnlyExtensions
  <1>2. owner \in Seq(Chars) /\ symbol \in Seq(Chars) /\ \A s \in Accounts : s \in Seq(Chars)
    BY NamesAreSequences
  <1>3. ASSUME NEW u \in {named.caller, named.other}
        PROVE  balanceKey(u, named.asset) = balanceKey(owner, symbol)
                   <=> Reaches(u, named.asset, owner, symbol)
    <2>1. u \in Seq(Chars)
      BY <1>1
    <2>. QED
      BY <1>1, <1>2, <2>1, BalanceKeys
  <1>4. ASSUME NEW spender \in Accounts
        PROVE  LET held == allowanceKey(owner, spender, symbol)
               IN  /\ allowanceKey(named.caller, named.other, named.asset) = held
                          => named.caller = owner \/ Begins(named.caller, owner)
                   /\ allowanceKey(named.other, named.caller, named.asset) = held
                          <=> /\ named.other = owner
                              /\ Reaches(named.caller, named.asset, spender, symbol)
                   /\ balanceKey(named.other, named.asset) # held
    <2>1. allowanceKey(named.caller, named.other, named.asset)
              = allowanceKey(owner, spender, symbol)
              => named.caller = owner \/ Begins(named.caller, owner)
      BY <1>1, ApproveKeys
    <2>2. allowanceKey(named.other, named.caller, named.asset)
              = allowanceKey(owner, spender, symbol)
              <=> /\ named.other = owner
                  /\ Reaches(named.caller, named.asset, spender, symbol)
      BY <1>1, TransferFromKeys
    <2>3. balanceKey(named.other, named.asset) # allowanceKey(owner, spender, symbol)
      BY <1>1, <1>2, Kinds
    <2>. QED
      BY <2>1, <2>2, <2>3
  <1>. QED
    BY <1>3, <1>4

(***************************************************************************)
(* Induction.                                                              *)
(***************************************************************************)
\* A set of natural numbers has a least element.
LEMMA LeastOf ==
    ASSUME NEW T \in SUBSET Nat, T # {}
    PROVE  \E n \in T : \A m \in T : n <= m
  <1>1. IsWellFoundedOn(OpToRel(<, Nat), Nat)
    BY NatLessThanWellFounded
  <1>2. \E x \in T : \A y \in T : ~(<<y, x>> \in OpToRel(<, Nat))
    BY <1>1, WFMin, Zenon
  <1>3. \A x, y \in Nat : (y < x) => <<y, x>> \in OpToRel(<, Nat)
    BY DEF OpToRel
  <1>4. PICK n \in T : \A m \in T : ~(m < n)
    BY <1>2, <1>3
  <1>5. ASSUME NEW m \in T PROVE n <= m
    <2>1. m \in Nat /\ n \in Nat /\ ~(m < n)
      BY <1>4
    <2>. QED
      BY <2>1
  <1>. QED
    BY <1>5

\* Induction on the natural numbers, about a set of them.
LEMMA AllNat ==
    ASSUME NEW T \in SUBSET Nat, 0 \in T, \A n \in T : n + 1 \in T
    PROVE  T = Nat
  <1>. SUFFICES ASSUME Nat \ T # {} PROVE FALSE
    OBVIOUS
  <1>1. PICK n \in Nat \ T : \A m \in Nat \ T : n <= m
    BY LeastOf
  <1>2. n # 0 /\ n - 1 \in Nat /\ n - 1 \in T
    BY <1>1
  <1>. QED
    BY <1>1, <1>2

(***************************************************************************)
(* Numbers and their bytes.                                                *)
(***************************************************************************)
\* The equation of bigEndianUint64.
BytesTerm(g, n) == IF n = 0 THEN << >> ELSE Append(g[n \div 256], n % 256)

\* The quotient of a positive number is smaller.
LEMMA Quotient ==
    ASSUME NEW n \in Nat
    PROVE  /\ n \div 256 \in Nat /\ n % 256 \in 0..255
           /\ n = (n \div 256) * 256 + (n % 256)
           /\ n # 0 => n \div 256 < n
  OBVIOUS

\* It has a solution.
LEMMA BytesExist ==
    ASSUME NEW v \in Nat
    PROVE  \E g : g = [n \in 0..v |-> BytesTerm(g, n)]
  <1>. DEFINE Good == {n \in Nat : \E g : g = [k \in 0..n |-> BytesTerm(g, k)]}
  <1>1. 0 \in Good
    <2>. DEFINE g == [k \in 0..0 |-> << >>]
    <2>1. g = [k \in 0..0 |-> BytesTerm(g, k)]
      BY DEF BytesTerm
    <2>. QED
      BY <2>1, Zenon
  <1>2. ASSUME NEW n \in Good PROVE n + 1 \in Good
    <2>1. PICK g : g = [k \in 0..n |-> BytesTerm(g, k)]
      OBVIOUS
    <2>. DEFINE h == [k \in 0..n + 1 |-> BytesTerm(g, k)]
    <2>2. \A k \in 0..n : h[k] = g[k]
      BY <2>1
    <2>3. ASSUME NEW k \in 0..n + 1 PROVE BytesTerm(h, k) = BytesTerm(g, k)
      <3>1. k # 0 => k \div 256 \in 0..n
        BY Quotient
      <3>. HIDE DEF h
      <3>. QED
        BY <2>2, <3>1 DEF BytesTerm
    <2>4. h = [k \in 0..n + 1 |-> BytesTerm(h, k)]
      BY <2>3
    <2>5. n + 1 \in Nat
      OBVIOUS
    <2>. HIDE DEF h
    <2>. QED
      BY <2>4, <2>5, Zenon
  <1>. HIDE DEF Good
  <1>3. Good \in SUBSET Nat
    BY DEF Good
  <1>4. Good = Nat
    BY <1>1, <1>2, <1>3, AllNat
  <1>. QED
    BY <1>4 DEF Good

\* A number's bytes are those of its quotient and its last.
LEMMA BytesOf ==
    ASSUME NEW v \in Nat
    PROVE  bigEndianUint64(v) =
               IF v = 0 THEN << >> ELSE Append(bigEndianUint64(v \div 256), v % 256)
  <1>. DEFINE Solves(g, w) == g = [n \in 0..w |-> BytesTerm(g, n)]
              sol(w) == CHOOSE g : g = [n \in 0..w |-> BytesTerm(g, n)]
  <1>1. ASSUME NEW w \in Nat PROVE Solves(sol(w), w)
    <2>1. \E g : g = [n \in 0..w |-> BytesTerm(g, n)]
      BY BytesExist
    <2>. QED
      BY <2>1, Zenon
  <1>2. ASSUME NEW w \in Nat PROVE bigEndianUint64(w) = sol(w)[w]
    BY DEF bigEndianUint64, BytesTerm
  <1>. HIDE DEF sol
  <1>3. ASSUME NEW w \in 0..v PROVE sol(w)[w] = sol(v)[w]
    <2>. DEFINE Bad == {n \in 0..w : sol(w)[n] # sol(v)[n]}
    <2>. SUFFICES ASSUME Bad # {} PROVE FALSE
      OBVIOUS
    <2>1. PICK n \in Bad : \A m \in Bad : n <= m
      <3>1. Bad \in SUBSET Nat
        OBVIOUS
      <3>. HIDE DEF Bad
      <3>. QED
        BY <3>1, LeastOf
    <2>2. sol(w)[n] = BytesTerm(sol(w), n) /\ sol(v)[n] = BytesTerm(sol(v), n)
      BY <1>1
    <2>3. n # 0 => n \div 256 \in 0..w /\ n \div 256 \notin Bad
      BY <2>1, Quotient
    <2>. QED
      BY <2>1, <2>2, <2>3 DEF BytesTerm
  <1>4. sol(v)[v] = BytesTerm(sol(v), v)
    BY <1>1
  <1>5. v # 0 => v \div 256 \in 0..v /\ v \div 256 \in Nat
    BY Quotient
  <1>6. CASE v = 0
    BY <1>2, <1>4, <1>6 DEF BytesTerm
  <1>7. CASE v # 0
    <2>1. bigEndianUint64(v \div 256) = sol(v)[v \div 256]
      <3>. DEFINE q == v \div 256
      <3>1. q \in 0..v /\ q \in Nat
        BY <1>5, <1>7
      <3>. HIDE DEF q
      <3>2. bigEndianUint64(q) = sol(v)[q]
        BY <1>2, <1>3, <3>1
      <3>. QED
        BY <3>2 DEF q
    <2>. QED
      BY <1>2, <1>4, <1>7, <2>1 DEF BytesTerm
  <1>. QED
    BY <1>6, <1>7

\* They are bytes.
LEMMA BytesType == ASSUME NEW v \in Nat PROVE bigEndianUint64(v) \in Seq(Byte)
  <1>. DEFINE Bad == {n \in Nat : bigEndianUint64(n) \notin Seq(Byte)}
  <1>. SUFFICES ASSUME Bad # {} PROVE FALSE
    OBVIOUS
  <1>1. PICK n \in Bad : \A m \in Bad : n <= m
    BY LeastOf
  <1>2. n # 0 => bigEndianUint64(n \div 256) \in Seq(Byte) /\ n % 256 \in Byte
    BY <1>1, Quotient DEF Byte
  <1>3. bigEndianUint64(n) =
            IF n = 0 THEN << >> ELSE Append(bigEndianUint64(n \div 256), n % 256)
    BY BytesOf
  <1>4. bigEndianUint64(n) \in Seq(Byte)
    <2>1. CASE n = 0
      BY <1>3, <2>1
    <2>2. CASE n # 0
      BY <1>2, <1>3, <2>2
    <2>. QED
      BY <2>1, <2>2
  <1>. QED
    BY <1>4

\* The equation of AsBigInt.
ValueTerm(g, s, n) == IF n = 0 THEN 0 ELSE g[n - 1] * 256 + s[n]

\* It has a solution.
LEMMA ValueExists ==
    ASSUME NEW s, NEW v \in Nat
    PROVE  \E g : g = [n \in 0..v |-> ValueTerm(g, s, n)]
  <1>. DEFINE Good == {n \in Nat : \E g : g = [k \in 0..n |-> ValueTerm(g, s, k)]}
  <1>1. 0 \in Good
    <2>. DEFINE g == [k \in 0..0 |-> 0]
    <2>1. g = [k \in 0..0 |-> ValueTerm(g, s, k)]
      BY DEF ValueTerm
    <2>. QED
      BY <2>1, Zenon
  <1>2. ASSUME NEW n \in Good PROVE n + 1 \in Good
    <2>1. PICK g : g = [k \in 0..n |-> ValueTerm(g, s, k)]
      OBVIOUS
    <2>. DEFINE h == [k \in 0..n + 1 |-> ValueTerm(g, s, k)]
    <2>2. \A k \in 0..n : h[k] = g[k]
      BY <2>1
    <2>3. ASSUME NEW k \in 0..n + 1 PROVE ValueTerm(h, s, k) = ValueTerm(g, s, k)
      <3>1. k # 0 => k - 1 \in 0..n
        OBVIOUS
      <3>. HIDE DEF h
      <3>. QED
        BY <2>2, <3>1 DEF ValueTerm
    <2>4. h = [k \in 0..n + 1 |-> ValueTerm(h, s, k)]
      BY <2>3
    <2>5. n + 1 \in Nat
      OBVIOUS
    <2>. HIDE DEF h
    <2>. QED
      BY <2>4, <2>5, Zenon
  <1>. HIDE DEF Good
  <1>3. Good \in SUBSET Nat
    BY DEF Good
  <1>4. Good = Nat
    BY <1>1, <1>2, <1>3, AllNat
  <1>. QED
    BY <1>4 DEF Good

\* The number of a sequence of bytes is one of its solutions.
LEMMA ValueDef ==
    ASSUME NEW s, Len(s) \in Nat
    PROVE  \E g : /\ g = [n \in 0..Len(s) |-> ValueTerm(g, s, n)]
                  /\ AsBigInt(s) = g[Len(s)]
  <1>. DEFINE sol == CHOOSE g : g = [n \in 0..Len(s) |-> ValueTerm(g, s, n)]
  <1>1. AsBigInt(s) = sol[Len(s)]
    BY DEF AsBigInt, ValueTerm
  <1>2. sol = [n \in 0..Len(s) |-> ValueTerm(sol, s, n)]
    <2>1. \E g : g = [n \in 0..Len(s) |-> ValueTerm(g, s, n)]
      BY ValueExists
    <2>. QED
      BY <2>1, Zenon
  <1>. HIDE DEF sol
  <1>. QED
    BY <1>1, <1>2, Zenon

\* A byte more makes the number 256 times as large, and adds the byte.
LEMMA ValueAppend ==
    /\ AsBigInt(<< >>) = 0
    /\ \A s \in Seq(Nat), b \in Nat : AsBigInt(Append(s, b)) = AsBigInt(s) * 256 + b
  <1>1. AsBigInt(<< >>) = 0
    <2>1. Len(<< >>) = 0
      OBVIOUS
    <2>2. PICK g : g = [n \in 0..Len(<< >>) |-> ValueTerm(g, << >>, n)]
                   /\ AsBigInt(<< >>) = g[Len(<< >>)]
      BY <2>1, ValueDef
    <2>. QED
      BY <2>1, <2>2 DEF ValueTerm
  <1>2. ASSUME NEW s \in Seq(Nat), NEW b \in Nat
        PROVE  AsBigInt(Append(s, b)) = AsBigInt(s) * 256 + b
    <2>. DEFINE t == Append(s, b)
                l == Len(s)
    <2>1. /\ l \in Nat /\ Len(t) = l + 1 /\ t[l + 1] = b
          /\ \A n \in 1..l : t[n] = s[n]
      OBVIOUS
    <2>2. PICK g : g = [n \in 0..l |-> ValueTerm(g, s, n)] /\ AsBigInt(s) = g[l]
      BY <2>1, ValueDef
    <2>3. PICK h : h = [n \in 0..l + 1 |-> ValueTerm(h, t, n)] /\ AsBigInt(t) = h[l + 1]
      <3>. HIDE DEF t
      <3>. QED
        BY <2>1, ValueDef
    <2>. HIDE DEF t, l
    <2>6. /\ \A n \in 0..l : g[n] = ValueTerm(g, s, n)
          /\ \A n \in 0..l + 1 : h[n] = ValueTerm(h, t, n)
      BY <2>2, <2>3, Zenon
    <2>4. g[l] = h[l]
      <3>. DEFINE Bad == {n \in 0..l : g[n] # h[n]}
      <3>. SUFFICES ASSUME Bad # {} PROVE FALSE
        BY <2>1
      <3>1. PICK n \in Bad : \A m \in Bad : n <= m
        <4>1. Bad \in SUBSET Nat
          BY <2>1
        <4>. HIDE DEF Bad
        <4>. QED
          BY <4>1, LeastOf
      <3>2. g[n] = ValueTerm(g, s, n) /\ h[n] = ValueTerm(h, t, n)
        BY <2>1, <2>6
      <3>3. n # 0 => n - 1 \in 0..l /\ n - 1 \notin Bad
        BY <2>1, <3>1
      <3>. QED
        BY <2>1, <3>1, <3>2, <3>3 DEF ValueTerm
    <2>5. h[l + 1] = ValueTerm(h, t, l + 1)
      BY <2>1, <2>6
    <2>. QED
      BY <2>1, <2>2, <2>3, <2>4, <2>5 DEF ValueTerm, t
  <1>. QED
    BY <1>1, <1>2

\* Reading a number back from its bytes.
LEMMA ValueOfBytes == ASSUME NEW v \in Nat PROVE AsBigInt(bigEndianUint64(v)) = v
  <1>. DEFINE Bad == {n \in Nat : AsBigInt(bigEndianUint64(n)) # n}
  <1>. SUFFICES ASSUME Bad # {} PROVE FALSE
    OBVIOUS
  <1>1. PICK n \in Bad : \A m \in Bad : n <= m
    <2>1. Bad \in SUBSET Nat
      OBVIOUS
    <2>. HIDE DEF Bad
    <2>. QED
      BY <2>1, LeastOf
  <1>2. bigEndianUint64(n) =
            IF n = 0 THEN << >> ELSE Append(bigEndianUint64(n \div 256), n % 256)
    BY BytesOf
  <1>3. CASE n = 0
    BY <1>1, <1>2, <1>3, ValueAppend
  <1>4. CASE n # 0
    <2>. DEFINE q == n \div 256
                b == n % 256
    <2>1. q \in Nat /\ b \in Nat /\ n = q * 256 + b /\ q < n
      BY <1>1, <1>4, Quotient
    <2>. HIDE DEF q, b
    <2>2. bigEndianUint64(q) \in Seq(Nat)
      <3>1. bigEndianUint64(q) \in Seq(Byte) /\ Byte \subseteq Nat
        BY <2>1, BytesType DEF Byte
      <3>. QED
        BY <3>1, SeqMonotonic
    <2>3. AsBigInt(bigEndianUint64(q)) = q
      BY <1>1, <2>1
    <2>4. AsBigInt(Append(bigEndianUint64(q), b)) = q * 256 + b
      BY <2>1, <2>2, <2>3, ValueAppend
    <2>. QED
      BY <1>1, <1>2, <1>4, <2>1, <2>4 DEF q, b
  <1>. QED
    BY <1>3, <1>4

\* Different numbers have different bytes.
LEMMA BytesInjective ==
    ASSUME NEW v \in Nat, NEW w \in Nat, bigEndianUint64(v) = bigEndianUint64(w)
    PROVE  v = w
  BY ValueOfBytes

\* The equation of FixedWidth.
AboveTerm(g, v, k) == IF k = 0 THEN v ELSE g[k - 1] \div 256

\* It has a solution.
LEMMA AboveExists ==
    ASSUME NEW v, NEW w \in Nat
    PROVE  \E g : g = [k \in 0..w |-> AboveTerm(g, v, k)]
  <1>. DEFINE Good == {n \in Nat : \E g : g = [k \in 0..n |-> AboveTerm(g, v, k)]}
  <1>1. 0 \in Good
    <2>. DEFINE g == [k \in 0..0 |-> v]
    <2>1. g = [k \in 0..0 |-> AboveTerm(g, v, k)]
      BY DEF AboveTerm
    <2>. QED
      BY <2>1, Zenon
  <1>2. ASSUME NEW n \in Good PROVE n + 1 \in Good
    <2>1. PICK g : g = [k \in 0..n |-> AboveTerm(g, v, k)]
      OBVIOUS
    <2>. DEFINE h == [k \in 0..n + 1 |-> AboveTerm(g, v, k)]
    <2>2. \A k \in 0..n : h[k] = g[k]
      BY <2>1
    <2>3. ASSUME NEW k \in 0..n + 1 PROVE AboveTerm(h, v, k) = AboveTerm(g, v, k)
      <3>1. k # 0 => k - 1 \in 0..n
        OBVIOUS
      <3>. HIDE DEF h
      <3>. QED
        BY <2>2, <3>1 DEF AboveTerm
    <2>4. h = [k \in 0..n + 1 |-> AboveTerm(h, v, k)]
      BY <2>3
    <2>5. n + 1 \in Nat
      OBVIOUS
    <2>. HIDE DEF h
    <2>. QED
      BY <2>4, <2>5, Zenon
  <1>. HIDE DEF Good
  <1>3. Good \in SUBSET Nat
    BY DEF Good
  <1>4. Good = Nat
    BY <1>1, <1>2, <1>3, AllNat
  <1>. QED
    BY <1>4 DEF Good

\* The bytes of a number are a sequence of natural numbers.
LEMMA BytesNat ==
    ASSUME NEW v \in Nat
    PROVE  bigEndianUint64(v) \in Seq(Nat) /\ Len(bigEndianUint64(v)) \in Nat
  <1>1. bigEndianUint64(v) \in Seq(Byte) /\ Byte \subseteq Nat
    BY BytesType DEF Byte
  <1>2. bigEndianUint64(v) \in Seq(Nat)
    BY <1>1, SeqMonotonic
  <1>. QED
    BY <1>2

\* A number that fits is written with zeros in front of its bytes.
LEMMA FixedWidthPads ==
    ASSUME NEW v \in Nat, Len(bigEndianUint64(v)) <= SigSize
    PROVE  FixedWidth(v) = padTo32(bigEndianUint64(v))
  <1>. DEFINE sol == CHOOSE g : g = [k \in 0..SigSize |-> AboveTerm(g, v, k)]
              B(m) == bigEndianUint64(m)
              L == Len(B(v))
  <1>1. FixedWidth(v) = [i \in 1..SigSize |-> sol[SigSize - i] % 256]
    BY DEF FixedWidth, AboveTerm
  <1>2. sol = [k \in 0..SigSize |-> AboveTerm(sol, v, k)]
    <2>1. \E g : g = [k \in 0..SigSize |-> AboveTerm(g, v, k)]
      BY AboveExists, TransactionsAssumption, ZenonT(30)
    <2>. QED
      BY <2>1, Zenon
  <1>. HIDE DEF sol
  <1>3. SigSize \in Nat \ {0}
    BY TransactionsAssumption
  <1>4. sol[0] = v /\ \A k \in 1..SigSize : sol[k] = sol[k - 1] \div 256
    <2>1. \A k \in 0..SigSize : sol[k] = AboveTerm(sol, v, k)
      BY <1>2, Zenon
    <2>. QED
      BY <1>3, <2>1 DEF AboveTerm
  <1>5. \A m \in Nat : B(m) \in Seq(Nat) /\ Len(B(m)) \in Nat
    BY BytesNat
  <1>6. B(0) = << >> /\ \A m \in Nat \ {0} : B(m) = Append(B(m \div 256), m % 256)
    BY BytesOf
  <1>11. L \in Nat /\ L <= SigSize /\ B(v) \in Seq(Nat) /\ L = Len(B(v))
    BY <1>5
  <1>. HIDE DEF B, L
  <1>. DEFINE Shown(k) == /\ sol[k] \in Nat
                          /\ Len(B(sol[k])) = IF k <= L THEN L - k ELSE 0
                          /\ \A j \in 1..L - k : B(sol[k])[j] = B(v)[j]
              Good == {k \in Nat : k <= SigSize => Shown(k)}
  <1>7. 0 \in Good
    BY <1>3, <1>4, <1>11
  <1>8. ASSUME NEW n \in Good PROVE n + 1 \in Good
    <2>. SUFFICES ASSUME n + 1 <= SigSize PROVE Shown(n + 1)
      OBVIOUS
    <2>. DEFINE m == sol[n]
                q == m \div 256
                b == m % 256
    <2>1. Shown(n)
      BY <1>3
    <2>2. m \in Nat /\ q \in Nat /\ b \in Nat /\ sol[n + 1] = q
      BY <1>3, <1>4, <2>1, Quotient
    <2>3. CASE m = 0
      <3>1. q = 0
        BY <2>3
      <3>2. L <= n /\ Len(B(0)) = 0
        <4>1. Len(B(0)) = 0
          BY <1>6
        <4>2. Len(B(sol[n])) = 0 /\ n \in Nat
          BY <2>3, <4>1
        <4>. QED
          BY <1>11, <2>1, <4>1, <4>2
      <3>. HIDE DEF q
      <3>. QED
        BY <1>11, <2>2, <3>1, <3>2
    <2>4. CASE m # 0
      <3>1. B(m) = Append(B(q), b)
        BY <1>6, <2>2, <2>4
      <3>. HIDE DEF q, b, m
      <3>2. Len(B(m)) = Len(B(q)) + 1 /\ \A j \in 1..Len(B(q)) : B(m)[j] = B(q)[j]
        BY <1>5, <2>2, <3>1
      <3>3. n <= L /\ Len(B(m)) = L - n /\ \A j \in 1..L - n : B(m)[j] = B(v)[j]
        BY <1>5, <1>11, <2>1, <2>2, <3>2 DEF m
      <3>4. Len(B(q)) \in Nat /\ n \in Nat
        BY <1>5, <2>2
      <3>5. n + 1 <= L /\ Len(B(q)) = L - (n + 1)
        <4>1. Len(B(m)) = Len(B(q)) + 1 /\ Len(B(m)) = L - n /\ L \in Nat
          BY <1>11, <3>2, <3>3
        <4>. QED
          BY <3>4, <4>1
      <3>6. \A j \in 1..L - (n + 1) : B(q)[j] = B(v)[j]
        BY <1>11, <3>2, <3>3, <3>4, <3>5
      <3>. QED
        BY <2>2, <3>5, <3>6
    <2>. QED
      BY <2>3, <2>4
  <1>9. \A k \in 0..SigSize : Shown(k)
    <2>1. Good \in SUBSET Nat
      OBVIOUS
    <2>. HIDE DEF Good
    <2>2. Good = Nat
      BY <1>7, <1>8, <2>1, AllNat
    <2>. QED
      BY <1>3, <2>2 DEF Good
  <1>10. \A k \in 0..SigSize : sol[k] % 256 = IF k < L THEN B(v)[L - k] ELSE 0
    <2>. SUFFICES ASSUME NEW k \in 0..SigSize
                  PROVE  sol[k] % 256 = IF k < L THEN B(v)[L - k] ELSE 0
      OBVIOUS
    <2>. DEFINE m == sol[k]
                q == m \div 256
                b == m % 256
    <2>1. Shown(k) /\ L \in Nat
      BY <1>9, <1>11
    <2>2. m \in Nat /\ q \in Nat /\ b \in Nat
      BY <2>1, Quotient
    <2>3. CASE m = 0
      <3>1. b = 0 /\ Len(B(0)) = 0
        BY <1>6, <2>3
      <3>. QED
        BY <2>1, <2>3, <3>1
    <2>4. CASE m # 0
      <3>1. B(m) = Append(B(q), b)
        BY <1>6, <2>2, <2>4
      <3>. HIDE DEF q, b, m
      <3>2. Len(B(m)) \in Nat \ {0} /\ B(m)[Len(B(m))] = b
        <4>1. B(q) \in Seq(Nat)
          BY <1>5, <2>2
        <4>. QED
          BY <2>2, <3>1, <4>1
      <3>3. k < L /\ B(m)[L - k] = B(v)[L - k]
        BY <1>11, <2>1, <3>2 DEF m
      <3>. QED
        BY <2>1, <3>2, <3>3 DEF b, m
    <2>. QED
      BY <2>3, <2>4
  <1>. DEFINE w == FixedWidth(v)
  <1>12. /\ w = [i \in 1..SigSize |-> IF i <= SigSize - L THEN 0 ELSE B(v)[i - (SigSize - L)]]
    <2>1. ASSUME NEW i \in 1..SigSize
          PROVE  sol[SigSize - i] % 256
                     = IF i <= SigSize - L THEN 0 ELSE B(v)[i - (SigSize - L)]
      <3>1. SigSize - i \in 0..SigSize /\ L - (SigSize - i) = i - (SigSize - L)
        BY <1>3, <1>11
      <3>. QED
        BY <1>3, <1>10, <1>11, <3>1, SMTT(30)
    <2>. QED
      BY <1>1, <2>1
  <1>13. CASE L = SigSize
    BY <1>3, <1>11, <1>12, <1>13 DEF padTo32, B
  <1>14. CASE L < SigSize
    <2>. DEFINE z == [i \in 1..SigSize - L |-> 0]
    <2>1. z \in Seq(Nat) /\ Len(z) = SigSize - L
      BY <1>3, <1>11, <1>14
    <2>2. z \o B(v) = w
      BY <1>3, <1>11, <1>12, <1>14, <2>1
    <2>3. padTo32(B(v)) = z \o B(v)
      BY <1>3, <1>11, <1>14 DEF padTo32
    <2>. QED
      BY <2>2, <2>3 DEF B
  <1>. QED
    BY <1>3, <1>11, <1>13, <1>14

(***************************************************************************)
(* Keys and paths.                                                         *)
(***************************************************************************)
Nibble == 0..15

\* The key of an index is a few bytes, different for each.
LEMMA KeyBytes ==
    ASSUME NEW v \in 0..Word - 1
    PROVE  EncodeUint64(v) \in Seq(Byte) /\ Len(EncodeUint64(v)) <= 9
  <1>. DEFINE b == bigEndianUint64(v)
  <1>1. b \in Seq(Byte) /\ Len(b) \in Nat /\ Len(b) <= 8
    <2>1. v \in Nat /\ Len(b) <= 8
      BY TransactionsAssumption
    <2>2. b \in Seq(Byte) /\ Len(b) \in Nat
      BY <2>1, BytesType
    <2>. QED
      BY <2>1, <2>2
  <1>. HIDE DEF b
  <1>2. encodeLength(Len(b), 128) = <<128 + Len(b)>>
    BY <1>1 DEF encodeLength, ShortMax
  <1>3. 128 + Len(b) \in Byte
    <2>1. \A n \in Nat : n <= 8 => 128 + n \in Byte
      BY DEF Byte
    <2>. QED
      BY <1>1, <2>1
  <1>4. <<128 + Len(b)>> \o b \in Seq(Byte) /\ Len(<<128 + Len(b)>> \o b) = 1 + Len(b)
    BY <1>1, <1>3
  <1>5. EncodeUint64(v) = IF Len(b) = 1 /\ b[1] <= 127 THEN b ELSE <<128 + Len(b)>> \o b
    BY <1>2 DEF EncodeUint64, EncodeBytes, b
  <1>6. Len(b) <= 9 /\ 1 + Len(b) <= 9
    BY <1>1
  <1>. QED
    BY <1>1, <1>4, <1>5, <1>6

\* Two indices never share a key.
LEMMA KeysInjective ==
    ASSUME NEW v \in 0..Word - 1, NEW w \in 0..Word - 1, EncodeUint64(v) = EncodeUint64(w)
    PROVE  v = w
  <1>. DEFINE b(n) == bigEndianUint64(n)
              short(n) == Len(b(n)) = 1 /\ b(n)[1] <= 127
  <1>1. \A n \in {v, w} : n \in Nat /\ b(n) \in Seq(Nat) /\ Len(b(n)) \in Nat /\ Len(b(n)) <= 8
    <2>1. \A n \in {v, w} : n \in Nat /\ Len(b(n)) <= 8
      BY TransactionsAssumption
    <2>. QED
      BY <2>1, BytesNat
  <1>. HIDE DEF b
  <1>2. ASSUME NEW n \in {v, w}
        PROVE  EncodeUint64(n) = IF short(n) THEN b(n) ELSE <<128 + Len(b(n))>> \o b(n)
    <2>1. encodeLength(Len(b(n)), 128) = <<128 + Len(b(n))>>
      BY <1>1 DEF encodeLength, ShortMax
    <2>. QED
      BY <2>1 DEF EncodeUint64, EncodeBytes, b
  <1>3. b(v) = b(w)
    <2>1. ASSUME NEW n \in {v, w}
          PROVE  EncodeUint64(n)[1] <= 127 <=> short(n)
      <3>1. CASE short(n)
        BY <1>2, <3>1
      <3>2. CASE ~short(n)
        <4>1. EncodeUint64(n)[1] = 128 + Len(b(n))
          BY <1>1, <1>2, <3>2, SMTT(30)
        <4>. QED
          BY <1>1, <3>2, <4>1
      <3>. QED
        BY <3>1, <3>2
    <2>2. CASE short(v)
      BY <1>2, <2>1, <2>2
    <2>3. CASE ~short(v)
      <3>1. <<128 + Len(b(v))>> \o b(v) = <<128 + Len(b(w))>> \o b(w)
        BY <1>2, <2>1, <2>3
      <3>2. \A x \in Nat, s \in Seq(Nat) : /\ Len(<<x>> \o s) = Len(s) + 1
                                           /\ \A i \in 1..Len(s) : (<<x>> \o s)[i + 1] = s[i]
        BY SMTT(30)
      <3>3. \A n \in {v, w} : 128 + Len(b(n)) \in Nat
        BY <1>1
      <3>4. Len(b(v)) = Len(b(w)) /\ \A i \in 1..Len(b(v)) : b(v)[i] = b(w)[i]
        BY <1>1, <3>1, <3>2, <3>3
      <3>. QED
        BY <1>1, <3>4, SeqEqual
    <2>. QED
      BY <2>2, <2>3
  <1>. QED
    BY <1>1, <1>3, BytesInjective DEF b

\* Nibbles are below 16, and tell byte strings apart.
LEMMA NibblesType ==
    ASSUME NEW s \in Seq(Byte)
    PROVE  /\ Nibbles(s) \in Seq(Nibble)
           /\ Len(Nibbles(s)) = 2 * Len(s)
           /\ \A k \in 1..Len(s) : s[k] = 16 * Nibbles(s)[2 * k - 1] + Nibbles(s)[2 * k]
  <1>1. ASSUME NEW i \in 1..2 * Len(s)
        PROVE  (i + 1) \div 2 \in 1..Len(s)
    OBVIOUS
  <1>2. \A x \in Byte : x \div 16 \in Nibble /\ x % 16 \in Nibble /\ x = 16 * (x \div 16) + (x % 16)
    BY DEF Byte, Nibble
  <1>3. \A k \in 1..Len(s) : s[k] \in Byte
    OBVIOUS
  <1>4. \A i \in 1..2 * Len(s) : Nibbles(s)[i] \in Nibble
    BY <1>1, <1>2, <1>3 DEF Nibbles
  <1>5. /\ Nibbles(s) = [i \in 1..2 * Len(s) |-> Nibbles(s)[i]]
        /\ 2 * Len(s) \in Nat
    BY DEF Nibbles
  <1>6. Nibbles(s) \in Seq(Nibble) /\ Len(Nibbles(s)) = 2 * Len(s)
    <2>1. Nibbles(s) \in [1..2 * Len(s) -> Nibble]
      BY <1>4, <1>5
    <2>. QED
      BY <1>5, <2>1
  <1>7. ASSUME NEW k \in 1..Len(s)
        PROVE  s[k] = 16 * Nibbles(s)[2 * k - 1] + Nibbles(s)[2 * k]
    <2>1. /\ 2 * k - 1 \in 1..2 * Len(s) /\ 2 * k \in 1..2 * Len(s)
          /\ ((2 * k - 1) + 1) \div 2 = k /\ (2 * k + 1) \div 2 = k
          /\ (2 * k - 1) % 2 = 1 /\ (2 * k) % 2 = 0
      OBVIOUS
    <2>2. Nibbles(s)[2 * k - 1] = s[k] \div 16 /\ Nibbles(s)[2 * k] = s[k] % 16
      BY <2>1 DEF Nibbles
    <2>. QED
      BY <1>2, <1>3, <2>2
  <1>. QED
    BY <1>6, <1>7

\* Nibbles tell byte strings apart.
LEMMA NibblesInjective ==
    ASSUME NEW s \in Seq(Byte), NEW t \in Seq(Byte), Nibbles(s) = Nibbles(t)
    PROVE  s = t
  <1>. DEFINE n == Nibbles(s)
  <1>1. /\ Len(n) = 2 * Len(s) /\ \A k \in 1..Len(s) : s[k] = 16 * n[2 * k - 1] + n[2 * k]
        /\ Len(n) = 2 * Len(t) /\ \A k \in 1..Len(t) : t[k] = 16 * n[2 * k - 1] + n[2 * k]
    <2>1. Len(Nibbles(t)) = 2 * Len(t)
          /\ \A k \in 1..Len(t) : t[k] = 16 * Nibbles(t)[2 * k - 1] + Nibbles(t)[2 * k]
      BY NibblesType
    <2>. QED
      BY <2>1, NibblesType
  <1>. HIDE DEF n
  <1>2. Len(s) = Len(t)
    <2>1. Len(s) \in Nat /\ Len(t) \in Nat
      OBVIOUS
    <2>. QED
      BY <1>1, <2>1
  <1>3. \A k \in 1..Len(s) : s[k] = t[k]
    BY <1>1, <1>2
  <1>. QED
    BY <1>2, <1>3, SeqEqual

\* A 16 at the end of a path terminates it.
LEMMA Terminated == ASSUME NEW y \in Seq(Nat) PROVE hasTerm(Append(y, 16))
  <1>1. Append(y, 16) # << >>
    OBVIOUS
  <1>2. Len(Append(y, 16)) = Len(y) + 1
    OBVIOUS
  <1>3. Append(y, 16)[Len(y) + 1] = 16
    OBVIOUS
  <1>. QED
    BY <1>1, <1>2, <1>3 DEF hasTerm, Last

\* A byte of two nibbles.
LEMMA TwoNibbles ==
    ASSUME NEW a \in Nat, NEW b \in Nibble
    PROVE  (16 * a + b) \div 16 = a /\ (16 * a + b) % 16 = b /\ a \in Nat /\ b \in Nat
  BY DEF Nibble

\* A path is read back from its hex-prefix encoding, with a 16 at the end of
\* a terminated one.
LEMMA PathRead ==
    ASSUME NEW x \in Seq(Nibble), NEW terminated \in BOOLEAN
    PROVE  compactToHex(HexPrefix(x, terminated)) = IF terminated THEN Append(x, 16) ELSE x
  <1>. DEFINE t == IF terminated THEN 2 ELSE 0
              hp == HexPrefix(x, terminated)
              n == Nibbles(hp)
              l == Len(x)
              odd == l % 2
  <1>1. l \in Nat /\ odd \in {0, 1} /\ t \in {0, 2} /\ (terminated <=> t = 2)
        /\ \A i \in 1..l : x[i] \in Nibble
    OBVIOUS
  <1>2. /\ n \in Seq(Nat) /\ Len(n) = l + 2 - odd
        /\ n[1] = t + odd
        /\ \A i \in 1..l : n[i + 2 - odd] = x[i]
        /\ hp # << >>
    <2>1. CASE odd = 0
      <3>. DEFINE h == l \div 2
      <3>1. h \in Nat /\ l = 2 * h
        BY <1>1, <2>1
      <3>2. hp = [k \in 1..h + 1 |-> IF k = 1 THEN 16 * t ELSE 16 * x[2 * k - 3] + x[2 * k - 2]]
        BY <2>1 DEF HexPrefix
      <3>. HIDE DEF hp, h, l, t
      <3>3. Len(hp) = h + 1 /\ hp # << >>
        <4>1. h + 1 \in Nat /\ h + 1 # 0
          BY <3>1
        <4>2. Len(hp) = h + 1
          BY <3>2, <4>1
        <4>. QED
          BY <4>1, <4>2
      <3>4. n = [i \in 1..2 * (h + 1) |-> IF i % 2 = 1 THEN hp[(i + 1) \div 2] \div 16
                                          ELSE hp[(i + 1) \div 2] % 16]
        BY <3>3 DEF Nibbles
      <3>5. hp[1] = 16 * t
        BY <3>1, <3>2
      <3>6. \A m \in 1..h : hp[m + 1] = 16 * x[2 * m - 1] + x[2 * m]
        BY <3>1, <3>2
      <3>7. n[1] = t /\ n[2] = 0
        BY <1>1, <3>1, <3>4, <3>5
      <3>8. ASSUME NEW m \in 1..h
            PROVE  n[2 * m + 1] = x[2 * m - 1] /\ n[2 * m + 2] = x[2 * m]
        <4>1. x[2 * m - 1] \in Nibble /\ x[2 * m] \in Nibble
          BY <1>1, <3>1
        <4>2. hp[m + 1] \div 16 = x[2 * m - 1] /\ hp[m + 1] % 16 = x[2 * m]
          <5>. DEFINE a == x[2 * m - 1]
                      b == x[2 * m]
          <5>1. hp[m + 1] = 16 * a + b
            BY <3>6
          <5>2. a \in Nibble /\ b \in Nibble
            BY <4>1
          <5>. HIDE DEF a, b
          <5>3. a \in Nat
            BY <5>2 DEF Nibble
          <5>4. (16 * a + b) \div 16 = a /\ (16 * a + b) % 16 = b
            BY <5>2, <5>3, TwoNibbles
          <5>5. hp[m + 1] \div 16 = a /\ hp[m + 1] % 16 = b
            BY <5>1, <5>4
          <5>. QED
            BY <5>5 DEF a, b
        <4>3. /\ 2 * m + 1 \in 1..2 * (h + 1) /\ 2 * m + 2 \in 1..2 * (h + 1)
              /\ (2 * m + 1) % 2 = 1 /\ (2 * m + 2) % 2 = 0
              /\ ((2 * m + 1) + 1) \div 2 = m + 1 /\ ((2 * m + 2) + 1) \div 2 = m + 1
          BY <3>1
        <4>. QED
          BY <3>4, <4>2, <4>3
      <3>9. ASSUME NEW i \in 1..l PROVE n[i + 2] = x[i]
        <4>1. CASE i % 2 = 1
          <5>1. PICK m \in 1..h : i = 2 * m - 1
            <6>1. (i + 1) \div 2 \in 1..h /\ i = 2 * ((i + 1) \div 2) - 1
              BY <1>1, <3>1, <4>1
            <6>. QED
              BY <6>1
          <5>. QED
            BY <3>8, <5>1
        <4>2. CASE i % 2 = 0
          <5>1. PICK m \in 1..h : i = 2 * m
            <6>1. i \div 2 \in 1..h /\ i = 2 * (i \div 2)
              BY <1>1, <3>1, <4>2
            <6>. QED
              BY <6>1
          <5>. QED
            BY <3>8, <5>1
        <4>. QED
          BY <1>1, <4>1, <4>2
      <3>. HIDE DEF n
      <3>10. \A i \in 1..l + 2 : n[i] \in Nat
        <4>. SUFFICES ASSUME NEW i \in 1..l + 2 PROVE n[i] \in Nat
          OBVIOUS
        <4>1. CASE i \in 1..2
          BY <1>1, <3>7, <4>1
        <4>2. CASE i \in 3..l + 2
          <5>1. i - 2 \in 1..l /\ n[(i - 2) + 2] = x[i - 2] /\ (i - 2) + 2 = i
            BY <1>1, <3>9, <4>2
          <5>2. n[i] \in Nibble
            BY <1>1, <5>1
          <5>. QED
            BY <5>2 DEF Nibble
        <4>. QED
          BY <1>1, <4>1, <4>2
      <3>11. Len(n) = l + 2 /\ n \in Seq(Nat)
        <4>1. n = [i \in 1..l + 2 |-> n[i]] /\ l + 2 \in Nat
          BY <1>1, <3>1, <3>4
        <4>2. n \in [1..l + 2 -> Nat]
          BY <3>10, <4>1
        <4>. QED
          BY <4>1, <4>2
      <3>12. l + 2 - odd = l + 2 /\ t + odd = t /\ \A i \in 1..l : i + 2 - odd = i + 2
        BY <1>1, <2>1
      <3>. QED
        BY <3>3, <3>7, <3>9, <3>11, <3>12
    <2>2. CASE odd = 1
      <3>. DEFINE h == (l + 1) \div 2
      <3>1. h \in Nat \ {0} /\ l = 2 * h - 1
        BY <1>1, <2>2
      <3>2. hp = [k \in 1..h |-> IF k = 1 THEN 16 * (t + 1) + x[1]
                                 ELSE 16 * x[2 * k - 2] + x[2 * k - 1]]
        BY <2>2 DEF HexPrefix
      <3>. HIDE DEF hp, h, l, t
      <3>3. Len(hp) = h /\ hp # << >>
        BY <3>1, <3>2
      <3>4. n = [i \in 1..2 * h |-> IF i % 2 = 1 THEN hp[(i + 1) \div 2] \div 16
                                    ELSE hp[(i + 1) \div 2] % 16]
        BY <3>3 DEF Nibbles
      <3>5. hp[1] = 16 * (t + 1) + x[1] /\ x[1] \in Nibble
        BY <1>1, <3>1, <3>2
      <3>6. \A m \in 1..h - 1 : hp[m + 1] = 16 * x[2 * m] + x[2 * m + 1]
        BY <3>1, <3>2
      <3>7. n[1] = t + 1 /\ n[2] = x[1]
        <4>1. hp[1] \div 16 = t + 1 /\ hp[1] % 16 = x[1]
          <5>1. t + 1 \in Nat
            BY <1>1
          <5>. QED
            BY <3>5, <5>1, TwoNibbles
        <4>. QED
          BY <3>1, <3>4, <4>1
      <3>8. ASSUME NEW m \in 1..h - 1
            PROVE  n[2 * m + 1] = x[2 * m] /\ n[2 * m + 2] = x[2 * m + 1]
        <4>1. x[2 * m] \in Nibble /\ x[2 * m + 1] \in Nibble
          BY <1>1, <3>1
        <4>2. hp[m + 1] \div 16 = x[2 * m] /\ hp[m + 1] % 16 = x[2 * m + 1]
          <5>. DEFINE a == x[2 * m]
                      b == x[2 * m + 1]
          <5>1. hp[m + 1] = 16 * a + b
            BY <3>6
          <5>2. a \in Nibble /\ b \in Nibble
            BY <4>1
          <5>. HIDE DEF a, b
          <5>3. a \in Nat
            BY <5>2 DEF Nibble
          <5>4. (16 * a + b) \div 16 = a /\ (16 * a + b) % 16 = b
            BY <5>2, <5>3, TwoNibbles
          <5>5. hp[m + 1] \div 16 = a /\ hp[m + 1] % 16 = b
            BY <5>1, <5>4
          <5>. QED
            BY <5>5 DEF a, b
        <4>3. /\ 2 * m + 1 \in 1..2 * h /\ 2 * m + 2 \in 1..2 * h
              /\ (2 * m + 1) % 2 = 1 /\ (2 * m + 2) % 2 = 0
              /\ ((2 * m + 1) + 1) \div 2 = m + 1 /\ ((2 * m + 2) + 1) \div 2 = m + 1
          BY <3>1
        <4>. QED
          BY <3>4, <4>2, <4>3
      <3>9. ASSUME NEW i \in 1..l PROVE n[i + 1] = x[i]
        <4>0. CASE i = 1
          BY <3>7, <4>0
        <4>1. CASE i # 1 /\ i % 2 = 1
          <5>1. PICK m \in 1..h - 1 : i = 2 * m + 1
            <6>1. (i - 1) \div 2 \in 1..h - 1 /\ i = 2 * ((i - 1) \div 2) + 1
              BY <1>1, <3>1, <4>1
            <6>. QED
              BY <6>1
          <5>. QED
            BY <3>8, <5>1
        <4>2. CASE i % 2 = 0
          <5>1. PICK m \in 1..h - 1 : i = 2 * m
            <6>1. i \div 2 \in 1..h - 1 /\ i = 2 * (i \div 2)
              BY <1>1, <3>1, <4>2
            <6>. QED
              BY <6>1
          <5>. QED
            BY <3>8, <5>1
        <4>. QED
          BY <1>1, <4>0, <4>1, <4>2
      <3>. HIDE DEF n
      <3>10. \A i \in 1..l + 1 : n[i] \in Nat
        <4>. SUFFICES ASSUME NEW i \in 1..l + 1 PROVE n[i] \in Nat
          OBVIOUS
        <4>1. CASE i = 1
          BY <1>1, <3>7, <4>1
        <4>2. CASE i \in 2..l + 1
          <5>1. i - 1 \in 1..l /\ n[(i - 1) + 1] = x[i - 1] /\ (i - 1) + 1 = i
            BY <1>1, <3>9, <4>2
          <5>2. n[i] \in Nibble
            BY <1>1, <5>1
          <5>. QED
            BY <5>2 DEF Nibble
        <4>. QED
          BY <1>1, <4>1, <4>2
      <3>11. Len(n) = l + 1 /\ n \in Seq(Nat)
        <4>1. n = [i \in 1..l + 1 |-> n[i]] /\ l + 1 \in Nat
          BY <1>1, <3>1, <3>4
        <4>2. n \in [1..l + 1 -> Nat]
          BY <3>10, <4>1
        <4>. QED
          BY <4>1, <4>2
      <3>12. l + 2 - odd = l + 1 /\ t + odd = t + 1 /\ \A i \in 1..l : i + 2 - odd = i + 1
        BY <1>1, <2>2
      <3>. QED
        BY <3>3, <3>7, <3>9, <3>11, <3>12
    <2>. QED
      BY <1>1, <2>1, <2>2
  <1>. DEFINE base == Append(n, 16)
              kept == IF base[1] < 2 THEN Front(base) ELSE base
  <1>3. compactToHex(hp) = SubSeq(kept, 3 - (base[1] % 2), Len(kept))
    BY <1>2 DEF compactToHex, keybytesToHex
  <1>. HIDE DEF hp, n, l, t, odd
  <1>4. base[1] = t + odd /\ 3 - (base[1] % 2) = 3 - odd
    <2>1. base[1] = n[1]
      BY <1>1, <1>2
    <2>. QED
      BY <1>1, <1>2, <2>1, SMTT(30)
  <1>5. CASE terminated
    <2>1. kept = base
      BY <1>1, <1>4, <1>5
    <2>2. SubSeq(base, 3 - odd, Len(base)) = Append(x, 16)
      <3>1. base \in Seq(Nat) /\ Len(base) = l + 3 - odd
            /\ base[l + 3 - odd] = 16 /\ \A i \in 1..l + 2 - odd : base[i] = n[i]
        BY <1>1, <1>2
      <3>. DEFINE a == SubSeq(base, 3 - odd, Len(base))
                  c == Append(x, 16)
      <3>2. Len(a) = l + 1 /\ \A i \in 1..l + 1 : a[i] = base[i + 2 - odd]
        <4>. HIDE DEF base
        <4>. QED
          BY <1>1, <3>1
      <3>3. Len(c) = l + 1 /\ c[l + 1] = 16 /\ \A i \in 1..l : c[i] = x[i]
        BY DEF l
      <3>4. a \in Seq(Nat) /\ c \in Seq(Nat)
        <4>1. x \in Seq(Nat)
          <5>1. Nibble \subseteq Nat
            BY DEF Nibble
          <5>. QED
            BY <5>1, SeqMonotonic
        <4>2. a \in Seq(Nat)
          <5>. HIDE DEF base
          <5>. QED
            BY <1>1, <3>1
        <4>3. c \in Seq(Nat)
          BY <4>1
        <4>. HIDE DEF a, c
        <4>. QED
          BY <4>2, <4>3
      <3>. HIDE DEF a, c, base
      <3>5. ASSUME NEW i \in 1..l + 1 PROVE a[i] = c[i]
        <4>1. CASE i = l + 1
          BY <1>1, <3>1, <3>2, <3>3, <4>1
        <4>2. CASE i \in 1..l
          <5>1. i + 2 - odd \in 1..l + 2 - odd /\ i \in 1..l + 1
            BY <1>1, <4>2
          <5>. QED
            BY <1>2, <3>1, <3>2, <3>3, <4>2, <5>1
        <4>. QED
          BY <1>1, <4>1, <4>2
      <3>6. a = c
        BY <1>1, <3>2, <3>3, <3>4, <3>5, SeqEqual
      <3>. QED
        BY <3>6 DEF a, c
    <2>. QED
      BY <1>3, <1>4, <1>5, <2>1, <2>2 DEF hp
  <1>6. CASE ~terminated
    <2>1. kept = n
      <3>1. Front(base) = n
        BY <1>1, <1>2 DEF Front
      <3>. QED
        BY <1>1, <1>4, <1>6, <3>1
    <2>2. SubSeq(n, 3 - odd, Len(n)) = x
      BY <1>1, <1>2 DEF l
    <2>. QED
      BY <1>3, <1>4, <1>6, <2>1, <2>2 DEF hp
  <1>. QED
    BY <1>5, <1>6 DEF hp

(***************************************************************************)
(* The trie of J.                                                          *)
(***************************************************************************)
\* p begins as q does, for i nibbles.
Agree(p, q, i) == Len(p) >= i /\ \A n \in 1..i : p[n] = q[n]

Paths(J) == DOMAIN J \subseteq Seq(Nibble)

\* The greatest of some numbers in an interval.
LEMMA GreatestOf ==
    ASSUME NEW a \in Nat, NEW b \in Nat, NEW T \in SUBSET (a..b), T # {}
    PROVE  Max(T) \in T /\ \A n \in T : n <= Max(T)
  <1>. DEFINE D == {k \in 0..b : b - k \in T}
  <1>1. D \in SUBSET Nat
    OBVIOUS
  <1>2. D # {}
    <2>1. PICK n \in T : TRUE
      OBVIOUS
    <2>2. n \in Nat /\ n <= b /\ b - n \in 0..b /\ b - (b - n) = n
      BY <2>1
    <2>. QED
      BY <2>1, <2>2
  <1>3. PICK k \in D : \A m \in D : k <= m
    <2>. HIDE DEF D
    <2>. QED
      BY <1>1, <1>2, LeastOf
  <1>4. \A n \in T : n <= b - k
    <2>. SUFFICES ASSUME NEW n \in T PROVE n <= b - k
      OBVIOUS
    <2>1. n \in Nat /\ n <= b /\ b - n \in 0..b /\ b - (b - n) = n
      OBVIOUS
    <2>2. b - n \in D
      BY <2>1
    <2>3. k \in Nat /\ k <= b - n
      <3>. HIDE DEF D
      <3>. QED
        BY <1>1, <1>3, <2>2
    <2>. QED
      BY <2>1, <2>3
  <1>5. \E x \in T : \A y \in T : x >= y
    <2>1. b - k \in T
      BY <1>3
    <2>2. \A n \in T : b - k >= n
      BY <1>3, <1>4
    <2>. QED
      BY <2>1, <2>2
  <1>6. Max(T) \in T /\ \A y \in T : Max(T) >= y
    BY <1>5 DEF Max
  <1>. QED
    BY <1>6

\* What the items are that the nodes are made of.
LEMMA Items ==
    /\ EmptyString.isList = FALSE /\ EmptyString.size = 0
    /\ \A x : PathString(x).path = x
    /\ \A v : /\ ValueString(v).isList = FALSE /\ ValueString(v).size = v.size
              /\ ValueString(v).value = <<v>>
    /\ \A n : /\ HashString(n).isList = FALSE /\ HashString(n).size = HashSize
              /\ HashString(n).hashOf = <<n>>
    /\ \A c : NodeList(c).isList = TRUE /\ NodeList(c).children = c
  BY DEF EmptyString, PathString, ValueString, HashString, NodeList

\* A node depends on the nodes below it only: of some of its paths, that agree
\* on more nibbles.
LEMMA ComposedDepends ==
    ASSUME NEW J, Paths(J), NEW P \in SUBSET DOMAIN J, NEW i \in Nat, NEW g, NEW h,
           \A Q \in SUBSET P, j \in Nat :
               Q # {} /\ j > i /\ (\A p \in Q : Len(p) >= j) => g[<<Q, j>>] = h[<<Q, j>>]
    PROVE  Composed(J, P, i, g) = Composed(J, P, i, h)
  <1>. DEFINE path == CHOOSE p \in P : TRUE
              shared == {n \in i + 1..Len(path) :
                            \A p \in P : Len(p) >= n /\ SubSeq(p, 1, n) = SubSeq(path, 1, n)}
              j == Max(shared)
              below(y) == {p \in P : Len(p) > i /\ p[i + 1] = y}
  <1>1. shared # {} => Reference(P, g[<<P, j>>]) = Reference(P, h[<<P, j>>])
    <2>1. CASE P = {}
      BY <2>1 DEF Reference
    <2>2. CASE P # {} /\ shared # {}
      <3>1. path \in P /\ Len(path) \in Nat
        BY <2>2 DEF Paths
      <3>2. shared \in SUBSET (i + 1..Len(path)) /\ i + 1 \in Nat
        OBVIOUS
      <3>3. j \in shared
        <4>. HIDE DEF shared, path
        <4>. QED
          BY <2>2, <3>1, <3>2, GreatestOf
      <3>4. j \in Nat /\ j > i /\ \A p \in P : Len(p) >= j
        <4>1. \A n \in shared : n \in Nat /\ n > i /\ \A p \in P : Len(p) >= n
          BY <3>1
        <4>. HIDE DEF shared, path, j
        <4>. QED
          BY <3>3, <4>1
      <3>. HIDE DEF j
      <3>. QED
        BY <2>2, <3>4
    <2>. QED
      BY <2>1, <2>2
  <1>2. ASSUME NEW y
        PROVE  Reference(below(y), g[<<below(y), i + 1>>])
                   = Reference(below(y), h[<<below(y), i + 1>>])
    <2>1. CASE below(y) = {}
      BY <2>1 DEF Reference
    <2>2. CASE below(y) # {}
      <3>1. below(y) \in SUBSET P /\ i + 1 \in Nat /\ i + 1 > i
        OBVIOUS
      <3>2. \A p \in below(y) : Len(p) >= i + 1
        BY DEF Paths
      <3>. HIDE DEF below
      <3>. QED
        BY <2>2, <3>1, <3>2
    <2>. QED
      BY <2>1, <2>2
  <1>. DEFINE ending == {p \in P : Len(p) = i}
              leaf == NodeList(<<PathString(HexPrefix(SubSeq(path, i + 1, Len(path)), TRUE)),
                                 ValueString(J[path])>>)
              child(k, y) == IF y <= 16
                             THEN Reference(below(y - 1), k[<<below(y - 1), i + 1>>])
                             ELSE IF ending # {} THEN ValueString(J[CHOOSE p \in ending : TRUE])
                             ELSE EmptyString
              part == PathString(HexPrefix(SubSeq(path, i + 1, j), FALSE))
  <1>3. ASSUME NEW k
        PROVE  Composed(J, P, i, k) =
                   IF Cardinality(P) = 1 THEN leaf
                   ELSE IF shared # {} THEN NodeList(<<part, Reference(P, k[<<P, j>>])>>)
                   ELSE NodeList([y \in 1..17 |-> child(k, y)])
    BY Zenon DEF Composed
  <1>4. \A y \in 1..17 : child(g, y) = child(h, y)
    <2>. HIDE DEF below, ending
    <2>. QED
      BY <1>2
  <1>5. [y \in 1..17 |-> child(g, y)] = [y \in 1..17 |-> child(h, y)]
    BY <1>4, Zenon
  <1>. HIDE DEF leaf, child, shared, j, part
  <1>. QED
    BY <1>1, <1>3, <1>5

\* The nodes of a trie.
Nodes(J, g) == \A P \in SUBSET DOMAIN J, i \in Nat : g[<<P, i>>] = Composed(J, P, i, g)

\* Every J has them: the deepest first.
LEMMA NodesExist ==
    ASSUME NEW J, Paths(J), NEW M \in Nat, \A p \in DOMAIN J : Len(p) <= M
    PROVE  \E g : g = [at \in (SUBSET DOMAIN J) \X Nat |-> Composed(J, at[1], at[2], g)]
  <1>. DEFINE D == (SUBSET DOMAIN J) \X Nat
              Deep(g, k) == \A P \in SUBSET DOMAIN J, i \in Nat :
                                i + k > M => g[<<P, i>>] = Composed(J, P, i, g)
              Good == {k \in Nat : \E g : Deep(g, k)}
              next(g) == [at \in D |-> Composed(J, at[1], at[2], g)]
  <1>1. ASSUME NEW g, NEW P \in SUBSET DOMAIN J, NEW i \in Nat
        PROVE  next(g)[<<P, i>>] = Composed(J, P, i, g)
    <2>1. <<P, i>> \in D /\ <<P, i>>[1] = P /\ <<P, i>>[2] = i
      OBVIOUS
    <2>. QED
      BY <2>1
  <1>. HIDE DEF next
  <1>2. ASSUME NEW g, NEW k \in Nat, k # 0 => Deep(g, k - 1)
        PROVE  Deep(next(g), k)
    <2>. SUFFICES ASSUME NEW P \in SUBSET DOMAIN J, NEW i \in Nat, i + k > M
                  PROVE  next(g)[<<P, i>>] = Composed(J, P, i, next(g))
      OBVIOUS
    <2>1. ASSUME NEW Q \in SUBSET P, NEW j \in Nat, Q # {}, j > i, \A p \in Q : Len(p) >= j
          PROVE  g[<<Q, j>>] = next(g)[<<Q, j>>]
      <3>1. Q \in SUBSET DOMAIN J
        OBVIOUS
      <3>2. j <= M
        <4>1. PICK p \in Q : TRUE
          BY <2>1
        <4>2. Len(p) >= j /\ Len(p) <= M /\ Len(p) \in Nat
          BY <2>1, <4>1 DEF Paths
        <4>. QED
          BY <4>2
      <3>3. k # 0 /\ j + (k - 1) > M
        BY <2>1, <3>2
      <3>4. g[<<Q, j>>] = Composed(J, Q, j, g)
        BY <1>2, <3>1, <3>3
      <3>. QED
        BY <1>1, <3>1, <3>4
    <2>2. Composed(J, P, i, g) = Composed(J, P, i, next(g))
      BY <2>1, ComposedDepends, SMTT(30)
    <2>. QED
      BY <1>1, <2>2
  <1>3. 0 \in Good
    BY <1>2
  <1>4. ASSUME NEW k \in Good PROVE k + 1 \in Good
    <2>1. PICK g : Deep(g, k)
      OBVIOUS
    <2>2. k + 1 \in Nat /\ (k + 1) - 1 = k
      OBVIOUS
    <2>3. Deep(next(g), k + 1)
      <3>. HIDE DEF Deep
      <3>. QED
        BY <1>2, <2>1, <2>2
    <2>. QED
      BY <2>2, <2>3
  <1>5. Good = Nat
    <2>1. Good \in SUBSET Nat
      OBVIOUS
    <2>. HIDE DEF Good
    <2>. QED
      BY <1>3, <1>4, <2>1, AllNat
  <1>6. PICK g : Deep(g, M + 1)
    <2>1. M + 1 \in Good
      <3>. HIDE DEF Good
      <3>. QED
        BY <1>5
    <2>. QED
      BY <2>1
  <1>7. \A P \in SUBSET DOMAIN J, i \in Nat : g[<<P, i>>] = Composed(J, P, i, g)
    <2>1. \A i \in Nat : i + (M + 1) > M
      OBVIOUS
    <2>. QED
      BY <1>6, <2>1
  <1>8. next(g) = [at \in D |-> Composed(J, at[1], at[2], next(g))]
    <2>1. ASSUME NEW P \in SUBSET DOMAIN J, NEW i \in Nat
          PROVE  Composed(J, P, i, g) = Composed(J, P, i, next(g))
      <3>1. \A Q \in SUBSET P, j \in Nat : g[<<Q, j>>] = next(g)[<<Q, j>>]
        BY <1>1, <1>7
      <3>. QED
        BY <3>1, ComposedDepends, SMTT(30)
    <2>2. \A at \in D : at[1] \in SUBSET DOMAIN J /\ at[2] \in Nat
      OBVIOUS
    <2>3. \A at \in D : Composed(J, at[1], at[2], g) = Composed(J, at[1], at[2], next(g))
      BY <2>1, <2>2
    <2>. QED
      BY <2>3, Zenon DEF next
  <1>. QED
    BY <1>8, Zenon

\* The root is the node of all the paths.
LEMMA RootNode ==
    ASSUME NEW J, Paths(J), NEW M \in Nat, \A p \in DOMAIN J : Len(p) <= M
    PROVE  \E g : /\ Nodes(J, g)
                  /\ TrieRoot(J) = IF DOMAIN J = {} THEN EmptyString ELSE g[<<DOMAIN J, 0>>]
  <1>. DEFINE sol == CHOOSE g : g = [at \in (SUBSET DOMAIN J) \X Nat |->
                                        Composed(J, at[1], at[2], g)]
  <1>1. TrieRoot(J) = IF DOMAIN J = {} THEN EmptyString ELSE sol[<<DOMAIN J, 0>>]
    BY DEF TrieRoot
  <1>2. sol = [at \in (SUBSET DOMAIN J) \X Nat |-> Composed(J, at[1], at[2], sol)]
    <2>1. \E g : g = [at \in (SUBSET DOMAIN J) \X Nat |-> Composed(J, at[1], at[2], g)]
      BY NodesExist
    <2>. QED
      BY <2>1, Zenon
  <1>. HIDE DEF sol
  <1>3. Nodes(J, sol)
    <2>. SUFFICES ASSUME NEW P \in SUBSET DOMAIN J, NEW i \in Nat
                  PROVE  sol[<<P, i>>] = Composed(J, P, i, sol)
      BY DEF Nodes
    <2>1. <<P, i>> \in (SUBSET DOMAIN J) \X Nat /\ <<P, i>>[1] = P /\ <<P, i>>[2] = i
      OBVIOUS
    <2>. QED
      BY <1>2, <2>1
  <1>. QED
    BY <1>1, <1>3

(***************************************************************************)
(* Walking a trie towards a path q, and the 16 after it.                   *)
(***************************************************************************)
\* What is left of it after i nibbles.
Rest(q, i) == SubSeq(Append(q, 16), i + 1, Len(q) + 1)

\* What is left of q after i nibbles, with the 16 behind it.
LEMMA RestOf ==
    ASSUME NEW q \in Seq(Nibble), NEW i \in 0..Len(q)
    PROVE  /\ Rest(q, i) \in Seq(Nat) /\ Len(Rest(q, i)) = Len(q) - i + 1
           /\ \A m \in 1..Len(q) - i : Rest(q, i)[m] = q[i + m] /\ Rest(q, i)[m] \in Nibble
           /\ Rest(q, i)[Len(q) - i + 1] = 16
  <1>1. q \in Seq(Nat)
    <2>1. Nibble \subseteq Nat
      BY DEF Nibble
    <2>. QED
      BY <2>1, SeqMonotonic
  <1>. DEFINE k == Append(q, 16)
              l == Len(q)
  <1>2. /\ k \in Seq(Nat) /\ Len(k) = l + 1 /\ k[l + 1] = 16 /\ l \in Nat
        /\ \A m \in 1..l : k[m] = q[m] /\ q[m] \in Nibble
    BY <1>1
  <1>3. Rest(q, i) = SubSeq(k, i + 1, l + 1)
    BY DEF Rest
  <1>. HIDE DEF k, l
  <1>4. /\ Rest(q, i) \in Seq(Nat) /\ Len(Rest(q, i)) = l - i + 1
        /\ \A m \in 1..l - i + 1 : Rest(q, i)[m] = k[i + m]
    BY <1>2, <1>3, SMTT(30) DEF l
  <1>5. \A m \in 1..l - i : i + m \in 1..l /\ m \in 1..l - i + 1
    BY <1>2 DEF l
  <1>6. l - i + 1 \in 1..l - i + 1 /\ i + (l - i + 1) = l + 1
    BY <1>2 DEF l
  <1>. QED
    BY <1>2, <1>4, <1>5, <1>6, ZenonT(30) DEF l

\* The first of what is left.
LEMMA HeadOfRest ==
    ASSUME NEW q \in Seq(Nibble), NEW i \in 0..Len(q)
    PROVE  /\ Rest(q, i) # << >>
           /\ Head(Rest(q, i)) = IF i = Len(q) THEN 16 ELSE q[i + 1]
           /\ i < Len(q) => q[i + 1] \in Nibble
  <1>. DEFINE r == Rest(q, i)
              l == Len(q)
  <1>1. /\ r \in Seq(Nat) /\ Len(r) = l - i + 1 /\ r[l - i + 1] = 16 /\ l \in Nat
        /\ \A m \in 1..l - i : r[m] = q[i + m]
    BY RestOf
  <1>. HIDE DEF r
  <1>2. r # << >> /\ Head(r) = r[1]
    BY <1>1
  <1>3. i < l => 1 \in 1..l - i /\ i + 1 \in 1..l
    BY <1>1
  <1>4. i < l => q[i + 1] \in Nibble
    BY <1>3
  <1>. QED
    BY <1>1, <1>2, <1>3, <1>4 DEF r

\* What is left after n more.
LEMMA RestOfRest ==
    ASSUME NEW q \in Seq(Nibble), NEW i \in 0..Len(q), NEW n \in 0..Len(q) - i
    PROVE  SubSeq(Rest(q, i), n + 1, Len(Rest(q, i))) = Rest(q, i + n)
  <1>. DEFINE r == Rest(q, i)
              u == Rest(q, i + n)
              l == Len(q)
              s == SubSeq(r, n + 1, Len(r))
  <1>1. l \in Nat /\ i + n \in 0..l /\ n \in Nat
    OBVIOUS
  <1>2. /\ r \in Seq(Nat) /\ Len(r) = l - i + 1 /\ r[l - i + 1] = 16
        /\ \A m \in 1..l - i : r[m] = q[i + m]
    BY RestOf
  <1>3. /\ u \in Seq(Nat) /\ Len(u) = l - (i + n) + 1 /\ u[l - (i + n) + 1] = 16
        /\ \A m \in 1..l - (i + n) : u[m] = q[(i + n) + m]
    BY <1>1, RestOf
  <1>. HIDE DEF r, u
  <1>4. /\ s \in Seq(Nat) /\ Len(s) = l - (i + n) + 1
        /\ \A m \in 1..l - (i + n) + 1 : s[m] = r[n + m]
    BY <1>1, <1>2, SMTT(30)
  <1>. HIDE DEF s, l
  <1>5. ASSUME NEW m \in 1..l - (i + n) + 1 PROVE s[m] = u[m]
    <2>1. CASE m = l - (i + n) + 1
      <3>1. n + m = l - i + 1
        BY <1>1, <2>1
      <3>. QED
        BY <1>2, <1>3, <1>4, <2>1, <3>1
    <2>2. CASE m \in 1..l - (i + n)
      <3>1. n + m \in 1..l - i /\ i + (n + m) = (i + n) + m
        BY <1>1, <2>2
      <3>. QED
        BY <1>2, <1>3, <1>4, <2>2, <3>1
    <2>. QED
      BY <1>1, <2>1, <2>2
  <1>6. s = u
    BY <1>3, <1>4, <1>5, SeqEqual
  <1>. QED
    BY <1>6 DEF s, r, u

\* A prefix of what is left agrees with q; one that ends in 16 ends it.
LEMMA PrefixOfRest ==
    ASSUME NEW q \in Seq(Nibble), NEW i \in 0..Len(q), NEW x \in Seq(Nibble)
    PROVE  /\ IsPrefix(x, Rest(q, i)) =>
                  Len(x) <= Len(q) - i /\ \A m \in 1..Len(x) : x[m] = q[i + m]
           /\ IsPrefix(Append(x, 16), Rest(q, i)) =>
                  Len(x) = Len(q) - i /\ \A m \in 1..Len(x) : x[m] = q[i + m]
  <1>. DEFINE r == Rest(q, i)
              l == Len(q)
              t == Append(x, 16)
  <1>1. /\ r \in Seq(Nat) /\ Len(r) = l - i + 1 /\ r[l - i + 1] = 16 /\ l \in Nat
        /\ \A m \in 1..l - i : r[m] = q[i + m] /\ r[m] \in Nibble
    BY RestOf
  <1>2. x \in Seq(Nat) /\ Len(x) \in Nat /\ \A m \in 1..Len(x) : x[m] \in Nibble
    <2>1. x \in Seq(Nat)
      <3>1. Nibble \subseteq Nat
        BY DEF Nibble
      <3>. QED
        BY <3>1, SeqMonotonic
    <2>. QED
      BY <2>1
  <1>3. /\ t \in Seq(Nat) /\ Len(t) = Len(x) + 1 /\ t[Len(x) + 1] = 16
        /\ \A m \in 1..Len(x) : t[m] = x[m]
    BY <1>2
  <1>4. ASSUME NEW s \in Seq(Nat), IsPrefix(s, r)
        PROVE  Len(s) \in Nat /\ Len(s) <= l - i + 1 /\ \A m \in 1..Len(s) : s[m] = r[m]
    <2>1. Len(s) \in Nat /\ Len(s) <= Len(r) /\ SubSeq(s, 1, Len(s)) = SubSeq(r, 1, Len(s))
      BY <1>4 DEF IsPrefix
    <2>. HIDE DEF r
    <2>2. \A m \in 1..Len(s) : SubSeq(s, 1, Len(s))[m] = s[m]
      OBVIOUS
    <2>3. \A m \in 1..Len(s) : SubSeq(r, 1, Len(s))[m] = r[m]
      BY <1>1, <2>1
    <2>. QED
      BY <1>1, <2>1, <2>2, <2>3
  <1>. HIDE DEF r, t
  <1>5. 16 \notin Nibble
    BY DEF Nibble
  <1>6. ASSUME IsPrefix(x, r)
        PROVE  Len(x) <= l - i /\ \A m \in 1..Len(x) : x[m] = q[i + m]
    <2>1. Len(x) <= l - i + 1 /\ \A m \in 1..Len(x) : x[m] = r[m]
      BY <1>2, <1>4, <1>6
    <2>2. Len(x) # l - i + 1
      <3>. SUFFICES ASSUME Len(x) = l - i + 1 PROVE FALSE
        OBVIOUS
      <3>1. l - i + 1 \in 1..Len(x)
        BY <1>1
      <3>. QED
        BY <1>1, <1>2, <1>5, <2>1, <3>1, ZenonT(30)
    <2>3. Len(x) <= l - i
      BY <1>1, <1>2, <2>1, <2>2
    <2>4. \A m \in 1..Len(x) : m \in 1..l - i
      BY <1>1, <1>2, <2>3
    <2>. QED
      BY <1>1, <2>1, <2>3, <2>4
  <1>7. ASSUME IsPrefix(t, r)
        PROVE  Len(x) = l - i /\ \A m \in 1..Len(x) : x[m] = q[i + m]
    <2>1. Len(x) + 1 <= l - i + 1 /\ \A m \in 1..Len(x) + 1 : t[m] = r[m]
      BY <1>3, <1>4, <1>7
    <2>2. Len(x) = l - i
      <3>. SUFFICES ASSUME Len(x) + 1 \in 1..l - i PROVE FALSE
        BY <1>1, <1>2, <2>1
      <3>1. Len(x) + 1 \in 1..Len(x) + 1
        BY <1>2
      <3>2. r[Len(x) + 1] = 16 /\ r[Len(x) + 1] \in Nibble
        BY <1>1, <1>3, <2>1, <3>1
      <3>. QED
        BY <1>5, <3>2
    <2>3. \A m \in 1..Len(x) : m \in 1..Len(x) + 1
      BY <1>2
    <2>. QED
      BY <1>1, <1>3, <2>1, <2>2, <2>3
  <1>. QED
    BY <1>6, <1>7 DEF r, t

\* The three kinds of node.
LeafNode(J, P, i, X) ==
    \E p \in P : X = NodeList(<<PathString(HexPrefix(SubSeq(p, i + 1, Len(p)), TRUE)),
                                ValueString(J[p])>>)
ExtensionNode(g, P, i, X) ==
    \E p \in P, j \in Nat :
        /\ j > i /\ \A r \in P : Agree(r, p, j)
        /\ X = NodeList(<<PathString(HexPrefix(SubSeq(p, i + 1, j), FALSE)),
                          Reference(P, g[<<P, j>>])>>)
Below(P, i, y) == {p \in P : Len(p) > i /\ p[i + 1] = y}
BranchNode(J, g, P, i, X) ==
    \E c : /\ X = NodeList(c) /\ Len(c) = 17 /\ DOMAIN c = 1..17
           /\ \A y \in 0..15 : c[y + 1] = Reference(Below(P, i, y), g[<<Below(P, i, y), i + 1>>])
           /\ c[17] = EmptyString \/ \E p \in P : Len(p) = i /\ c[17] = ValueString(J[p])

\* A node of the trie is a leaf, an extension or a branch.
LEMMA NodeKinds ==
    ASSUME NEW J, Paths(J), NEW g, Nodes(J, g), NEW P \in SUBSET DOMAIN J, P # {}, NEW i \in Nat
    PROVE  \/ LeafNode(J, P, i, g[<<P, i>>])
           \/ ExtensionNode(g, P, i, g[<<P, i>>])
           \/ BranchNode(J, g, P, i, g[<<P, i>>])
  <1>. DEFINE path == CHOOSE p \in P : TRUE
              shared == {n \in i + 1..Len(path) :
                            \A p \in P : Len(p) >= n /\ SubSeq(p, 1, n) = SubSeq(path, 1, n)}
              j == Max(shared)
              ending == {p \in P : Len(p) = i}
              leaf == NodeList(<<PathString(HexPrefix(SubSeq(path, i + 1, Len(path)), TRUE)),
                                 ValueString(J[path])>>)
              child(y) == IF y <= 16
                          THEN Reference(Below(P, i, y - 1), g[<<Below(P, i, y - 1), i + 1>>])
                          ELSE IF ending # {} THEN ValueString(J[CHOOSE p \in ending : TRUE])
                          ELSE EmptyString
              part == PathString(HexPrefix(SubSeq(path, i + 1, j), FALSE))
              c == [y \in 1..17 |-> child(y)]
  <1>1. g[<<P, i>>] = IF Cardinality(P) = 1 THEN leaf
                      ELSE IF shared # {} THEN NodeList(<<part, Reference(P, g[<<P, j>>])>>)
                      ELSE NodeList(c)
    <2>1. g[<<P, i>>] = Composed(J, P, i, g)
      BY DEF Nodes
    <2>2. Composed(J, P, i, g) =
              IF Cardinality(P) = 1 THEN leaf
              ELSE IF shared # {} THEN NodeList(<<part, Reference(P, g[<<P, j>>])>>)
              ELSE NodeList(c)
      BY Zenon DEF Composed, Below
    <2>. QED
      BY <2>1, <2>2, Zenon
  <1>2. path \in P /\ path \in Seq(Nibble)
    BY DEF Paths
  <1>3. CASE g[<<P, i>>] = leaf
    BY <1>2, <1>3 DEF LeafNode
  <1>4. CASE shared # {} /\ g[<<P, i>>] = NodeList(<<part, Reference(P, g[<<P, j>>])>>)
    <2>1. j \in shared
      <3>1. shared \in SUBSET (i + 1..Len(path)) /\ i + 1 \in Nat /\ Len(path) \in Nat
        BY <1>2
      <3>. HIDE DEF shared, path
      <3>. QED
        BY <1>4, <3>1, GreatestOf
    <2>2. ASSUME NEW n \in shared
          PROVE  n \in Nat /\ n > i /\ \A r \in P : Agree(r, path, n)
      <3>1. n \in Nat /\ n > i /\ n <= Len(path) /\ Len(path) \in Nat
        BY <1>2
      <3>2. ASSUME NEW r \in P PROVE Agree(r, path, n)
        <4>1. r \in Seq(Nibble) /\ Len(r) >= n /\ SubSeq(r, 1, n) = SubSeq(path, 1, n)
          BY DEF Paths
        <4>2. \A s \in Seq(Nibble) : Len(s) >= n => \A m \in 1..n : SubSeq(s, 1, n)[m] = s[m]
          BY <3>1
        <4>. HIDE DEF path
        <4>. QED
          BY <1>2, <3>1, <4>1, <4>2 DEF Agree
      <3>. QED
        BY <3>1, <3>2
    <2>. HIDE DEF shared, path, j
    <2>3. j \in Nat /\ j > i /\ \A r \in P : Agree(r, path, j)
      BY <2>1, <2>2
    <2>. QED
      BY <1>2, <1>4, <2>3 DEF ExtensionNode
  <1>5. CASE g[<<P, i>>] = NodeList(c)
    <2>1. Len(c) = 17 /\ DOMAIN c = 1..17
      OBVIOUS
    <2>2. ASSUME NEW y \in 0..15
          PROVE  c[y + 1] = Reference(Below(P, i, y), g[<<Below(P, i, y), i + 1>>])
      <3>1. y + 1 \in 1..17 /\ y + 1 <= 16 /\ (y + 1) - 1 = y
        OBVIOUS
      <3>2. c[y + 1] = child(y + 1)
        BY <3>1, Zenon
      <3>3. child(y + 1) = Reference(Below(P, i, y), g[<<Below(P, i, y), i + 1>>])
        <4>. HIDE DEF ending
        <4>. QED
          BY <3>1
      <3>. QED
        BY <3>2, <3>3
    <2>3. c[17] = EmptyString \/ \E p \in P : Len(p) = i /\ c[17] = ValueString(J[p])
      <3>1. c[17] = child(17)
        <4>1. 17 \in 1..17
          OBVIOUS
        <4>. QED
          BY <4>1, Zenon
      <3>2. child(17) = IF ending # {} THEN ValueString(J[CHOOSE p \in ending : TRUE])
                        ELSE EmptyString
        OBVIOUS
      <3>3. ending # {} => (CHOOSE p \in ending : TRUE) \in ending
        OBVIOUS
      <3>4. \A p \in ending : p \in P /\ Len(p) = i
        OBVIOUS
      <3>. HIDE DEF ending, child, c
      <3>. QED
        BY <3>1, <3>2, <3>3, <3>4
    <2>. HIDE DEF c
    <2>. QED
      BY <1>5, <2>1, <2>2, <2>3 DEF BranchNode
  <1>. HIDE DEF leaf, shared, j, part, c
  <1>. QED
    BY <1>1, <1>3, <1>4, <1>5

(***************************************************************************)
(* What get and VerifyProof come to, on the way to q.                      *)
(***************************************************************************)
\* A node, of paths that all agree with q so far, and what is left of q.
Reached(J, g, q, X, rest) ==
    \E P \in SUBSET DOMAIN J, i \in 0..Len(q) :
        /\ P # {} /\ \A p \in P : Agree(p, q, i)
        /\ X = g[<<P, i>>] /\ rest = Rest(q, i)

\* How such a node is referred to.
Referred(J, g, q, item, rest) ==
    \/ item = EmptyString
    \/ Reached(J, g, q, item, rest)
    \/ \E X : item = HashString(X) /\ Reached(J, g, q, X, rest)

OnTheWay(J, g, q, at) ==
    \/ at.found = "nothing"
    \/ at.found = "value" /\ q \in DOMAIN J /\ at.item = ValueString(J[q])
    \/ at.found = "node" /\ Referred(J, g, q, at.item, at.rest)
    \/ at.found = "hash" /\ \E X : /\ at.item = HashString(X)
                                   /\ X = EmptyString \/ Reached(J, g, q, X, at.rest)

\* A reference on the way to q leads on, to the paths that still agree with it.
LEMMA ReferenceLeads ==
    ASSUME NEW J, NEW g, NEW q, NEW P \in SUBSET DOMAIN J, NEW i \in 0..Len(q),
           \A p \in P : Agree(p, q, i)
    PROVE  Referred(J, g, q, Reference(P, g[<<P, i>>]), Rest(q, i))
  <1>1. CASE P = {}
    BY <1>1 DEF Reference, Referred
  <1>2. CASE P # {}
    <2>1. Reached(J, g, q, g[<<P, i>>], Rest(q, i))
      BY <1>2 DEF Reached
    <2>. QED
      BY <1>2, <2>1 DEF Reference, Referred
  <1>. QED
    BY <1>1, <1>2

\* A path that agrees with q to the end of both is q.
LEMMA AgreeToTheEnd ==
    ASSUME NEW p \in Seq(Nibble), NEW q \in Seq(Nibble), Len(p) = Len(q), Agree(p, q, Len(q))
    PROVE  p = q
  BY SeqEqual DEF Agree

\* The two items of a leaf or an extension.
LEMMA ShortNode ==
    ASSUME NEW x, NEW b, NEW X, X = NodeList(<<PathString(x), b>>)
    PROVE  /\ X.isList /\ Len(X.children) = 2
           /\ X.children[1].path = x /\ X.children[2] = b /\ b \in ToSet(X.children)
  <1>. DEFINE c == <<PathString(x), b>>
  <1>1. X.isList = TRUE /\ X.children = c
    BY Items
  <1>2. Len(c) = 2 /\ c[1] = PathString(x) /\ c[2] = b /\ b \in ToSet(c)
    BY DEF ToSet
  <1>. HIDE DEF c
  <1>. QED
    BY <1>1, <1>2, Items

\* One more node on the way, and what it holds.
Leads(J, g, q, X, next) ==
    /\ OnTheWay(J, g, q, next)
    /\ next.found \in {"node", "value"} => next.item \in ToSet(X.children)

\* A leaf is the end of the way: its value is that of q.
LEMMA LeafLeads ==
    ASSUME NEW J, Paths(J), NEW g, NEW q \in Seq(Nibble),
           NEW P \in SUBSET DOMAIN J, NEW i \in 0..Len(q), \A p \in P : Agree(p, q, i),
           NEW X, LeafNode(J, P, i, X)
    PROVE  /\ X.isList /\ Len(X.children) = 2
           /\ Leads(J, g, q, X, Short(X, Rest(q, i)))
  <1>1. PICK p \in P : X = NodeList(<<PathString(HexPrefix(SubSeq(p, i + 1, Len(p)), TRUE)),
                                      ValueString(J[p])>>)
    BY DEF LeafNode
  <1>2. X.isList /\ Len(X.children) = 2 /\ X.children[2] = ValueString(J[p])
        /\ X.children[1].path = HexPrefix(SubSeq(p, i + 1, Len(p)), TRUE)
        /\ X.children[2] \in ToSet(X.children)
    <2>. DEFINE x == HexPrefix(SubSeq(p, i + 1, Len(p)), TRUE)
                b == ValueString(J[p])
    <2>1. X = NodeList(<<PathString(x), b>>)
      BY <1>1
    <2>. HIDE DEF x, b
    <2>2. /\ X.isList /\ Len(X.children) = 2 /\ X.children[1].path = x /\ X.children[2] = b
          /\ b \in ToSet(X.children)
      BY <2>1, ShortNode
    <2>. QED
      BY <2>2 DEF x, b
  <1>. DEFINE x == SubSeq(p, i + 1, Len(p))
  <1>3. p \in Seq(Nibble) /\ p \in DOMAIN J /\ Len(p) >= i /\ \A n \in 1..i : p[n] = q[n]
    BY DEF Paths, Agree
  <1>4. /\ x \in Seq(Nibble) /\ Len(x) = Len(p) - i
        /\ \A m \in 1..Len(p) - i : x[m] = p[i + m]
    BY <1>3
  <1>. HIDE DEF x
  <1>5. compactToHex(X.children[1].path) = Append(x, 16)
    BY <1>2, <1>4, PathRead DEF x
  <1>6. ASSUME IsPrefix(Append(x, 16), Rest(q, i)) PROVE p = q
    <2>1. Len(x) = Len(q) - i /\ \A m \in 1..Len(x) : x[m] = q[i + m]
      BY <1>4, <1>6, PrefixOfRest
    <2>2. Len(p) \in Nat /\ Len(q) \in Nat /\ Len(p) = Len(q)
      BY <1>3, <1>4, <2>1
    <2>3. ASSUME NEW n \in 1..Len(p) PROVE p[n] = q[n]
      <3>1. CASE n \in 1..i
        BY <1>3, <3>1
      <3>2. CASE n \notin 1..i
        <4>1. n - i \in 1..Len(p) - i /\ i + (n - i) = n
          BY <2>2, <3>2
        <4>. QED
          BY <1>4, <2>1, <2>2, <4>1
      <3>. QED
        BY <3>1, <3>2
    <2>. QED
      BY <1>3, <2>2, <2>3, SeqEqual
  <1>7. hasTerm(Append(x, 16))
    <2>1. x \in Seq(Nat)
      <3>1. Nibble \subseteq Nat
        BY DEF Nibble
      <3>. QED
        BY <1>4, <3>1, SeqMonotonic
    <2>. QED
      BY <2>1, Terminated
  <1>8. CASE IsPrefix(Append(x, 16), Rest(q, i))
    <2>1. p = q
      BY <1>6, <1>8
    <2>2. Short(X, Rest(q, i)).found = "value" /\ Short(X, Rest(q, i)).item = ValueString(J[q])
      BY <1>2, <1>5, <1>7, <1>8, <2>1 DEF Short, At
    <2>. QED
      BY <1>2, <1>3, <2>1, <2>2 DEF OnTheWay, Leads
  <1>9. CASE ~IsPrefix(Append(x, 16), Rest(q, i))
    <2>1. Short(X, Rest(q, i)).found = "nothing"
      BY <1>5, <1>9 DEF Short, Nowhere, At
    <2>. QED
      BY <1>2, <2>1 DEF OnTheWay, Leads
  <1>. QED
    BY <1>8, <1>9

\* An extension leads to the node it refers to, of the same paths.
LEMMA ExtensionLeads ==
    ASSUME NEW J, Paths(J), NEW g, NEW q \in Seq(Nibble),
           NEW P \in SUBSET DOMAIN J, P # {}, NEW i \in 0..Len(q), \A p \in P : Agree(p, q, i),
           NEW X, ExtensionNode(g, P, i, X)
    PROVE  /\ X.isList /\ Len(X.children) = 2
           /\ Leads(J, g, q, X, Short(X, Rest(q, i)))
  <1>1. PICK p \in P, j \in Nat :
            /\ j > i /\ \A r \in P : Agree(r, p, j)
            /\ X = NodeList(<<PathString(HexPrefix(SubSeq(p, i + 1, j), FALSE)),
                              Reference(P, g[<<P, j>>])>>)
    BY DEF ExtensionNode
  <1>2. X.isList /\ Len(X.children) = 2 /\ X.children[2] = Reference(P, g[<<P, j>>])
        /\ X.children[1].path = HexPrefix(SubSeq(p, i + 1, j), FALSE)
        /\ X.children[2] \in ToSet(X.children)
    <2>. DEFINE x == HexPrefix(SubSeq(p, i + 1, j), FALSE)
                b == Reference(P, g[<<P, j>>])
    <2>1. X = NodeList(<<PathString(x), b>>)
      BY <1>1
    <2>. HIDE DEF x, b
    <2>2. /\ X.isList /\ Len(X.children) = 2 /\ X.children[1].path = x /\ X.children[2] = b
          /\ b \in ToSet(X.children)
      BY <2>1, ShortNode
    <2>. QED
      BY <2>2 DEF x, b
  <1>. DEFINE x == SubSeq(p, i + 1, j)
  <1>3. p \in Seq(Nibble) /\ Len(p) >= j /\ \A n \in 1..i : p[n] = q[n]
    BY <1>1 DEF Paths, Agree
  <1>4. /\ x \in Seq(Nibble) /\ Len(x) = j - i /\ Len(x) # 0
        /\ \A m \in 1..j - i : x[m] = p[i + m]
    BY <1>1, <1>3
  <1>. HIDE DEF x
  <1>5. compactToHex(X.children[1].path) = x
    BY <1>2, <1>4, PathRead DEF x
  <1>6. ~hasTerm(x)
    <2>1. x[Len(x)] \in Nibble
      BY <1>4
    <2>. QED
      BY <2>1 DEF hasTerm, Last, Nibble
  <1>7. CASE IsPrefix(x, Rest(q, i))
    <2>1. Len(x) <= Len(q) - i /\ \A m \in 1..Len(x) : x[m] = q[i + m]
      BY <1>4, <1>7, PrefixOfRest
    <2>2. j \in 0..Len(q) /\ Len(x) \in 0..Len(q) - i /\ i + Len(x) = j
      BY <1>1, <1>4, <2>1
    <2>3. ASSUME NEW r \in P PROVE Agree(r, q, j)
      <3>1. Len(r) >= j /\ \A n \in 1..j : r[n] = p[n]
        BY <1>1 DEF Agree
      <3>2. ASSUME NEW n \in 1..j PROVE p[n] = q[n]
        <4>1. CASE n \in 1..i
          BY <1>3, <4>1
        <4>2. CASE n \notin 1..i
          <5>1. n - i \in 1..j - i /\ i + (n - i) = n
            BY <4>2
          <5>. QED
            BY <1>4, <2>1, <5>1
        <4>. QED
          BY <4>1, <4>2
      <3>. QED
        BY <3>1, <3>2 DEF Agree
    <2>4. SubSeq(Rest(q, i), Len(x) + 1, Len(Rest(q, i))) = Rest(q, j)
      BY <2>2, RestOfRest
    <2>5. Referred(J, g, q, Reference(P, g[<<P, j>>]), Rest(q, j))
      BY <2>2, <2>3, ReferenceLeads
    <2>6. /\ Short(X, Rest(q, i)).found = "node"
          /\ Short(X, Rest(q, i)).item = Reference(P, g[<<P, j>>])
          /\ Short(X, Rest(q, i)).rest = Rest(q, j)
      BY <1>2, <1>5, <1>6, <1>7, <2>4 DEF Short, At
    <2>. QED
      BY <1>2, <2>5, <2>6 DEF OnTheWay, Leads
  <1>8. CASE ~IsPrefix(x, Rest(q, i))
    <2>1. Short(X, Rest(q, i)).found = "nothing"
      BY <1>5, <1>8 DEF Short, Nowhere, At
    <2>. QED
      BY <1>2, <2>1 DEF OnTheWay, Leads
  <1>. QED
    BY <1>7, <1>8

\* A branch leads to the node of the paths that go on as q does, or ends there.
LEMMA BranchLeads ==
    ASSUME NEW J, Paths(J), NEW g, NEW q \in Seq(Nibble),
           NEW P \in SUBSET DOMAIN J, NEW i \in 0..Len(q), \A p \in P : Agree(p, q, i),
           NEW X, BranchNode(J, g, P, i, X)
    PROVE  /\ X.isList /\ Len(X.children) = 17
           /\ Leads(J, g, q, X, Full(X, Rest(q, i)))
  <1>1. PICK c : /\ X = NodeList(c) /\ Len(c) = 17
                 /\ DOMAIN c = 1..17
                 /\ \A y \in 0..15 : c[y + 1] = Reference(Below(P, i, y),
                                                          g[<<Below(P, i, y), i + 1>>])
                 /\ c[17] = EmptyString \/ \E p \in P : Len(p) = i /\ c[17] = ValueString(J[p])
    BY DEF BranchNode
  <1>2. X.isList /\ X.children = c /\ \A y \in 1..17 : c[y] \in ToSet(c)
    BY <1>1, Items DEF ToSet
  <1>. DEFINE r == Rest(q, i)
  <1>3. r # << >> /\ Head(r) = (IF i = Len(q) THEN 16 ELSE q[i + 1])
        /\ (i < Len(q) => q[i + 1] \in Nibble)
    BY HeadOfRest
  <1>4. CASE i = Len(q)
    <2>1. CASE X.children[17].size = 0
      <3>1. Full(X, r).found = "nothing"
        BY <1>3, <1>4, <2>1 DEF Full, Nowhere, At
      <3>. QED
        BY <1>1, <1>2, <3>1 DEF OnTheWay, Leads
    <2>2. CASE X.children[17].size # 0
      <3>1. PICK p \in P : Len(p) = i /\ c[17] = ValueString(J[p])
        BY <1>1, <1>2, <2>2, Items
      <3>2. p = q /\ p \in DOMAIN J
        <4>1. p \in Seq(Nibble) /\ Agree(p, q, Len(q)) /\ Len(p) = Len(q)
          BY <1>4, <3>1 DEF Paths
        <4>. QED
          BY <4>1, AgreeToTheEnd
      <3>3. Full(X, r).found = "value" /\ Full(X, r).item = c[17]
        BY <1>2, <1>3, <1>4, <2>2 DEF Full, At
      <3>. QED
        BY <1>1, <1>2, <3>1, <3>2, <3>3 DEF OnTheWay, Leads
    <2>. QED
      BY <2>1, <2>2
  <1>5. CASE i # Len(q)
    <2>. DEFINE y == q[i + 1]
                Q == Below(P, i, y)
    <2>1. i < Len(q) /\ i + 1 \in 0..Len(q) /\ 1 \in 0..Len(q) - i
      BY <1>5
    <2>2. y \in 0..15 /\ Head(r) = y /\ Head(r) # 16
      BY <1>3, <1>5, <2>1, SMTT(30) DEF Nibble
    <2>3. Tail(r) = Rest(q, i + 1)
      <3>1. r \in Seq(Nat) /\ SubSeq(r, 1 + 1, Len(r)) = Rest(q, i + 1)
        BY <2>1, RestOf, RestOfRest
      <3>2. Tail(r) = SubSeq(r, 2, Len(r))
        <4>. HIDE DEF r
        <4>. QED
          BY <1>3, <3>1, TailIsSubSeq
      <3>. QED
        BY <3>1, <3>2, SMTT(30)
    <2>4. Q \in SUBSET DOMAIN J
      BY DEF Below
    <2>5. ASSUME NEW p \in Q PROVE Agree(p, q, i + 1)
      <3>1. p \in P /\ p \in Seq(Nibble) /\ Len(p) > i /\ p[i + 1] = q[i + 1]
        BY DEF Below, Paths
      <3>2. \A n \in 1..i : p[n] = q[n]
        BY <3>1 DEF Agree
      <3>3. Len(p) >= i + 1 /\ \A n \in 1..i + 1 : n \in 1..i \/ n = i + 1
        BY <3>1
      <3>. QED
        BY <3>1, <3>2, <3>3 DEF Agree
    <2>6. Referred(J, g, q, Reference(Q, g[<<Q, i + 1>>]), Rest(q, i + 1))
      <3>. HIDE DEF Q
      <3>. QED
        BY <2>1, <2>4, <2>5, ReferenceLeads
    <2>7. /\ Full(X, r).found = "node" /\ Full(X, r).item = c[y + 1]
          /\ Full(X, r).rest = Rest(q, i + 1)
      <3>. HIDE DEF r, y
      <3>. QED
        BY <1>2, <1>3, <2>2, <2>3 DEF Full, At
    <2>8. c[y + 1] = Reference(Q, g[<<Q, i + 1>>]) /\ c[y + 1] \in ToSet(c)
      <3>1. y + 1 \in 1..17
        BY <2>2, SMTT(30)
      <3>. QED
        BY <1>1, <1>2, <2>2, <3>1
    <2>. HIDE DEF y, Q, r
    <2>. QED
      BY <1>1, <1>2, <2>6, <2>7, <2>8 DEF OnTheWay, Leads, r
  <1>. QED
    BY <1>4, <1>5

\* Whatever node it is.
LEMMA NodeLeads ==
    ASSUME NEW J, Paths(J), NEW g, Nodes(J, g), NEW q \in Seq(Nibble), NEW X, NEW rest,
           Reached(J, g, q, X, rest)
    PROVE  /\ X.isList
           /\ Leads(J, g, q, X, IF Len(X.children) = 2 THEN Short(X, rest) ELSE Full(X, rest))
  <1>1. PICK P \in SUBSET DOMAIN J, i \in 0..Len(q) :
            /\ P # {} /\ \A p \in P : Agree(p, q, i)
            /\ X = g[<<P, i>>] /\ rest = Rest(q, i)
    BY DEF Reached
  <1>2. i \in Nat
    OBVIOUS
  <1>3. LeafNode(J, P, i, X) \/ ExtensionNode(g, P, i, X) \/ BranchNode(J, g, P, i, X)
    BY <1>1, <1>2, NodeKinds
  <1>4. CASE LeafNode(J, P, i, X)
    <2>1. X.isList /\ Len(X.children) = 2 /\ Leads(J, g, q, X, Short(X, Rest(q, i)))
      BY <1>1, <1>4, LeafLeads
    <2>. QED
      BY <1>1, <2>1
  <1>5. CASE ExtensionNode(g, P, i, X)
    <2>1. X.isList /\ Len(X.children) = 2 /\ Leads(J, g, q, X, Short(X, Rest(q, i)))
      BY <1>1, <1>5, ExtensionLeads
    <2>. QED
      BY <1>1, <2>1
  <1>6. CASE BranchNode(J, g, P, i, X)
    <2>1. X.isList /\ Len(X.children) = 17 /\ Leads(J, g, q, X, Full(X, Rest(q, i)))
      BY <1>1, <1>6, BranchLeads
    <2>. QED
      BY <1>1, <2>1
  <1>. QED
    BY <1>3, <1>4, <1>5, <1>6

\* One turn of get.
LEMMA TurnLeads ==
    ASSUME NEW J, Paths(J), NEW g, Nodes(J, g), NEW q \in Seq(Nibble), NEW at,
           OnTheWay(J, g, q, at)
    PROVE  /\ OnTheWay(J, g, q, Turn(at))
           /\ at.found # "node" => Turn(at) = at
           /\ at.found = "node" /\ Turn(at).found \in {"node", "value"} =>
                  Turn(at).item \in ToSet(at.item.children)
  <1>1. CASE at.found # "node"
    BY <1>1 DEF Turn
  <1>2. CASE at.found = "node"
    <2>1. Referred(J, g, q, at.item, at.rest)
      BY <1>2 DEF OnTheWay
    <2>2. CASE at.item = EmptyString
      <3>1. ~at.item.isList /\ at.item.size # HashSize
        BY <2>2, Items, MptAssumption
      <3>2. Turn(at).found = "nothing"
        BY <1>2, <3>1 DEF Turn, Nowhere, At
      <3>. QED
        BY <1>2, <3>2 DEF OnTheWay
    <2>3. CASE Reached(J, g, q, at.item, at.rest)
      <3>. DEFINE X == at.item
                  rest == at.rest
                  next == IF Len(X.children) = 2 THEN Short(X, rest) ELSE Full(X, rest)
      <3>1. X.isList /\ Leads(J, g, q, X, next)
        BY <2>3, NodeLeads
      <3>2. Turn(at) = next
        BY <1>2, <3>1 DEF Turn
      <3>. HIDE DEF next
      <3>. QED
        BY <1>2, <3>1, <3>2 DEF Leads
    <2>4. CASE \E X : at.item = HashString(X) /\ Reached(J, g, q, X, at.rest)
      <3>1. PICK X : at.item = HashString(X) /\ Reached(J, g, q, X, at.rest)
        BY <2>4
      <3>2. ~at.item.isList /\ at.item.size = HashSize
        BY <3>1, Items
      <3>3. Turn(at).found = "hash" /\ Turn(at).item = at.item /\ Turn(at).rest = at.rest
        BY <1>2, <3>2 DEF Turn, At
      <3>. QED
        BY <1>2, <3>1, <3>3 DEF OnTheWay
    <2>. QED
      BY <2>1, <2>2, <2>3, <2>4 DEF Referred
  <1>. QED
    BY <1>1, <1>2

(***************************************************************************)
(* get.                                                                    *)
(***************************************************************************)
\* The equation of its turns.
TurnTerm(g, start, n) == IF n = 0 THEN start ELSE Turn(g[n - 1])

\* It has a solution.
LEMMA TurnsExist ==
    ASSUME NEW start, NEW w \in Nat
    PROVE  \E g : g = [k \in 0..w |-> TurnTerm(g, start, k)]
  <1>. DEFINE Good == {n \in Nat : \E g : g = [k \in 0..n |-> TurnTerm(g, start, k)]}
  <1>1. 0 \in Good
    <2>. DEFINE g == [k \in 0..0 |-> start]
    <2>1. g = [k \in 0..0 |-> TurnTerm(g, start, k)]
      BY DEF TurnTerm
    <2>. QED
      BY <2>1, Zenon
  <1>2. ASSUME NEW n \in Good PROVE n + 1 \in Good
    <2>1. PICK g : g = [k \in 0..n |-> TurnTerm(g, start, k)]
      OBVIOUS
    <2>. DEFINE h == [k \in 0..n + 1 |-> TurnTerm(g, start, k)]
    <2>2. \A k \in 0..n : h[k] = g[k]
      BY <2>1
    <2>3. ASSUME NEW k \in 0..n + 1 PROVE TurnTerm(h, start, k) = TurnTerm(g, start, k)
      <3>1. k # 0 => k - 1 \in 0..n
        OBVIOUS
      <3>. HIDE DEF h
      <3>. QED
        BY <2>2, <3>1 DEF TurnTerm
    <2>4. h = [k \in 0..n + 1 |-> TurnTerm(h, start, k)]
      BY <2>3
    <2>5. n + 1 \in Nat
      OBVIOUS
    <2>. HIDE DEF h
    <2>. QED
      BY <2>4, <2>5, Zenon
  <1>. HIDE DEF Good
  <1>3. Good \in SUBSET Nat
    BY DEF Good
  <1>4. Good = Nat
    BY <1>1, <1>2, <1>3, AllNat
  <1>. QED
    BY <1>4 DEF Good

\* get is a sequence of turns.
LEMMA Turns ==
    ASSUME NEW item, NEW key
    PROVE  \E at : /\ at[0] = At("node", item, key)
                   /\ \A n \in 0..MaxDepth : at[n + 1] = Turn(at[n])
                   /\ get(item, key) = at[MaxDepth + 1]
  <1>. DEFINE start == At("node", item, key)
              sol == CHOOSE g : g = [n \in 0..MaxDepth + 1 |-> TurnTerm(g, start, n)]
  <1>1. get(item, key) = sol[MaxDepth + 1]
    BY DEF get, TurnTerm
  <1>. HIDE DEF start
  <1>2. MaxDepth \in Nat /\ MaxDepth + 1 \in Nat
    BY RlpAssumption
  <1>3. sol = [n \in 0..MaxDepth + 1 |-> TurnTerm(sol, start, n)]
    <2>1. \E g : g = [n \in 0..MaxDepth + 1 |-> TurnTerm(g, start, n)]
      BY <1>2, TurnsExist
    <2>. QED
      BY <2>1, Zenon
  <1>. HIDE DEF sol
  <1>4. \A n \in 0..MaxDepth + 1 : sol[n] = TurnTerm(sol, start, n)
    BY <1>3, Zenon
  <1>5. sol[0] = start
    BY <1>2, <1>4 DEF TurnTerm
  <1>6. ASSUME NEW n \in 0..MaxDepth PROVE sol[n + 1] = Turn(sol[n])
    <2>1. n + 1 \in 0..MaxDepth + 1 /\ n + 1 # 0 /\ (n + 1) - 1 = n
      BY <1>2
    <2>. QED
      BY <1>4, <2>1 DEF TurnTerm
  <1>. QED
    BY <1>1, <1>5, <1>6 DEF start

(***************************************************************************)
(* Readable.                                                               *)
(***************************************************************************)
\* The equation of its levels.
LevelTerm(g, item, n) == IF n = 0 THEN {item} ELSE UNION {ToSet(i.children) : i \in g[n - 1]}

\* It has a solution.
LEMMA LevelsExist ==
    ASSUME NEW item, NEW w \in Nat
    PROVE  \E g : g = [k \in 0..w |-> LevelTerm(g, item, k)]
  <1>. DEFINE Good == {n \in Nat : \E g : g = [k \in 0..n |-> LevelTerm(g, item, k)]}
  <1>1. 0 \in Good
    <2>. DEFINE g == [k \in 0..0 |-> {item}]
    <2>1. g = [k \in 0..0 |-> LevelTerm(g, item, k)]
      BY DEF LevelTerm
    <2>. QED
      BY <2>1, Zenon
  <1>2. ASSUME NEW n \in Good PROVE n + 1 \in Good
    <2>1. PICK g : g = [k \in 0..n |-> LevelTerm(g, item, k)]
      OBVIOUS
    <2>. DEFINE h == [k \in 0..n + 1 |-> LevelTerm(g, item, k)]
    <2>2. \A k \in 0..n : h[k] = g[k]
      BY <2>1
    <2>3. ASSUME NEW k \in 0..n + 1 PROVE LevelTerm(h, item, k) = LevelTerm(g, item, k)
      <3>1. k # 0 => k - 1 \in 0..n
        OBVIOUS
      <3>. HIDE DEF h
      <3>. QED
        BY <2>2, <3>1 DEF LevelTerm
    <2>4. h = [k \in 0..n + 1 |-> LevelTerm(h, item, k)]
      BY <2>3
    <2>5. n + 1 \in Nat
      OBVIOUS
    <2>. HIDE DEF h
    <2>. QED
      BY <2>4, <2>5, Zenon
  <1>. HIDE DEF Good
  <1>3. Good \in SUBSET Nat
    BY DEF Good
  <1>4. Good = Nat
    BY <1>1, <1>2, <1>3, AllNat
  <1>. QED
    BY <1>4 DEF Good

\* The items of a readable node, by their depth; none is deeper than MaxDepth.
LEMMA Levels ==
    ASSUME NEW item, Readable(item)
    PROVE  \E level : /\ level[0] = {item}
                      /\ \A n \in 0..MaxDepth :
                             level[n + 1] = UNION {ToSet(i.children) : i \in level[n]}
                      /\ level[MaxDepth + 1] = {}
                      /\ \A n \in 0..MaxDepth : \A i \in level[n] :
                             i.isList \/ i.size <= MaxItemSize
  <1>. DEFINE sol == CHOOSE g : g = [n \in 0..MaxDepth + 1 |-> LevelTerm(g, item, n)]
  <1>1. sol[MaxDepth + 1] = {} /\ \A n \in 0..MaxDepth : \A i \in sol[n] :
                                      i.isList \/ i.size <= MaxItemSize
    BY Zenon DEF Readable, LevelTerm
  <1>2. MaxDepth \in Nat /\ MaxDepth + 1 \in Nat
    BY RlpAssumption
  <1>3. sol = [n \in 0..MaxDepth + 1 |-> LevelTerm(sol, item, n)]
    <2>1. \E g : g = [n \in 0..MaxDepth + 1 |-> LevelTerm(g, item, n)]
      BY <1>2, LevelsExist
    <2>. QED
      BY <2>1, Zenon
  <1>. HIDE DEF sol
  <1>4. \A n \in 0..MaxDepth + 1 : sol[n] = LevelTerm(sol, item, n)
    BY <1>3, Zenon
  <1>5. sol[0] = {item}
    <2>1. 0 \in 0..MaxDepth + 1
      BY <1>2
    <2>2. sol[0] = LevelTerm(sol, item, 0)
      BY <1>4, <2>1, Zenon
    <2>. QED
      BY <2>2 DEF LevelTerm
  <1>6. ASSUME NEW n \in 0..MaxDepth
        PROVE  sol[n + 1] = UNION {ToSet(i.children) : i \in sol[n]}
    <2>1. n + 1 \in 0..MaxDepth + 1 /\ n + 1 # 0 /\ (n + 1) - 1 = n
      BY <1>2
    <2>. QED
      BY <1>4, <2>1 DEF LevelTerm
  <1>. QED
    BY <1>1, <1>5, <1>6

\* Within a readable node, get stays on the way, and a value it finds is short.
LEMMA GetLeads ==
    ASSUME NEW J, Paths(J), NEW g, Nodes(J, g), NEW q \in Seq(Nibble), NEW X, NEW rest,
           Reached(J, g, q, X, rest), Readable(X)
    PROVE  /\ OnTheWay(J, g, q, get(X, rest))
           /\ get(X, rest).found = "value" => get(X, rest).item.size <= MaxItemSize
  <1>1. PICK at : /\ at[0] = At("node", X, rest)
                  /\ \A n \in 0..MaxDepth : at[n + 1] = Turn(at[n])
                  /\ get(X, rest) = at[MaxDepth + 1]
    BY Turns
  <1>2. PICK level : /\ level[0] = {X}
                     /\ \A n \in 0..MaxDepth :
                            level[n + 1] = UNION {ToSet(i.children) : i \in level[n]}
                     /\ level[MaxDepth + 1] = {}
                     /\ \A n \in 0..MaxDepth : \A i \in level[n] :
                            i.isList \/ i.size <= MaxItemSize
    BY Levels
  <1>3. MaxDepth \in Nat
    BY RlpAssumption
  <1>. DEFINE Held(n) == /\ OnTheWay(J, g, q, at[n])
                         /\ at[n].found = "node" => at[n].item \in level[n]
                         /\ at[n].found = "value" =>
                                \E m \in 0..MaxDepth : at[n].item \in level[m]
              Good == {n \in Nat : n <= MaxDepth + 1 => Held(n)}
  <1>4. 0 \in Good
    <2>1. at[0].found = "node" /\ at[0].item = X /\ at[0].rest = rest
      BY <1>1 DEF At
    <2>2. OnTheWay(J, g, q, at[0])
      BY <2>1 DEF OnTheWay, Referred
    <2>. QED
      BY <1>2, <2>1, <2>2
  <1>5. ASSUME NEW n \in Good PROVE n + 1 \in Good
    <2>. SUFFICES ASSUME n + 1 <= MaxDepth + 1 PROVE Held(n + 1)
      OBVIOUS
    <2>1. n \in 0..MaxDepth /\ Held(n)
      BY <1>3
    <2>2. at[n + 1] = Turn(at[n])
      BY <1>1, <2>1
    <2>3. /\ OnTheWay(J, g, q, Turn(at[n]))
          /\ at[n].found # "node" => Turn(at[n]) = at[n]
          /\ at[n].found = "node" /\ Turn(at[n]).found \in {"node", "value"} =>
                 Turn(at[n]).item \in ToSet(at[n].item.children)
      BY <2>1, TurnLeads
    <2>4. CASE at[n].found # "node"
      BY <2>1, <2>2, <2>3, <2>4
    <2>5. CASE at[n].found = "node" /\ at[n + 1].found \in {"node", "value"}
      <3>1. at[n + 1].item \in level[n + 1]
        BY <1>2, <2>1, <2>2, <2>3, <2>5
      <3>2. n + 1 # MaxDepth + 1
        BY <1>2, <3>1
      <3>3. n + 1 \in 0..MaxDepth
        BY <1>3, <2>1, <3>2
      <3>. QED
        BY <2>2, <2>3, <3>1, <3>3
    <2>6. CASE at[n + 1].found \notin {"node", "value"}
      BY <2>2, <2>3, <2>6
    <2>. QED
      BY <2>4, <2>5, <2>6
  <1>6. Held(MaxDepth + 1)
    <2>1. Good \in SUBSET Nat
      OBVIOUS
    <2>. HIDE DEF Good
    <2>2. Good = Nat
      BY <1>4, <1>5, <2>1, AllNat
    <2>. QED
      BY <1>3, <2>2 DEF Good
  <1>7. ASSUME at[MaxDepth + 1].found = "value" PROVE at[MaxDepth + 1].item.size <= MaxItemSize
    <2>1. at[MaxDepth + 1].item = ValueString(J[q])
      BY <1>6, <1>7 DEF OnTheWay
    <2>2. ~at[MaxDepth + 1].item.isList
      BY <2>1, Items
    <2>. QED
      BY <1>2, <1>6, <1>7, <2>2
  <1>. QED
    BY <1>1, <1>6, <1>7

(***************************************************************************)
(* VerifyProof.                                                            *)
(***************************************************************************)
\* The equation of its turns.
FetchTerm(g, nodes, start, n) == IF n = 0 THEN start ELSE Fetch(nodes, g[n - 1])

FetchSolved(nodes, start, w) == \E g : g = [k \in 0..w |-> FetchTerm(g, nodes, start, k)]

\* It has a solution.
LEMMA FetchesExist ==
    ASSUME NEW nodes, NEW start, NEW w \in Nat
    PROVE  FetchSolved(nodes, start, w)
  <1>. DEFINE Good == {n \in Nat : \E g : g = [k \in 0..n |-> FetchTerm(g, nodes, start, k)]}
  <1>1. 0 \in Good
    <2>. DEFINE g == [k \in 0..0 |-> start]
    <2>1. g = [k \in 0..0 |-> FetchTerm(g, nodes, start, k)]
      BY DEF FetchTerm
    <2>. QED
      BY <2>1, Zenon
  <1>2. ASSUME NEW n \in Good PROVE n + 1 \in Good
    <2>1. PICK g : g = [k \in 0..n |-> FetchTerm(g, nodes, start, k)]
      OBVIOUS
    <2>. DEFINE h == [k \in 0..n + 1 |-> FetchTerm(g, nodes, start, k)]
    <2>2. \A k \in 0..n : h[k] = g[k]
      BY <2>1
    <2>3. ASSUME NEW k \in 0..n + 1
          PROVE  FetchTerm(h, nodes, start, k) = FetchTerm(g, nodes, start, k)
      <3>1. k # 0 => k - 1 \in 0..n
        OBVIOUS
      <3>. HIDE DEF h
      <3>. QED
        BY <2>2, <3>1 DEF FetchTerm
    <2>4. h = [k \in 0..n + 1 |-> FetchTerm(h, nodes, start, k)]
      BY <2>3
    <2>5. n + 1 \in Nat
      OBVIOUS
    <2>. HIDE DEF h
    <2>. QED
      BY <2>4, <2>5, Zenon
  <1>. HIDE DEF Good
  <1>3. Good \in SUBSET Nat
    BY DEF Good
  <1>4. Good = Nat
    BY <1>1, <1>2, <1>3, AllNat
  <1>. QED
    BY <1>4 DEF Good, FetchSolved

\* The turns of a verification, and what it answers.
Fetching(root, key, nodes, at) ==
    /\ at[0] = At("hash", HashString(root), keybytesToHex(key))
    /\ \A n \in 0..MaxProofNodes + 1 : at[n + 1] = Fetch(nodes, at[n])
    /\ VerifyProof(root, key, nodes) =
           IF Len(nodes) \in 1..MaxProofNodes /\ at[MaxProofNodes + 2].found = "value"
           THEN at[MaxProofNodes + 2].item.value ELSE << >>

\* VerifyProof is a sequence of fetches.
LEMMA Fetches ==
    ASSUME NEW root, NEW key, NEW nodes
    PROVE  \E at : Fetching(root, key, nodes, at)
  <1>. DEFINE start == At("hash", HashString(root), keybytesToHex(key))
              M == MaxProofNodes + 2
              sol == CHOOSE g : g = [n \in 0..M |-> FetchTerm(g, nodes, start, n)]
  <1>1. VerifyProof(root, key, nodes) =
            IF Len(nodes) \in 1..MaxProofNodes /\ sol[M].found = "value"
            THEN sol[M].item.value ELSE << >>
    BY DEF VerifyProof, FetchTerm
  <1>. HIDE DEF start
  <1>3. M \in Nat /\ MaxProofNodes \in Nat /\ 0 \in 0..M
    BY MptAssumption
  <1>4. sol = [n \in 0..M |-> FetchTerm(sol, nodes, start, n)]
    <2>1. \E g : g = [n \in 0..M |-> FetchTerm(g, nodes, start, n)]
      <3>. HIDE DEF M
      <3>1. FetchSolved(nodes, start, M)
        BY <1>3, FetchesExist
      <3>. QED
        BY <3>1, Zenon DEF FetchSolved
    <2>. QED
      BY <2>1, Zenon
  <1>. HIDE DEF sol
  <1>5. \A n \in 0..M : sol[n] = FetchTerm(sol, nodes, start, n)
    BY <1>4, Zenon
  <1>6. sol[0] = start
    BY <1>3, <1>5 DEF FetchTerm
  <1>7. ASSUME NEW n \in 0..MaxProofNodes + 1 PROVE sol[n + 1] = Fetch(nodes, sol[n])
    <2>1. n + 1 \in 0..M /\ n + 1 # 0 /\ (n + 1) - 1 = n
      BY <1>3
    <2>2. sol[n + 1] = FetchTerm(sol, nodes, start, n + 1)
      BY <1>5, <2>1
    <2>. QED
      BY <2>1, <2>2 DEF FetchTerm
  <1>. QED
    BY <1>1, <1>6, <1>7, Zenon DEF start, Fetching

\* One node of the proof.
LEMMA FetchLeads ==
    ASSUME NEW J, Paths(J), NEW g, Nodes(J, g), NEW q \in Seq(Nibble), NEW nodes, NEW at,
           \A n \in ToSet(nodes) : Readable(n),
           OnTheWay(J, g, q, at), at.found = "value" => at.item.size <= MaxItemSize
    PROVE  /\ OnTheWay(J, g, q, Fetch(nodes, at))
           /\ Fetch(nodes, at).found = "value" => Fetch(nodes, at).item.size <= MaxItemSize
  <1>. DEFINE found == newProofDB(nodes, at.item)
              node == CHOOSE n \in found : TRUE
  <1>1. Fetch(nodes, at) =
            IF at.found # "hash" THEN at
            ELSE IF found = {} \/ ~DecodesToNode(node) THEN Nowhere
            ELSE get(node, at.rest)
    BY DEF Fetch
  <1>2. CASE at.found # "hash"
    BY <1>1, <1>2
  <1>3. CASE at.found = "hash" /\ (found = {} \/ ~DecodesToNode(node))
    <2>1. Fetch(nodes, at).found = "nothing"
      BY <1>1, <1>3 DEF Nowhere, At
    <2>. QED
      BY <2>1 DEF OnTheWay
  <1>4. CASE at.found = "hash" /\ found # {} /\ DecodesToNode(node)
    <2>1. PICK X : /\ at.item = HashString(X)
                   /\ X = EmptyString \/ Reached(J, g, q, X, at.rest)
      BY <1>4 DEF OnTheWay
    <2>2. node \in ToSet(nodes) /\ at.item.hashOf = <<node>>
      BY <1>4 DEF newProofDB
    <2>. HIDE DEF node, found
    <2>3. node = X
      <3>1. <<node>> = <<X>>
        BY <2>1, <2>2, Items
      <3>. QED
        BY <3>1
    <2>4. X # EmptyString
      BY <1>4, <2>3, Items DEF DecodesToNode
    <2>5. Reached(J, g, q, node, at.rest) /\ Readable(node)
      BY <2>1, <2>2, <2>3, <2>4
    <2>6. Fetch(nodes, at) = get(node, at.rest)
      BY <1>1, <1>4
    <2>. QED
      BY <2>5, <2>6, GetLeads
  <1>. QED
    BY <1>2, <1>3, <1>4

\* CRIT #4 of verify.go: what a proof verifies, against the root of a trie, is
\* what the trie holds for the key, and of a size that can be read.
LEMMA VerifiedIsHeld ==
    ASSUME NEW J, Paths(J), NEW M \in Nat, \A p \in DOMAIN J : Len(p) <= M,
           NEW key \in Seq(Byte), NEW nodes, \A n \in ToSet(nodes) : Readable(n),
           NEW v, VerifyProof(TrieRoot(J), key, nodes) = <<v>>
    PROVE  Nibbles(key) \in DOMAIN J /\ v = J[Nibbles(key)] /\ v.size <= MaxItemSize
  <1>. DEFINE q == Nibbles(key)
  <1>1. q \in Seq(Nibble)
    BY NibblesType
  <1>2. PICK g : /\ Nodes(J, g)
                 /\ TrieRoot(J) = IF DOMAIN J = {} THEN EmptyString ELSE g[<<DOMAIN J, 0>>]
    BY RootNode
  <1>3. PICK at : /\ at[0] = At("hash", HashString(TrieRoot(J)), keybytesToHex(key))
                  /\ \A n \in 0..MaxProofNodes + 1 : at[n + 1] = Fetch(nodes, at[n])
                  /\ at[MaxProofNodes + 2].found = "value"
                  /\ at[MaxProofNodes + 2].item.value = <<v>>
    <2>1. PICK at : Fetching(TrieRoot(J), key, nodes, at)
      BY Fetches
    <2>2. <<v>> # << >>
      OBVIOUS
    <2>3. at[MaxProofNodes + 2].found = "value" /\ at[MaxProofNodes + 2].item.value = <<v>>
      BY <2>1, <2>2, Zenon DEF Fetching
    <2>. QED
      BY <2>1, <2>3, Zenon DEF Fetching
  <1>. DEFINE Held(n) == /\ OnTheWay(J, g, q, at[n])
                         /\ at[n].found = "value" => at[n].item.size <= MaxItemSize
              Good == {n \in Nat : n <= MaxProofNodes + 2 => Held(n)}
  <1>4. MaxProofNodes \in Nat
    BY MptAssumption
  <1>5. keybytesToHex(key) = Rest(q, 0)
    <2>1. keybytesToHex(key) = Append(q, 16)
      BY DEF keybytesToHex
    <2>. HIDE DEF q
    <2>2. q \in Seq(Nat)
      <3>1. Nibble \subseteq Nat
        BY DEF Nibble
      <3>. QED
        BY <1>1, <3>1, SeqMonotonic
    <2>3. Append(q, 16) \in Seq(Nat) /\ Len(Append(q, 16)) = Len(q) + 1
      BY <2>2
    <2>4. SubSeq(Append(q, 16), 1, Len(q) + 1) = Append(q, 16)
      BY <2>3, SubSeqFull
    <2>. QED
      BY <2>1, <2>4 DEF Rest
  <1>. HIDE DEF q
  <1>6. 0 \in Good
    <2>1. at[0].found = "hash" /\ at[0].item = HashString(TrieRoot(J)) /\ at[0].rest = Rest(q, 0)
      BY <1>3, <1>5 DEF At
    <2>2. DOMAIN J # {} => Reached(J, g, q, g[<<DOMAIN J, 0>>], Rest(q, 0))
      <3>1. \A p \in DOMAIN J : Agree(p, q, 0)
        BY DEF Agree, Paths
      <3>2. 0 \in 0..Len(q) /\ DOMAIN J \in SUBSET DOMAIN J
        BY <1>1
      <3>. QED
        BY <3>1, <3>2 DEF Reached
    <2>. QED
      BY <1>2, <2>1, <2>2 DEF OnTheWay
  <1>7. ASSUME NEW n \in Good PROVE n + 1 \in Good
    <2>. SUFFICES ASSUME n + 1 <= MaxProofNodes + 2 PROVE Held(n + 1)
      OBVIOUS
    <2>1. n \in 0..MaxProofNodes + 1 /\ Held(n)
      BY <1>4
    <2>2. at[n + 1] = Fetch(nodes, at[n])
      BY <1>3, <2>1
    <2>. QED
      BY <1>1, <1>2, <2>1, <2>2, FetchLeads
  <1>8. Held(MaxProofNodes + 2)
    <2>1. Good \in SUBSET Nat
      OBVIOUS
    <2>. HIDE DEF Good
    <2>2. Good = Nat
      BY <1>6, <1>7, <2>1, AllNat
    <2>. QED
      BY <1>4, <2>2 DEF Good
  <1>9. /\ q \in DOMAIN J /\ at[MaxProofNodes + 2].item = ValueString(J[q])
        /\ at[MaxProofNodes + 2].item.size <= MaxItemSize
    BY <1>3, <1>8 DEF OnTheWay
  <1>10. v = J[q]
    <2>1. <<v>> = <<J[q]>>
      BY <1>3, <1>9, Items
    <2>. QED
      BY <2>1
  <1>. QED
    BY <1>9, <1>10, Items DEF q

(***************************************************************************)
(* A root holds its values at their indices.                               *)
(***************************************************************************)
\* Only nodes that decode are read.
LEMMA ReadNodes ==
    ASSUME NEW nodes, IsSequence(nodes)
    PROVE  \A n \in ToSet(NodesRead(nodes)) : Readable(n)
  <1>. DEFINE l == Len(nodes)
              Kept(n) == /\ \A i \in 1..n : Readable(nodes[i])
                         /\ n < l => ~Readable(nodes[n + 1])
              k == CHOOSE n \in 0..l : Kept(n)
  <1>1. nodes \in Seq(ToSet(nodes)) /\ l \in Nat
    BY DEF IsSequence
  <1>2. \E n \in 0..l : Kept(n)
    <2>. DEFINE Bad == {i \in 1..l : ~Readable(nodes[i])}
    <2>1. CASE Bad = {}
      <3>1. l \in 0..l /\ ~(l < l)
        BY <1>1
      <3>. HIDE DEF l
      <3>. QED
        BY <1>1, <2>1, <3>1
    <2>2. CASE Bad # {}
      <3>1. PICK n \in Bad : \A m \in Bad : n <= m
        <4>1. Bad \in SUBSET Nat
          BY <1>1
        <4>. HIDE DEF Bad
        <4>. QED
          BY <2>2, <4>1, LeastOf
      <3>2. n - 1 \in 0..l /\ (n - 1) + 1 = n /\ n \in 1..l /\ l \in Nat
        BY <1>1
      <3>. HIDE DEF l
      <3>3. \A i \in 1..n - 1 : i \in 1..l /\ ~(n <= i)
        BY <3>2
      <3>4. \A i \in 1..n - 1 : Readable(nodes[i])
        BY <3>1, <3>3
      <3>5. Kept(n - 1)
        BY <3>2, <3>4
      <3>. QED
        BY <3>2, <3>5
    <2>. QED
      BY <2>1, <2>2
  <1>3. k \in 0..l /\ Kept(k)
    <2>. HIDE DEF Kept, l
    <2>. QED
      BY <1>2
  <1>4. NodesRead(nodes) = SubSeq(nodes, 1, k)
    BY DEF NodesRead
  <1>. HIDE DEF k
  <1>5. DOMAIN SubSeq(nodes, 1, k) = 1..k /\ \A i \in 1..k : SubSeq(nodes, 1, k)[i] = nodes[i]
    BY <1>1, <1>3
  <1>. QED
    BY <1>3, <1>4, <1>5 DEF ToSet

\* What VerifyProof answers for an index is the value of the trie there, and short
\* enough to be read: NodesRead has only nodes that decode.
LEMMA HeldAt ==
    ASSUME NEW values, NEW n \in Nat, DOMAIN values = 1..n, n <= Word,
           NEW index \in 0..Word - 1, NEW nodes, IsSequence(nodes), NEW v,
           VerifyProof(Root(values), RLPEncodeKey(index), NodesRead(nodes)) = <<v>>
    PROVE  /\ index + 1 \in DOMAIN values
           /\ v = values[index + 1]
           /\ v.size <= MaxItemSize
  <1>. DEFINE key(i) == Nibbles(EncodeUint64(i - 1))
              J == [p \in {key(i) : i \in DOMAIN values} |->
                       values[CHOOSE i \in DOMAIN values : key(i) = p]]
  <1>1. Root(values) = TrieRoot(J)
    BY DEF Root
  <1>2. ASSUME NEW i \in 1..Word
        PROVE  i - 1 \in 0..Word - 1 /\ key(i) \in Seq(Nibble) /\ Len(key(i)) <= 18
    <2>1. i - 1 \in 0..Word - 1
      BY TransactionsAssumption
    <2>2. EncodeUint64(i - 1) \in Seq(Byte) /\ Len(EncodeUint64(i - 1)) <= 9
      BY <2>1, KeyBytes
    <2>3. Nibbles(EncodeUint64(i - 1)) \in Seq(Nibble)
          /\ Len(Nibbles(EncodeUint64(i - 1))) = 2 * Len(EncodeUint64(i - 1))
      BY <2>2, NibblesType
    <2>. QED
      BY <2>1, <2>2, <2>3
  <1>3. ASSUME NEW i \in 1..Word, NEW j \in 1..Word, key(i) = key(j)
        PROVE  i = j
    <2>1. i - 1 \in 0..Word - 1 /\ j - 1 \in 0..Word - 1
      BY <1>2
    <2>2. EncodeUint64(i - 1) = EncodeUint64(j - 1)
      <3>1. EncodeUint64(i - 1) \in Seq(Byte) /\ EncodeUint64(j - 1) \in Seq(Byte)
        BY <2>1, KeyBytes
      <3>. QED
        BY <1>3, <3>1, NibblesInjective
    <2>3. i - 1 = j - 1
      BY <2>1, <2>2, KeysInjective
    <2>. QED
      BY <2>3
  <1>4. \A i \in DOMAIN values : i \in 1..Word
    BY TransactionsAssumption
  <1>5. index + 1 \in 1..Word /\ RLPEncodeKey(index) = EncodeUint64((index + 1) - 1)
    BY TransactionsAssumption DEF RLPEncodeKey
  <1>6. Nibbles(RLPEncodeKey(index)) = key(index + 1)
    BY <1>5
  <1>7. RLPEncodeKey(index) \in Seq(Byte)
    BY KeyBytes DEF RLPEncodeKey
  <1>8. DOMAIN J = {key(i) : i \in DOMAIN values}
    OBVIOUS
  <1>9. \A p \in DOMAIN J : J[p] = values[CHOOSE i \in DOMAIN values : key(i) = p]
    OBVIOUS
  <1>. HIDE DEF key, J
  <1>10. Paths(J) /\ \A p \in DOMAIN J : Len(p) <= 18
    BY <1>2, <1>4, <1>8 DEF Paths
  <1>11. VerifyProof(TrieRoot(J), RLPEncodeKey(index), NodesRead(nodes)) = <<v>>
    BY <1>1
  <1>12. \A m \in ToSet(NodesRead(nodes)) : Readable(m)
    BY ReadNodes
  <1>13. /\ key(index + 1) \in DOMAIN J /\ v = J[key(index + 1)] /\ v.size <= MaxItemSize
    <2>1. 18 \in Nat
      OBVIOUS
    <2>. QED
      BY <1>6, <1>7, <1>10, <1>11, <1>12, <2>1, VerifiedIsHeld
  <1>14. PICK i \in DOMAIN values : key(i) = key(index + 1)
    BY <1>8, <1>13
  <1>15. i = index + 1
    BY <1>3, <1>4, <1>5, <1>14
  <1>16. (CHOOSE j \in DOMAIN values : key(j) = key(index + 1)) = index + 1
    <2>1. \E j \in DOMAIN values : key(j) = key(index + 1)
      BY <1>14
    <2>2. \A j \in DOMAIN values : key(j) = key(index + 1) => j = index + 1
      BY <1>3, <1>4, <1>5
    <2>. QED
      BY <2>1, <2>2
  <1>17. J[key(index + 1)] = values[index + 1]
    BY <1>9, <1>13, <1>16
  <1>. QED
    BY <1>13, <1>14, <1>15, <1>17

(***************************************************************************)
(* Transactions and receipts, encoded and read.                            *)
(***************************************************************************)
\* u is s and then t.
IsJoin(S, s, t, u) ==
    /\ u \in Seq(S) /\ Len(u) = Len(s) + Len(t)
    /\ \A i \in 1..Len(s) : u[i] = s[i]
    /\ \A i \in 1..Len(t) : u[Len(s) + i] = t[i]
    /\ SubSeq(u, 1, Len(s)) = s

\* Concatenation, field by field.
LEMMA Joined ==
    ASSUME NEW S, NEW s \in Seq(S), NEW t \in Seq(S)
    PROVE  IsJoin(S, s, t, s \o t)
  <1>1. /\ s \o t \in Seq(S) /\ Len(s \o t) = Len(s) + Len(t)
        /\ \A i \in 1..Len(s) + Len(t) :
               (s \o t)[i] = IF i <= Len(s) THEN s[i] ELSE t[i - Len(s)]
    BY ConcatProperties
  <1>2. Len(s) \in Nat /\ Len(t) \in Nat
    OBVIOUS
  <1>. DEFINE u == s \o t
  <1>3. \A i \in 1..Len(s) : u[i] = s[i]
    BY <1>1, <1>2
  <1>4. ASSUME NEW i \in 1..Len(t) PROVE u[Len(s) + i] = t[i]
    <2>1. Len(s) + i \in 1..Len(s) + Len(t) /\ ~(Len(s) + i <= Len(s)) /\ (Len(s) + i) - Len(s) = i
      BY <1>2
    <2>. QED
      BY <1>1, <2>1
  <1>5. u \in Seq(S) /\ Len(u) = Len(s) + Len(t)
    BY <1>1
  <1>. HIDE DEF u
  <1>6. SubSeq(u, 1, Len(s)) = s
    <2>1. /\ SubSeq(u, 1, Len(s)) \in Seq(S) /\ Len(SubSeq(u, 1, Len(s))) = Len(s)
          /\ \A i \in 1..Len(s) : SubSeq(u, 1, Len(s))[i] = u[i]
      BY <1>2, <1>5
    <2>. QED
      BY <1>3, <2>1, SeqEqual
  <1>. QED
    BY <1>3, <1>4, <1>5, <1>6 DEF u, IsJoin

\* What a transaction consists of, and what L1 signs of it.
Parts(tx) ==
    {Number(tx.chain), Number(tx.nonce), Number(tx.gasPrice), Number(tx.tipCap),
     Number(tx.feeCap), Number(tx.gas), String(tx.to), Number(tx.value), String(tx.data),
     tx.accessList, Number(0), Number(tx.parity), Number(tx.r), Number(tx.s),
     Number(LegacyV(tx))}

Target(tx) == <<Number(tx.gas), String(tx.to), Number(tx.value), String(tx.data)>>

\* The fields that every type has in this order.
LEMMA TargetParts ==
    ASSUME NEW tx
    PROVE  /\ Target(tx) \in Seq(Parts(tx)) /\ Len(Target(tx)) = 4
           /\ Target(tx)[1] = Number(tx.gas) /\ Target(tx)[2] = String(tx.to)
           /\ Target(tx)[3] = Number(tx.value) /\ Target(tx)[4] = String(tx.data)
  BY DEF Target, Parts

\* The fields of an EIP-1559 transaction but the signature.
LEMMA Payload2 ==
    ASSUME NEW tx, tx.type = 2
    PROVE  /\ SigningPayload(tx) \in Seq(Parts(tx)) /\ Len(SigningPayload(tx)) = 9
           /\ SigningPayload(tx)[1] = Number(tx.chain) /\ SigningPayload(tx)[2] = Number(tx.nonce)
           /\ SigningPayload(tx)[3] = Number(tx.tipCap) /\ SigningPayload(tx)[4] = Number(tx.feeCap)
           /\ SigningPayload(tx)[5] = Number(tx.gas) /\ SigningPayload(tx)[6] = String(tx.to)
           /\ SigningPayload(tx)[7] = Number(tx.value) /\ SigningPayload(tx)[8] = String(tx.data)
           /\ SigningPayload(tx)[9] = tx.accessList
  <1>. DEFINE S == Parts(tx)
              a == <<Number(tx.chain), Number(tx.nonce), Number(tx.tipCap), Number(tx.feeCap)>>
              b == Target(tx)
              c == <<tx.accessList>>
              d == a \o b
              e == d \o c
  <1>1. SigningPayload(tx) = e \o << >>
    BY DEF SigningPayload, Target
  <1>2. /\ a \in Seq(S) /\ Len(a) = 4
        /\ a[1] = Number(tx.chain) /\ a[2] = Number(tx.nonce)
        /\ a[3] = Number(tx.tipCap) /\ a[4] = Number(tx.feeCap)
    BY DEF Parts
  <1>3. c \in Seq(S) /\ Len(c) = 1 /\ c[1] = tx.accessList
    BY DEF Parts
  <1>4. /\ b \in Seq(S) /\ Len(b) = 4
        /\ b[1] = Number(tx.gas) /\ b[2] = String(tx.to)
        /\ b[3] = Number(tx.value) /\ b[4] = String(tx.data)
    BY TargetParts
  <1>. HIDE DEF a, b, c, S
  <1>5. /\ d \in Seq(S) /\ Len(d) = 8 /\ \A i \in 1..4 : d[i] = a[i]
        /\ \A i \in 1..4 : d[4 + i] = b[i]
    <2>1. /\ d \in Seq(S) /\ Len(d) = Len(a) + Len(b) /\ \A i \in 1..Len(a) : d[i] = a[i]
          /\ \A i \in 1..Len(b) : d[Len(a) + i] = b[i]
      <3>1. IsJoin(S, a, b, a \o b)
        BY <1>2, <1>4, Joined
      <3>. QED
        BY <3>1 DEF IsJoin
    <2>. HIDE DEF d
    <2>. QED
      BY <1>2, <1>4, <2>1
  <1>. HIDE DEF d
  <1>6. /\ e \in Seq(S) /\ Len(e) = 9 /\ \A i \in 1..8 : e[i] = d[i]
        /\ \A i \in 1..1 : e[8 + i] = c[i]
    <2>1. /\ e \in Seq(S) /\ Len(e) = Len(d) + Len(c) /\ \A i \in 1..Len(d) : e[i] = d[i]
          /\ \A i \in 1..Len(c) : e[Len(d) + i] = c[i]
      <3>1. IsJoin(S, d, c, d \o c)
        BY <1>3, <1>5, Joined
      <3>. QED
        BY <3>1 DEF IsJoin
    <2>. HIDE DEF e
    <2>. QED
      BY <1>3, <1>5, <2>1
  <1>. HIDE DEF e
  <1>7. e \o << >> = e
    BY <1>6, ConcatEmptySeq
  <1>8. /\ e[1] = a[1] /\ e[2] = a[2] /\ e[3] = a[3] /\ e[4] = a[4]
        /\ e[5] = b[1] /\ e[6] = b[2] /\ e[7] = b[3] /\ e[8] = b[4]
        /\ e[9] = c[1]
    <2>1. /\ d[1] = a[1] /\ d[2] = a[2] /\ d[3] = a[3] /\ d[4] = a[4]
          /\ d[4 + 1] = b[1] /\ d[4 + 2] = b[2] /\ d[4 + 3] = b[3] /\ d[4 + 4] = b[4]
      BY <1>5
    <2>2. /\ e[1] = d[1] /\ e[2] = d[2] /\ e[3] = d[3] /\ e[4] = d[4]
          /\ e[5] = d[5] /\ e[6] = d[6] /\ e[7] = d[7] /\ e[8] = d[8]
          /\ e[8 + 1] = c[1]
      BY <1>6
    <2>. QED
      BY <2>1, <2>2
  <1>. QED
    BY <1>1, <1>2, <1>3, <1>4, <1>6, <1>7, <1>8 DEF S

\* The fields of a legacy transaction but the signature.
Fields0(tx) == <<Number(tx.nonce), Number(tx.gasPrice)>> \o Target(tx)

\* They are what L1 signs of it, with the chain id behind them if it is protected.
LEMMA Payload0 ==
    ASSUME NEW tx
    PROVE  /\ Fields0(tx) \in Seq(Parts(tx)) /\ Len(Fields0(tx)) = 6
           /\ Fields0(tx)[1] = Number(tx.nonce) /\ Fields0(tx)[4] = String(tx.to)
           /\ Fields0(tx)[5] = Number(tx.value) /\ Fields0(tx)[6] = String(tx.data)
           /\ tx.type = 0 => SubSeq(SigningPayload(tx), 1, 6) = Fields0(tx)
           /\ tx.type = 0 /\ tx.protected =>
                  SigningPayload(tx) = Fields0(tx) \o <<Number(tx.chain), Number(0), Number(0)>>
  <1>. DEFINE S == Parts(tx)
              a == <<Number(tx.nonce), Number(tx.gasPrice)>>
              b == Target(tx)
              c == IF tx.protected THEN <<Number(tx.chain), Number(0), Number(0)>> ELSE << >>
              d == a \o b
  <1>1. tx.type = 0 => SigningPayload(tx) = d \o c
    BY DEF SigningPayload, Target
  <1>2. /\ a \in Seq(S) /\ Len(a) = 2
        /\ a[1] = Number(tx.nonce) /\ a[2] = Number(tx.gasPrice)
    BY DEF Parts
  <1>3. c \in Seq(S)
    <2>1. <<Number(tx.chain), Number(0), Number(0)>> \in Seq(S)
      BY DEF Parts
    <2>2. << >> \in Seq(S)
      OBVIOUS
    <2>. HIDE DEF S
    <2>. QED
      BY <2>1, <2>2
  <1>4. /\ b \in Seq(S) /\ Len(b) = 4
        /\ b[1] = Number(tx.gas) /\ b[2] = String(tx.to)
        /\ b[3] = Number(tx.value) /\ b[4] = String(tx.data)
    BY TargetParts
  <1>5. d = Fields0(tx) /\ (tx.protected => c = <<Number(tx.chain), Number(0), Number(0)>>)
    BY DEF Fields0
  <1>. HIDE DEF a, b, c, S
  <1>6. /\ d \in Seq(S) /\ Len(d) = 6 /\ \A i \in 1..2 : d[i] = a[i]
        /\ \A i \in 1..4 : d[2 + i] = b[i]
    <2>1. /\ d \in Seq(S) /\ Len(d) = Len(a) + Len(b) /\ \A i \in 1..Len(a) : d[i] = a[i]
          /\ \A i \in 1..Len(b) : d[Len(a) + i] = b[i]
      <3>1. IsJoin(S, a, b, a \o b)
        BY <1>2, <1>4, Joined
      <3>. QED
        BY <3>1 DEF IsJoin
    <2>. HIDE DEF d
    <2>. QED
      BY <1>2, <1>4, <2>1
  <1>7. d[1] = a[1] /\ d[2 + 2] = b[2] /\ d[2 + 3] = b[3] /\ d[2 + 4] = b[4]
    BY <1>6
  <1>. HIDE DEF d
  <1>8. SubSeq(d \o c, 1, 6) = d
    <2>1. IsJoin(S, d, c, d \o c)
      BY <1>3, <1>6, Joined
    <2>. QED
      BY <1>6, <2>1 DEF IsJoin
  <1>9. d[1] = Number(tx.nonce) /\ d[4] = String(tx.to)
        /\ d[5] = Number(tx.value) /\ d[6] = String(tx.data)
    BY <1>2, <1>4, <1>7
  <1>10. tx.type = 0 /\ tx.protected =>
            SigningPayload(tx) = d \o <<Number(tx.chain), Number(0), Number(0)>>
    BY <1>1, <1>5
  <1>11. tx.type = 0 => SubSeq(SigningPayload(tx), 1, 6) = d
    BY <1>1, <1>8
  <1>12. d \in Seq(Parts(tx)) /\ Len(d) = 6
    BY <1>6 DEF S
  <1>. QED
    BY <1>5, <1>9, <1>10, <1>11, <1>12, Zenon

\* Reading a field back.
LEMMA NumberRead ==
    ASSUME NEW v \in Nat
    PROVE  /\ Number(v).data = bigEndianUint64(v)
           /\ AsBigInt(Number(v).data) = v
           /\ v < Word => AsUint64(Number(v)) = v
  <1>1. Number(v).data = bigEndianUint64(v)
    BY DEF Number, String
  <1>2. AsBigInt(Number(v).data) = v
    BY <1>1, ValueOfBytes
  <1>3. v < Word => v % Word = v
    BY TransactionsAssumption
  <1>. QED
    BY <1>1, <1>2, <1>3 DEF AsUint64

\* An address is read back.
LEMMA AddressRead ==
    ASSUME NEW a \in Address
    PROVE  AsAddress(String(a)) = a
  <1>1. Len(a) = AddressSize
    BY TransactionsAssumption DEF Address
  <1>. QED
    BY <1>1 DEF AsAddress, String

\* The missing address of a contract creation reads as the zero address.
LEMMA NoAddressRead == AsAddress(String(<< >>)) = ZeroAddress
  BY TransactionsAssumption DEF AsAddress, String

\* The type and the fields of an encoding.
LEMMA RawIs ==
    ASSUME NEW type, NEW fields
    PROVE  Raw(type, fields).type = type /\ Raw(type, fields).item.children = fields
  BY DEF Raw, List

\* EIP-155: the chain id and the parity come back out of v.
LEMMA Halved ==
    ASSUME NEW a \in Nat, NEW b \in 0..1
    PROVE  (2 * a + b) \div 2 = a /\ (2 * a + b) % 2 = b
  OBVIOUS

\* The fields of what L1 holds of an EIP-1559 transaction.
LEMMA Raw2 ==
    ASSUME NEW tx, tx.type = 2
    PROVE  LET c == L1Raw(tx).item.children
           IN  /\ L1Raw(tx).type = 2
               /\ c \in Seq(Parts(tx)) /\ Len(c) = 12 /\ SubSeq(c, 1, 9) = SigningPayload(tx)
               /\ c[1] = Number(tx.chain) /\ c[6] = String(tx.to)
               /\ c[7] = Number(tx.value) /\ c[8] = String(tx.data)
               /\ c[10] = Number(tx.parity) /\ c[11] = Number(tx.r) /\ c[12] = Number(tx.s)
  <1>. DEFINE s == SigningPayload(tx)
              t == <<Number(tx.parity), Number(tx.r), Number(tx.s)>>
              S == Parts(tx)
              c == s \o t
  <1>1. L1Raw(tx).type = 2 /\ L1Raw(tx).item.children = c
    <2>1. L1Raw(tx) = Raw(2, c)
      BY DEF L1Raw
    <2>. HIDE DEF c
    <2>. QED
      BY <2>1, RawIs
  <1>2. s \in Seq(S) /\ Len(s) = 9 /\ s[1] = Number(tx.chain) /\ s[6] = String(tx.to)
        /\ s[7] = Number(tx.value) /\ s[8] = String(tx.data)
    BY Payload2
  <1>3. /\ t \in Seq(S) /\ Len(t) = 3
        /\ t[1] = Number(tx.parity) /\ t[2] = Number(tx.r) /\ t[3] = Number(tx.s)
    BY DEF Parts
  <1>. HIDE DEF s, t, S
  <1>4. IsJoin(S, s, t, c)
    BY <1>2, <1>3, Joined
  <1>. HIDE DEF c
  <1>5. /\ c \in Seq(S) /\ Len(c) = 12 /\ SubSeq(c, 1, 9) = s
        /\ \A i \in 1..9 : c[i] = s[i]
    BY <1>2, <1>3, <1>4 DEF IsJoin
  <1>6. \A i \in 1..3 : c[9 + i] = t[i]
    BY <1>2, <1>3, <1>4 DEF IsJoin
  <1>7. c[1] = s[1] /\ c[6] = s[6] /\ c[7] = s[7] /\ c[8] = s[8]
    BY <1>5
  <1>8. c[10] = t[1] /\ c[11] = t[2] /\ c[12] = t[3]
    <2>1. c[9 + 1] = t[1] /\ c[9 + 2] = t[2] /\ c[9 + 3] = t[3]
      BY <1>6
    <2>. QED
      BY <2>1
  <1>. QED
    BY <1>1, <1>2, <1>3, <1>5, <1>7, <1>8 DEF s, S

\* The same of a legacy transaction.
LEMMA Raw0 ==
    ASSUME NEW tx, tx.type = 0
    PROVE  LET c == L1Raw(tx).item.children
           IN  /\ L1Raw(tx).type = 0
               /\ c \in Seq(Parts(tx)) /\ Len(c) = 9 /\ SubSeq(c, 1, 6) = Fields0(tx)
               /\ c[4] = String(tx.to) /\ c[5] = Number(tx.value) /\ c[6] = String(tx.data)
               /\ c[7] = Number(LegacyV(tx)) /\ c[8] = Number(tx.r) /\ c[9] = Number(tx.s)
  <1>. DEFINE s == Fields0(tx)
              t == <<Number(LegacyV(tx)), Number(tx.r), Number(tx.s)>>
              S == Parts(tx)
              c == s \o t
  <1>1. L1Raw(tx).type = 0 /\ L1Raw(tx).item.children = c
    <2>1. L1Raw(tx) = Raw(0, c)
      BY Payload0 DEF L1Raw
    <2>. HIDE DEF c
    <2>. QED
      BY <2>1, RawIs
  <1>2. s \in Seq(S) /\ Len(s) = 6 /\ s[4] = String(tx.to)
        /\ s[5] = Number(tx.value) /\ s[6] = String(tx.data)
    BY Payload0
  <1>3. /\ t \in Seq(S) /\ Len(t) = 3
        /\ t[1] = Number(LegacyV(tx)) /\ t[2] = Number(tx.r) /\ t[3] = Number(tx.s)
    BY DEF Parts
  <1>. HIDE DEF s, t, S
  <1>4. IsJoin(S, s, t, c)
    BY <1>2, <1>3, Joined
  <1>. HIDE DEF c
  <1>5. /\ c \in Seq(S) /\ Len(c) = 9 /\ SubSeq(c, 1, 6) = s
        /\ \A i \in 1..6 : c[i] = s[i]
    BY <1>2, <1>3, <1>4 DEF IsJoin
  <1>6. \A i \in 1..3 : c[6 + i] = t[i]
    BY <1>2, <1>3, <1>4 DEF IsJoin
  <1>7. c[4] = s[4] /\ c[5] = s[5] /\ c[6] = s[6]
    BY <1>5
  <1>8. c[7] = t[1] /\ c[8] = t[2] /\ c[9] = t[3]
    <2>1. c[6 + 1] = t[1] /\ c[6 + 2] = t[2] /\ c[6 + 3] = t[3]
      BY <1>6
    <2>. QED
      BY <2>1
  <1>. QED
    BY <1>1, <1>2, <1>3, <1>5, <1>7, <1>8 DEF s, S

\* The signature is read back as wide as it is signed.
LEMMA SignatureRead ==
    ASSUME NEW v \in Nat, Len(bigEndianUint64(v)) <= SigSize
    PROVE  padTo32(Number(v).data) = FixedWidth(v)
  BY NumberRead, FixedWidthPads

\* The contract reads an EIP-1559 transaction as L1 does.
LEMMA Read2 ==
    ASSUME NEW tx, IsTransaction(tx), tx.type = 2
    PROVE  LET parsed == parseTransaction(L1Raw(tx))
           IN  /\ parsed.chain = tx.chain
               /\ parsed.to = AsAddress(String(tx.to))
               /\ AsBigInt(parsed.value) = tx.value
               /\ computeTxSighash(L1Raw(tx), parsed) = Raw(2, SigningPayload(tx))
               /\ RecoveredSender(L1Raw(tx)) = L1Sender(tx)
  <1>. DEFINE raw == L1Raw(tx)
              c == raw.item.children
              parsed == parseTransaction(raw)
  <1>1. /\ raw.type = 2 /\ SubSeq(c, 1, 9) = SigningPayload(tx)
        /\ c[1] = Number(tx.chain) /\ c[6] = String(tx.to)
        /\ c[7] = Number(tx.value) /\ c[8] = String(tx.data)
        /\ c[10] = Number(tx.parity) /\ c[11] = Number(tx.r) /\ c[12] = Number(tx.s)
    BY Raw2
  <1>2. /\ tx.chain \in Nat /\ tx.value \in Nat /\ tx.r \in Nat /\ tx.s \in Nat
        /\ tx.parity \in Nat /\ tx.parity < 2 /\ tx.chain < Word /\ tx.parity < Word
        /\ Len(bigEndianUint64(tx.r)) <= SigSize /\ Len(bigEndianUint64(tx.s)) <= SigSize
    <2>1. tx.protected \in BOOLEAN /\ tx.chain \in Nat /\ tx.parity \in 0..1 /\ LegacyV(tx) < Word
      BY DEF IsTransaction
    <2>2. tx.parity < Word
      BY <2>1, TransactionsAssumption DEF LegacyV
    <2>. QED
      BY <2>2 DEF IsTransaction
  <1>. HIDE DEF raw
  <1>3. parsed = parseEIP1559Tx(c)
    BY <1>1 DEF parseTransaction
  <1>4. /\ parsed.chain = AsUint64(c[1]) /\ parsed.to = AsAddress(c[6])
        /\ parsed.value = c[7].data /\ parsed.parity = AsUint64(c[10]) % 256
        /\ parsed.r = c[11].data /\ parsed.s = c[12].data
    BY <1>3 DEF parseEIP1559Tx
  <1>5. computeTxSighash(raw, parsed) = Raw(2, SigningPayload(tx))
    BY <1>1 DEF computeTxSighash
  <1>. HIDE DEF parsed, c
  <1>6. parsed.parity = tx.parity
    <2>1. AsUint64(Number(tx.parity)) = tx.parity
      BY <1>2, NumberRead
    <2>2. tx.parity % 256 = tx.parity
      BY <1>2
    <2>. QED
      BY <1>1, <1>4, <2>1, <2>2
  <1>7. parsed.chain = tx.chain /\ AsBigInt(parsed.value) = tx.value
    BY <1>1, <1>2, <1>4, NumberRead, SMTT(30)
  <1>8. padTo32(parsed.r) = FixedWidth(tx.r) /\ padTo32(parsed.s) = FixedWidth(tx.s)
    BY <1>1, <1>2, <1>4, SignatureRead
  <1>9. RecoveredSender(raw) = L1Sender(tx)
    <2>1. RecoveredSender(raw) = Ecrecover(computeTxSighash(raw, parsed), parsed.parity,
                                           padTo32(parsed.r), padTo32(parsed.s))
      BY DEF RecoveredSender, parsed
    <2>2. L1Sender(tx) = Ecrecover(Raw(2, SigningPayload(tx)), tx.parity,
                                   FixedWidth(tx.r), FixedWidth(tx.s))
      BY DEF L1Sender
    <2>. QED
      BY <1>5, <1>6, <1>8, <2>1, <2>2
  <1>. QED
    BY <1>1, <1>4, <1>5, <1>7, <1>9 DEF parsed, raw

\* And a legacy transaction, whose chain is 0 if it is signed for none.
LEMMA Read0 ==
    ASSUME NEW tx, IsTransaction(tx), tx.type = 0
    PROVE  LET parsed == parseTransaction(L1Raw(tx))
           IN  /\ parsed.chain = IF tx.protected THEN tx.chain ELSE 0
               /\ parsed.to = AsAddress(String(tx.to))
               /\ AsBigInt(parsed.value) = tx.value
               /\ tx.protected => RecoveredSender(L1Raw(tx)) = L1Sender(tx)
  <1>. DEFINE raw == L1Raw(tx)
              c == raw.item.children
              v == AsUint64(c[7])
              parsed == parseTransaction(raw)
  <1>1. /\ raw.type = 0 /\ SubSeq(c, 1, 6) = Fields0(tx)
        /\ c[4] = String(tx.to) /\ c[5] = Number(tx.value) /\ c[6] = String(tx.data)
        /\ c[7] = Number(LegacyV(tx)) /\ c[8] = Number(tx.r) /\ c[9] = Number(tx.s)
    BY Raw0
  <1>2. /\ tx.chain \in Nat /\ tx.value \in Nat /\ tx.r \in Nat /\ tx.s \in Nat
        /\ tx.parity \in Nat /\ tx.parity < 2 /\ tx.protected \in BOOLEAN
        /\ LegacyV(tx) \in Nat /\ LegacyV(tx) < Word
        /\ LegacyV(tx) = IF tx.protected THEN tx.chain * 2 + 35 + tx.parity ELSE 27 + tx.parity
        /\ Len(bigEndianUint64(tx.r)) <= SigSize /\ Len(bigEndianUint64(tx.s)) <= SigSize
    <2>1. tx.protected \in BOOLEAN /\ tx.chain \in Nat /\ tx.parity \in 0..1 /\ LegacyV(tx) < Word
      BY DEF IsTransaction
    <2>2. /\ LegacyV(tx) \in Nat
          /\ LegacyV(tx) = IF tx.protected THEN tx.chain * 2 + 35 + tx.parity ELSE 27 + tx.parity
      BY <2>1 DEF LegacyV
    <2>3. /\ tx.value \in Nat /\ tx.r \in Nat /\ tx.s \in Nat
          /\ Len(bigEndianUint64(tx.r)) <= SigSize /\ Len(bigEndianUint64(tx.s)) <= SigSize
      BY DEF IsTransaction
    <2>4. tx.parity \in Nat /\ tx.parity < 2
      BY <2>1
    <2>. QED
      BY <2>1, <2>2, <2>3, <2>4, Zenon
  <1>. HIDE DEF raw
  <1>3. parsed = parseLegacyTx(c)
    BY <1>1 DEF parseTransaction
  <1>4. /\ parsed.chain = (IF v >= 35 THEN (v - 35) \div 2 ELSE 0) /\ parsed.to = AsAddress(c[4])
        /\ parsed.value = c[5].data
        /\ parsed.parity = (IF v >= 35 THEN (v - 35) % 2 ELSE (v - 27) % 256)
        /\ parsed.r = c[8].data /\ parsed.s = c[9].data
    BY <1>3 DEF parseLegacyTx
  <1>5. ASSUME NEW p
        PROVE  computeTxSighash(raw, p)
                   = Raw(0, Fields0(tx) \o <<Number(p.chain), Number(0), Number(0)>>)
    <2>1. raw.type # 2
      BY <1>1
    <2>. QED
      BY <1>1, <2>1, Zenon DEF computeTxSighash
  <1>6. v = LegacyV(tx)
    BY <1>1, <1>2, NumberRead
  <1>. HIDE DEF parsed, c, v
  <1>7. parsed.chain = IF tx.protected THEN tx.chain ELSE 0
    <2>1. CASE tx.protected
      <3>1. v >= 35 /\ v - 35 = 2 * tx.chain + tx.parity
        BY <1>2, <1>6, <2>1
      <3>2. (2 * tx.chain + tx.parity) \div 2 = tx.chain
        <4>1. tx.parity \in 0..1
          BY <1>2, SMTT(30)
        <4>. QED
          BY <1>2, <4>1, Halved
      <3>. QED
        BY <1>4, <2>1, <3>1, <3>2
    <2>2. CASE ~tx.protected
      <3>1. ~(v >= 35)
        BY <1>2, <1>6, <2>2
      <3>. QED
        BY <1>4, <2>2, <3>1
    <2>. QED
      BY <1>2, <2>1, <2>2
  <1>8. tx.protected => parsed.parity = tx.parity
    <2>. SUFFICES ASSUME tx.protected PROVE parsed.parity = tx.parity
      OBVIOUS
    <2>1. v >= 35 /\ v - 35 = 2 * tx.chain + tx.parity
      BY <1>2, <1>6
    <2>2. (2 * tx.chain + tx.parity) % 2 = tx.parity
      <3>1. tx.parity \in 0..1
        BY <1>2
      <3>. QED
        BY <1>2, <3>1, Halved
    <2>. QED
      BY <1>4, <2>1, <2>2
  <1>9. AsBigInt(parsed.value) = tx.value
    BY <1>1, <1>2, <1>4, NumberRead
  <1>10. padTo32(parsed.r) = FixedWidth(tx.r) /\ padTo32(parsed.s) = FixedWidth(tx.s)
    BY <1>1, <1>2, <1>4, SignatureRead
  <1>11. tx.protected => RecoveredSender(raw) = L1Sender(tx)
    <2>. SUFFICES ASSUME tx.protected PROVE RecoveredSender(raw) = L1Sender(tx)
      OBVIOUS
    <2>1. RecoveredSender(raw) = Ecrecover(computeTxSighash(raw, parsed), parsed.parity,
                                           padTo32(parsed.r), padTo32(parsed.s))
      BY DEF RecoveredSender, parsed
    <2>2. L1Sender(tx) = Ecrecover(Raw(0, SigningPayload(tx)), tx.parity,
                                   FixedWidth(tx.r), FixedWidth(tx.s))
      BY DEF L1Sender
    <2>3. SigningPayload(tx) = Fields0(tx) \o <<Number(tx.chain), Number(0), Number(0)>>
      BY Payload0
    <2>. QED
      BY <1>5, <1>7, <1>8, <1>10, <2>1, <2>2, <2>3
  <1>. QED
    BY <1>1, <1>4, <1>7, <1>9, <1>11 DEF parsed, raw

\* The logs of a receipt are read back as they are.
LEMMA LogsRead ==
    ASSUME NEW r, IsReceipt(r)
    PROVE  LET logs == parseReceiptLogs(EncodeReceipt(r))
           IN  /\ DOMAIN logs = DOMAIN r.logs /\ Len(logs) = Len(r.logs)
               /\ \A i \in DOMAIN r.logs : /\ logs[i].address = r.logs[i].address
                                           /\ logs[i].data = r.logs[i].data
                                           /\ logs[i].topics = r.logs[i].topics
  <1>. DEFINE children == [i \in DOMAIN r.logs |-> EncodeLog(r.logs[i])]
              fields == <<Number(r.status), Number(r.cumulativeGas), String(r.bloom),
                          List(children)>>
              raw == EncodeReceipt(r)
              logs == parseReceiptLogs(raw)
  <1>1. raw.item.children = fields
    <2>1. raw = Raw(r.type, fields)
      BY DEF EncodeReceipt
    <2>. HIDE DEF raw, fields
    <2>. QED
      BY <2>1, RawIs
  <1>2. raw.item.children[4].children = children
    <2>1. fields[4] = List(children)
      OBVIOUS
    <2>2. List(children).children = children
      BY DEF List
    <2>. HIDE DEF raw, fields, children
    <2>. QED
      BY <1>1, <2>1, <2>2
  <1>3. \A i \in DOMAIN r.logs : children[i] = EncodeLog(r.logs[i])
    OBVIOUS
  <1>4. DOMAIN children = DOMAIN r.logs
    BY SMTT(30)
  <1>. HIDE DEF children, raw
  <1>5. /\ DOMAIN logs = DOMAIN r.logs
        /\ \A i \in DOMAIN r.logs :
               LET f == children[i].children
               IN  /\ logs[i].address = AsAddress(f[1]) /\ logs[i].data = f[3].data
                   /\ logs[i].topics = [j \in DOMAIN f[2].children |-> f[2].children[j].data]
    BY <1>2, <1>4 DEF parseReceiptLogs
  <1>. HIDE DEF logs
  <1>6. DOMAIN r.logs = 1..Len(r.logs) /\ Len(r.logs) \in Nat
    BY DEF IsReceipt, IsSequence
  <1>7. Len(logs) = Len(r.logs)
    <2>1. logs = [i \in 1..Len(r.logs) |-> logs[i]]
      BY <1>5, <1>6 DEF logs, parseReceiptLogs
    <2>. QED
      BY <1>6, <2>1, SMTT(30)
  <1>8. ASSUME NEW i \in DOMAIN r.logs
        PROVE  /\ logs[i].address = r.logs[i].address /\ logs[i].data = r.logs[i].data
               /\ logs[i].topics = r.logs[i].topics
    <2>. DEFINE l == r.logs[i]
                ts == [j \in DOMAIN l.topics |-> String(l.topics[j])]
                f == <<String(l.address), List(ts), String(l.data)>>
    <2>1. children[i].children = f
      <3>1. children[i] = List(f)
        BY <1>3 DEF EncodeLog
      <3>. HIDE DEF f
      <3>. QED
        BY <3>1 DEF List
    <2>2. f[1] = String(l.address) /\ f[2] = List(ts) /\ f[3] = String(l.data)
      OBVIOUS
    <2>3. List(ts).children = ts
      BY DEF List
    <2>4. \A x : String(x).data = x
      BY DEF String
    <2>5. [j \in DOMAIN ts |-> ts[j].data] = [j \in DOMAIN l.topics |-> l.topics[j]]
      <3>1. DOMAIN ts = DOMAIN l.topics /\ \A j \in DOMAIN l.topics : ts[j].data = l.topics[j]
        BY <2>4
      <3>. HIDE DEF ts
      <3>. QED
        BY <3>1
    <2>6. l.address \in Address /\ l.topics \in Seq(ToSet(l.topics))
      BY DEF IsReceipt, IsSequence
    <2>7. [j \in DOMAIN l.topics |-> l.topics[j]] = l.topics
      BY <2>6
    <2>8. AsAddress(String(l.address)) = l.address
      BY <2>6, AddressRead
    <2>. HIDE DEF l, ts, f
    <2>9. /\ logs[i].address = AsAddress(f[1]) /\ logs[i].data = f[3].data
          /\ logs[i].topics = [j \in DOMAIN f[2].children |-> f[2].children[j].data]
      BY <1>5, <2>1
    <2>10. logs[i].topics = l.topics
      BY <2>2, <2>3, <2>5, <2>7, <2>9
    <2>. QED
      BY <2>2, <2>4, <2>8, <2>9, <2>10 DEF l
  <1>. QED
    BY <1>5, <1>7, <1>8 DEF logs, raw

(***************************************************************************)
(* What the contract accepts.                                              *)
(***************************************************************************)
\* What it takes for granted of the message.
Submitted(m) == m = NoMessage \/ IsMessage(m)

\* What is proven against a root of the block is what the block holds at that index.
LEMMA ProvenIs ==
    ASSUME NEW b \in Blocks, NEW m, IsMessage(m), NEW values, DOMAIN values = DOMAIN b,
           Proven(Root(values), m)
    PROVE  /\ m.index + 1 \in DOMAIN b
           /\ m.raw = values[m.index + 1]
           /\ m.raw.size <= MaxItemSize
  <1>1. IsSequence(b) /\ Len(b) <= Word
    BY EvidenceAssumption
  <1>2. DOMAIN values = 1..Len(b) /\ Len(b) \in Nat
    BY <1>1 DEF IsSequence
  <1>3. m.index \in 0..Word - 1 /\ IsSequence(m.nodes)
    BY DEF IsMessage
  <1>. DEFINE n == Len(b)
              index == m.index
              nodes == m.nodes
              v == m.raw
  <1>4. VerifyProof(Root(values), RLPEncodeKey(index), NodesRead(nodes)) = <<v>>
    BY DEF Proven
  <1>5. n \in Nat /\ DOMAIN values = 1..n /\ n <= Word
    BY <1>1, <1>2
  <1>. HIDE DEF n, index, nodes, v
  <1>6. index + 1 \in DOMAIN values /\ v = values[index + 1] /\ v.size <= MaxItemSize
    BY <1>3, <1>4, <1>5, HeldAt DEF index, nodes
  <1>. QED
    BY <1>6 DEF index, v

\* An ETH deposit: the transaction at that index pays it.
LEMMA EthAccepted ==
    ASSUME block \in Blocks, header = RootsOf(block), NEW m, IsMessage(m),
           VerifyETHDeposit(m) # << >>
    PROVE  /\ m.index + 1 \in DOMAIN block
           /\ DepositTx(block[m.index + 1].tx)
           /\ VerifyETHDeposit(m) = <<[from |-> L1Sender(block[m.index + 1].tx),
                                       amount |-> block[m.index + 1].tx.value]>>
  <1>. DEFINE values == [i \in DOMAIN block |-> L1Raw(block[i].tx)]
              tx == block[m.index + 1].tx
              parsed == parseTransaction(m.raw)
  <1>1. /\ Proven(header.transactions, m) /\ Parses(m.raw)
        /\ parsed.chain = ChainId /\ parsed.to = Vault
        /\ VerifyETHDeposit(m) = <<[from |-> RecoveredSender(m.raw),
                                    amount |-> AsBigInt(parsed.value)]>>
    BY DEF VerifyETHDeposit
  <1>2. header.transactions = Root(values) /\ DOMAIN values = DOMAIN block
    BY DEF RootsOf
  <1>3. m.index + 1 \in DOMAIN block /\ m.raw = values[m.index + 1] /\ m.raw.size <= MaxItemSize
    <2>. HIDE DEF values
    <2>1. Proven(Root(values), m)
      BY <1>1, <1>2
    <2>. QED
      BY <1>2, <2>1, ProvenIs
  <1>4. m.raw = L1Raw(tx)
    BY <1>3
  <1>5. IsTransaction(tx)
    BY <1>3, EvidenceAssumption
  <1>. HIDE DEF values, tx, parsed
  <1>6. ChainId \in Nat \ {0} /\ Vault \in Address /\ Vault # ZeroAddress
    BY EvidenceAssumption
  <1>7. tx.to = Vault \/ AsAddress(String(tx.to)) # Vault
    <2>1. tx.to \in Address \/ tx.to = << >>
      BY <1>5 DEF IsTransaction
    <2>2. CASE tx.to \in Address
      BY <2>2, AddressRead
    <2>3. CASE tx.to = << >>
      BY <1>6, <2>3, NoAddressRead
    <2>. QED
      BY <2>1, <2>2, <2>3
  <1>8. tx.type = 0 \/ tx.type = 2
    <2>1. L1Raw(tx).type = tx.type
      BY RawIs DEF L1Raw
    <2>2. L1Raw(tx).type = 0 \/ L1Raw(tx).type = 2
      BY <1>1, <1>4 DEF Parses
    <2>. QED
      BY <2>1, <2>2
  <1>9. CASE tx.type = 2
    <2>1. /\ parsed.chain = tx.chain /\ parsed.to = AsAddress(String(tx.to))
          /\ AsBigInt(parsed.value) = tx.value
          /\ RecoveredSender(m.raw) = L1Sender(tx)
      BY <1>4, <1>5, <1>9, Read2 DEF parsed
    <2>2. DepositTx(tx)
      BY <1>1, <1>3, <1>4, <1>7, <1>9, <2>1 DEF DepositTx
    <2>. QED
      BY <1>1, <1>3, <2>1, <2>2 DEF tx
  <1>10. CASE tx.type = 0
    <2>1. /\ parsed.chain = (IF tx.protected THEN tx.chain ELSE 0)
          /\ parsed.to = AsAddress(String(tx.to))
          /\ AsBigInt(parsed.value) = tx.value
          /\ tx.protected => RecoveredSender(m.raw) = L1Sender(tx)
      BY <1>4, <1>5, <1>10, Read0 DEF parsed
    <2>2. tx.protected
      BY <1>1, <1>6, <2>1
    <2>3. DepositTx(tx)
      BY <1>1, <1>3, <1>4, <1>7, <1>10, <2>1, <2>2, SMTT(30) DEF DepositTx
    <2>. QED
      BY <1>1, <1>3, <2>1, <2>2, <2>3 DEF tx
  <1>. QED
    BY <1>8, <1>9, <1>10

\* A token deposit: the log at that position of the receipt at that index.
LEMMA Erc20Accepted ==
    ASSUME block \in Blocks, header = RootsOf(block), NEW m, IsMessage(m),
           VerifyERC20Deposit(m) # << >>
    PROVE  /\ m.index + 1 \in DOMAIN block
           /\ DepositLog(block[m.index + 1].receipt, m.log)
           /\ LET l == block[m.index + 1].receipt.logs[m.log + 1]
              IN  VerifyERC20Deposit(m) = <<[from |-> AddressOf(l.topics[2]),
                                             amount |-> AsBigInt(l.data)]>>
  <1>. DEFINE values == [i \in DOMAIN block |-> EncodeReceipt(block[i].receipt)]
              r == block[m.index + 1].receipt
              l == r.logs[m.log + 1]
              logs == parseReceiptLogs(m.raw)
              log == logs[m.log + 1]
  <1>1. /\ Proven(header.receipts, m) /\ m.log < Len(logs) /\ log.address = Token
        /\ Len(log.topics) >= 3 /\ log.topics[1] = TransferEventSig
        /\ log.topics[3] = Padded(Vault) /\ AddressOf(log.topics[2]) # ZeroAddress
        /\ VerifyERC20Deposit(m) = <<[from |-> AddressOf(log.topics[2]),
                                      amount |-> AsBigInt(log.data)]>>
    BY DEF VerifyERC20Deposit
  <1>2. header.receipts = Root(values) /\ DOMAIN values = DOMAIN block
    BY DEF RootsOf
  <1>3. m.index + 1 \in DOMAIN block /\ m.raw = values[m.index + 1] /\ m.raw.size <= MaxItemSize
    <2>. HIDE DEF values
    <2>1. Proven(Root(values), m)
      BY <1>1, <1>2
    <2>. QED
      BY <1>2, <2>1, ProvenIs
  <1>4. m.raw = EncodeReceipt(r)
    BY <1>3
  <1>5. IsReceipt(r)
    BY <1>3, EvidenceAssumption
  <1>. HIDE DEF values, r, logs
  <1>6. /\ Len(logs) = Len(r.logs)
        /\ \A i \in DOMAIN r.logs : /\ logs[i].address = r.logs[i].address
                                    /\ logs[i].data = r.logs[i].data
                                    /\ logs[i].topics = r.logs[i].topics
    BY <1>4, <1>5, LogsRead DEF logs
  <1>7. m.log + 1 \in DOMAIN r.logs
    <2>1. DOMAIN r.logs = 1..Len(r.logs) /\ Len(r.logs) \in Nat
      BY <1>5 DEF IsReceipt, IsSequence
    <2>2. m.log \in Nat
      BY DEF IsMessage
    <2>. QED
      BY <1>1, <1>6, <2>1, <2>2
  <1>8. log.address = l.address /\ log.data = l.data /\ log.topics = l.topics
    BY <1>6, <1>7
  <1>9. /\ IsSequence(l.topics)
        /\ l.address = Token /\ l.topics # << >> /\ l.topics[1] = TransferEventSig
               => Len(l.topics) = 3
    BY <1>5, <1>7 DEF IsReceipt
  <1>. HIDE DEF log, l
  <1>10. Len(l.topics) = 3
    <2>1. l.topics # << >>
      BY <1>1, <1>8
    <2>. QED
      BY <1>1, <1>8, <1>9, <2>1
  <1>11. DepositLog(r, m.log)
    BY <1>1, <1>3, <1>4, <1>7, <1>8, <1>10 DEF DepositLog, l
  <1>. QED
    BY <1>1, <1>3, <1>8, <1>11 DEF r, l

\* The state a submission finds.
Submittable == block \in Blocks /\ header = RootsOf(block) /\ Submitted(message)

\* In such a state, what is accepted is on chain.
LEMMA SubmittableAccepts == Submittable => AcceptedIsOnChain
  <1>. SUFFICES ASSUME Submittable, Verify(message) # << >>
                PROVE  /\ message.index + 1 \in DOMAIN block
                       /\ IsDeposit(block[message.index + 1], message)
                       /\ Verify(message) = <<PaidBy(block[message.index + 1], message)>>
    BY DEF AcceptedIsOnChain
  <1>. DEFINE m == message
              entry == block[m.index + 1]
  <1>1. block \in Blocks /\ header = RootsOf(block) /\ Submitted(m)
    BY DEF Submittable
  <1>2. m.kind = "eth" \/ m.kind = "erc20"
    BY DEF Verify
  <1>3. IsMessage(m)
    BY <1>1, <1>2 DEF Submitted, NoMessage
  <1>4. CASE m.kind = "eth"
    <2>1. Verify(m) = VerifyETHDeposit(m)
      BY <1>4 DEF Verify
    <2>2. /\ m.index + 1 \in DOMAIN block /\ DepositTx(entry.tx)
          /\ VerifyETHDeposit(m) = <<[from |-> L1Sender(entry.tx), amount |-> entry.tx.value]>>
      BY <1>1, <1>3, <2>1, EthAccepted
    <2>3. IsDeposit(entry, m) = DepositTx(entry.tx)
          /\ PaidBy(entry, m) = [from |-> L1Sender(entry.tx), amount |-> entry.tx.value]
      BY <1>4 DEF IsDeposit, PaidBy
    <2>. HIDE DEF m, entry
    <2>. QED
      BY <2>1, <2>2, <2>3 DEF m, entry
  <1>5. CASE m.kind = "erc20"
    <2>. DEFINE l == entry.receipt.logs[m.log + 1]
    <2>1. Verify(m) = VerifyERC20Deposit(m)
      BY <1>5 DEF Verify
    <2>2. /\ m.index + 1 \in DOMAIN block /\ DepositLog(entry.receipt, m.log)
          /\ VerifyERC20Deposit(m) = <<[from |-> AddressOf(l.topics[2]),
                                        amount |-> AsBigInt(l.data)]>>
      BY <1>1, <1>3, <2>1, Erc20Accepted
    <2>3. IsDeposit(entry, m) = DepositLog(entry.receipt, m.log)
          /\ PaidBy(entry, m) = [from |-> AddressOf(l.topics[2]), amount |-> AsBigInt(l.data)]
      BY <1>5 DEF IsDeposit, PaidBy
    <2>. HIDE DEF m, entry, l
    <2>. QED
      BY <2>1, <2>2, <2>3 DEF m, entry
  <1>. QED
    BY <1>2, <1>4, <1>5

\* The hypotheses hold on from one submission to the next.
LEMMA SubmittableStep ==
    Submittable /\ [Submit]_<<block, header, message>> => Submittable'
  BY DEF Submittable, Submitted, Submit

\* They hold of every submission.
LEMMA AlwaysSubmittable == Submissions => []Submittable
  <1>1. block \in Blocks /\ header = RootsOf(block) /\ message = NoMessage => Submittable
    BY DEF Submittable, Submitted
  <1>. QED
    BY <1>1, SubmittableStep, PTL DEF Submissions

\* Whatever is submitted for whatever block, what the contract accepts is a
\* deposit that the block holds at that index.
THEOREM SubmissionsOnChain == Submissions => []AcceptedIsOnChain
  BY AlwaysSubmittable, SubmittableAccepts, PTL

(***************************************************************************)
(* Withdrawals.                                                            *)
(***************************************************************************)
\* Its unsigned transaction is what L1 signs of it.
LEMMA UnsignedIsPayload ==
    ASSUME NEW tx, tx.type = 2, tx.accessList = List(<< >>)
    PROVE  buildEIP1559Tx(tx.chain, tx.nonce, tx.tipCap, tx.feeCap, tx.gas,
                          tx.to, tx.value, tx.data)
               = Raw(2, SigningPayload(tx))
  <1>. DEFINE s == SigningPayload(tx)
              u == <<Number(tx.chain), Number(tx.nonce), Number(tx.tipCap), Number(tx.feeCap),
                     Number(tx.gas), String(tx.to), Number(tx.value), String(tx.data),
                     List(<< >>)>>
              S == Parts(tx)
  <1>1. /\ s \in Seq(S) /\ Len(s) = 9
        /\ s[1] = Number(tx.chain) /\ s[2] = Number(tx.nonce)
        /\ s[3] = Number(tx.tipCap) /\ s[4] = Number(tx.feeCap)
        /\ s[5] = Number(tx.gas) /\ s[6] = String(tx.to)
        /\ s[7] = Number(tx.value) /\ s[8] = String(tx.data) /\ s[9] = tx.accessList
    BY Payload2
  <1>2. /\ u \in Seq(S) /\ Len(u) = 9
        /\ u[1] = Number(tx.chain) /\ u[2] = Number(tx.nonce)
        /\ u[3] = Number(tx.tipCap) /\ u[4] = Number(tx.feeCap)
        /\ u[5] = Number(tx.gas) /\ u[6] = String(tx.to)
        /\ u[7] = Number(tx.value) /\ u[8] = String(tx.data) /\ u[9] = List(<< >>)
    <2>1. /\ Number(tx.chain) \in S /\ Number(tx.nonce) \in S /\ Number(tx.tipCap) \in S
          /\ Number(tx.feeCap) \in S /\ Number(tx.gas) \in S /\ String(tx.to) \in S
          /\ Number(tx.value) \in S /\ String(tx.data) \in S /\ List(<< >>) \in S
      BY DEF Parts
    <2>. HIDE DEF S
    <2>. QED
      BY <2>1
  <1>3. buildEIP1559Tx(tx.chain, tx.nonce, tx.tipCap, tx.feeCap, tx.gas,
                       tx.to, tx.value, tx.data) = Raw(2, u)
    BY DEF buildEIP1559Tx
  <1>. HIDE DEF s, u, S
  <1>4. \A i \in 1..9 : i = 1 \/ i = 2 \/ i = 3 \/ i = 4 \/ i = 5 \/ i = 6 \/ i = 7 \/ i = 8 \/ i = 9
    OBVIOUS
  <1>5. \A i \in 1..9 : s[i] = u[i]
    BY <1>1, <1>2, <1>4
  <1>6. s = u
    BY <1>1, <1>2, <1>5, SeqEqual
  <1>. QED
    BY <1>3, <1>6 DEF s

\* A field that fills all its bytes is padded with none.
LEMMA FullWidth ==
    ASSUME NEW v \in Nat, Len(bigEndianUint64(v)) = SigSize
    PROVE  String(FixedWidth(v)) = Number(v)
  <1>. DEFINE b == bigEndianUint64(v)
  <1>1. SigSize \in Nat
    BY TransactionsAssumption
  <1>2. b \in Seq(Byte)
    BY BytesType
  <1>3. FixedWidth(v) = padTo32(b)
    BY <1>1, FixedWidthPads
  <1>. HIDE DEF b
  <1>4. Len(b) = SigSize
    BY DEF b
  <1>5. padTo32(b) = SubSeq(b, 1, Len(b))
    BY <1>1, <1>4 DEF padTo32
  <1>6. SubSeq(b, 1, Len(b)) = b
    BY <1>2, SubSeqFull
  <1>. QED
    BY <1>3, <1>5, <1>6 DEF Number, b

\* Signed, it is what L1 holds.
LEMMA SignedIsRaw ==
    ASSUME NEW tx, tx.type = 2, tx.accessList = List(<< >>),
           String(FixedWidth(tx.r)) = Number(tx.r), String(FixedWidth(tx.s)) = Number(tx.s)
    PROVE  AttachSignature(Raw(2, SigningPayload(tx)), tx.parity,
                           FixedWidth(tx.r), FixedWidth(tx.s)) = L1Raw(tx)
  <1>. DEFINE s == SigningPayload(tx)
              t == <<Number(tx.parity), Number(tx.r), Number(tx.s)>>
              kept == [i \in 1..9 |-> IF s[i].isList THEN List(<< >>) ELSE s[i]]
              S == Parts(tx)
  <1>1. /\ s \in Seq(S) /\ Len(s) = 9
        /\ s[1] = Number(tx.chain) /\ s[2] = Number(tx.nonce)
        /\ s[3] = Number(tx.tipCap) /\ s[4] = Number(tx.feeCap)
        /\ s[5] = Number(tx.gas) /\ s[6] = String(tx.to)
        /\ s[7] = Number(tx.value) /\ s[8] = String(tx.data) /\ s[9] = tx.accessList
    BY Payload2
  <1>2. Raw(2, s).item.children = s
    BY RawIs
  <1>3. AttachSignature(Raw(2, s), tx.parity, FixedWidth(tx.r), FixedWidth(tx.s))
            = Raw(2, kept \o t)
    BY <1>2 DEF AttachSignature
  <1>4. L1Raw(tx) = Raw(2, s \o t)
    BY DEF L1Raw
  <1>5. \A v : Number(v).isList = FALSE /\ String(v).isList = FALSE
    BY DEF Number, String
  <1>. HIDE DEF s, t, S
  <1>6. \A i \in 1..9 : i = 1 \/ i = 2 \/ i = 3 \/ i = 4 \/ i = 5 \/ i = 6 \/ i = 7 \/ i = 8 \/ i = 9
    OBVIOUS
  <1>7. \A i \in 1..9 : s[i].isList => s[i] = List(<< >>)
    BY <1>1, <1>5, <1>6
  <1>8. kept = [i \in 1..9 |-> s[i]]
    BY <1>7
  <1>9. s = [i \in 1..9 |-> s[i]]
    BY <1>1
  <1>. QED
    BY <1>3, <1>4, <1>8, <1>9 DEF s

\* A withdrawal mined in any block is read back as it was signed.
THEOREM WithdrawalsReadBack == Submissions => []WithdrawalReadBack
  <1>1. Submittable => WithdrawalReadBack
    <2>. SUFFICES ASSUME Submittable, NEW i \in DOMAIN block,
                         block[i].tx.type = 2, block[i].tx.accessList = List(<< >>)
                  PROVE  LET tx == block[i].tx
                             unsigned == buildEIP1559Tx(tx.chain, tx.nonce, tx.tipCap, tx.feeCap,
                                                        tx.gas, tx.to, tx.value, tx.data)
                         IN  /\ computeTxSighash(L1Raw(tx), parseTransaction(L1Raw(tx))) = unsigned
                             /\ (\A n \in {tx.r, tx.s} : Len(bigEndianUint64(n)) = SigSize)
                                    => AttachSignature(unsigned, tx.parity,
                                                       FixedWidth(tx.r), FixedWidth(tx.s))
                                           = L1Raw(tx)
      BY DEF WithdrawalReadBack
    <2>. DEFINE tx == block[i].tx
                unsigned == buildEIP1559Tx(tx.chain, tx.nonce, tx.tipCap, tx.feeCap, tx.gas,
                                           tx.to, tx.value, tx.data)
    <2>1. IsTransaction(tx) /\ tx.type = 2 /\ tx.accessList = List(<< >>)
      BY EvidenceAssumption DEF Submittable
    <2>. HIDE DEF tx
    <2>2. tx.r \in Nat /\ tx.s \in Nat
      BY <2>1 DEF IsTransaction
    <2>3. unsigned = Raw(2, SigningPayload(tx))
      BY <2>1, UnsignedIsPayload
    <2>. HIDE DEF unsigned
    <2>4. computeTxSighash(L1Raw(tx), parseTransaction(L1Raw(tx))) = unsigned
      BY <2>1, <2>3, Read2
    <2>5. ASSUME Len(bigEndianUint64(tx.r)) = SigSize, Len(bigEndianUint64(tx.s)) = SigSize
          PROVE  AttachSignature(unsigned, tx.parity, FixedWidth(tx.r), FixedWidth(tx.s))
                     = L1Raw(tx)
      <3>1. String(FixedWidth(tx.r)) = Number(tx.r) /\ String(FixedWidth(tx.s)) = Number(tx.s)
        BY <2>2, <2>5, FullWidth
      <3>. QED
        BY <2>1, <2>3, <3>1, SignedIsRaw
    <2>. QED
      BY <2>4, <2>5 DEF tx, unsigned
  <1>. QED
    BY <1>1, AlwaysSubmittable, PTL
=============================================================================
