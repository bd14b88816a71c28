---------------------------- MODULE Relay_proofs ----------------------------
(***************************************************************************)
(* The other direction of Encodings_proofs: what the monitor builds for a  *)
(* deposit in any block is accepted by the contract, and read as L1 saw    *)
(* it.                                                                     *)
(*                                                                         *)
(* From the bytes up: the monitor encodes a transaction as L1 does; no key *)
(* of a trie begins another; the monitor's trie has the nodes of L1's; the *)
(* nodes of its proof decode, and the contract's walk through them goes on *)
(* until it is at the value.                                               *)
(***************************************************************************)
EXTENDS Encodings_proofs, ProofRelay

(***************************************************************************)
(* Transactions: the encodings of the monitor are those of L1.             *)
(***************************************************************************)
\* Fields appended one by one, two, three or four at a time.
LEMMA Appended ==
    ASSUME NEW S, NEW s \in Seq(S), NEW w \in S, NEW x \in S, NEW y \in S, NEW z \in S
    PROVE  /\ s \o <<w>> = Append(s, w)
           /\ s \o <<w, x, y>> = Append(Append(Append(s, w), x), y)
           /\ s \o <<w, x, y, z>> = Append(Append(Append(Append(s, w), x), y), z)
  <1>1. s \o <<w>> = Append(s, w)
    OBVIOUS
  <1>2. s \o <<w, x, y>> = Append(Append(Append(s, w), x), y)
    OBVIOUS
  <1>3. s \o <<w, x, y, z>> = Append(Append(Append(Append(s, w), x), y), z)
    OBVIOUS
  <1>. QED
    BY <1>1, <1>2, <1>3

\* A legacy transaction's fields.
LEMMA LegacyFields ==
    ASSUME NEW a, NEW b, NEW c, NEW d, NEW e, NEW f, NEW g, NEW h, NEW i
    PROVE  (<<a, b>> \o <<c, d, e, f>>) \o <<g, h, i>> = <<a, b, c, d, e, f, g, h, i>>
  <1>. DEFINE S == {a, b, c, d, e, f, g, h, i}
  <1>1. /\ <<a, b>> \in Seq(S) /\ <<a, b, c, d, e, f>> \in Seq(S)
        /\ c \in S /\ d \in S /\ e \in S /\ f \in S /\ g \in S /\ h \in S /\ i \in S
    OBVIOUS
  <1>. HIDE DEF S
  <1>2. <<a, b>> \o <<c, d, e, f>> = Append(Append(Append(Append(<<a, b>>, c), d), e), f)
    BY <1>1, Appended
  <1>3. <<a, b, c, d, e, f>> = Append(Append(Append(Append(<<a, b>>, c), d), e), f)
    OBVIOUS
  <1>4. <<a, b, c, d, e, f>> \o <<g, h, i>>
            = Append(Append(Append(<<a, b, c, d, e, f>>, g), h), i)
    BY <1>1, Appended
  <1>5. <<a, b, c, d, e, f, g, h, i>> = Append(Append(Append(<<a, b, c, d, e, f>>, g), h), i)
    OBVIOUS
  <1>. QED
    BY <1>2, <1>3, <1>4, <1>5, Zenon

\* An access-list transaction's fields.
LEMMA AccessListFields ==
    ASSUME NEW a, NEW b, NEW c, NEW d, NEW e, NEW f, NEW g, NEW h, NEW i, NEW j, NEW k
    PROVE  ((<<a, b, c>> \o <<d, e, f, g>>) \o <<h>>) \o <<i, j, k>>
               = <<a, b, c, d, e, f, g, h, i, j, k>>
  <1>. DEFINE S == {a, b, c, d, e, f, g, h, i, j, k}
  <1>1. /\ <<a, b, c>> \in Seq(S) /\ <<a, b, c, d, e, f, g>> \in Seq(S)
        /\ <<a, b, c, d, e, f, g, h>> \in Seq(S)
        /\ d \in S /\ e \in S /\ f \in S /\ g \in S /\ h \in S /\ i \in S /\ j \in S /\ k \in S
    OBVIOUS
  <1>. HIDE DEF S
  <1>2. <<a, b, c>> \o <<d, e, f, g>> = Append(Append(Append(Append(<<a, b, c>>, d), e), f), g)
    BY <1>1, Appended
  <1>3. <<a, b, c, d, e, f, g>> = Append(Append(Append(Append(<<a, b, c>>, d), e), f), g)
    OBVIOUS
  <1>4. <<a, b, c, d, e, f, g>> \o <<h>> = Append(<<a, b, c, d, e, f, g>>, h)
    BY <1>1, Appended
  <1>5. <<a, b, c, d, e, f, g, h>> = Append(<<a, b, c, d, e, f, g>>, h)
    OBVIOUS
  <1>6. <<a, b, c, d, e, f, g, h>> \o <<i, j, k>>
            = Append(Append(Append(<<a, b, c, d, e, f, g, h>>, i), j), k)
    BY <1>1, Appended
  <1>7. <<a, b, c, d, e, f, g, h, i, j, k>>
            = Append(Append(Append(<<a, b, c, d, e, f, g, h>>, i), j), k)
    OBVIOUS
  <1>. QED
    BY <1>2, <1>3, <1>4, <1>5, <1>6, <1>7, Zenon

\* The nine fields that a transaction of type 2, 3 or 4 begins with.
LEMMA DynamicFeeFields ==
    ASSUME NEW a, NEW b, NEW c, NEW d, NEW e, NEW f, NEW g, NEW h, NEW i
    PROVE  (<<a, b, c, d>> \o <<e, f, g, h>>) \o <<i>> = <<a, b, c, d, e, f, g, h, i>>
  <1>. DEFINE S == {a, b, c, d, e, f, g, h, i}
  <1>1. /\ <<a, b, c, d>> \in Seq(S) /\ <<a, b, c, d, e, f, g, h>> \in Seq(S)
        /\ e \in S /\ f \in S /\ g \in S /\ h \in S /\ i \in S
    OBVIOUS
  <1>. HIDE DEF S
  <1>2. <<a, b, c, d>> \o <<e, f, g, h>>
            = Append(Append(Append(Append(<<a, b, c, d>>, e), f), g), h)
    BY <1>1, Appended
  <1>3. <<a, b, c, d, e, f, g, h>> = Append(Append(Append(Append(<<a, b, c, d>>, e), f), g), h)
    OBVIOUS
  <1>4. <<a, b, c, d, e, f, g, h>> \o <<i>> = Append(<<a, b, c, d, e, f, g, h>>, i)
    BY <1>1, Appended
  <1>5. <<a, b, c, d, e, f, g, h, i>> = Append(<<a, b, c, d, e, f, g, h>>, i)
    OBVIOUS
  <1>. QED
    BY <1>2, <1>3, <1>4, <1>5, Zenon

\* And those of type 2, with its signature.
LEMMA SignedFields ==
    ASSUME NEW a, NEW b, NEW c, NEW d, NEW e, NEW f, NEW g, NEW h, NEW i, NEW j, NEW k, NEW l
    PROVE  (<<a, b, c, d, e, f, g, h, i>> \o << >>) \o <<j, k, l>>
               = <<a, b, c, d, e, f, g, h, i, j, k, l>>
  <1>. DEFINE S == {a, b, c, d, e, f, g, h, i, j, k, l}
              s == <<a, b, c, d, e, f, g, h, i>>
  <1>1. s \in Seq(S) /\ j \in S /\ k \in S /\ l \in S
    OBVIOUS
  <1>2. <<a, b, c, d, e, f, g, h, i, j, k, l>> = Append(Append(Append(s, j), k), l)
    OBVIOUS
  <1>. HIDE DEF S, s
  <1>3. s \o << >> = s
    BY <1>1, ConcatEmptySeq
  <1>4. s \o <<j, k, l>> = Append(Append(Append(s, j), k), l)
    BY <1>1, Appended
  <1>. QED
    BY <1>2, <1>3, <1>4, Zenon DEF s


\* The monitor's encoding of a transaction, of whatever type, is the one L1 holds.
LEMMA TxEncoded ==
    ASSUME NEW tx, IsTransaction(tx)
    PROVE  EncodeTx(tx) = L1Raw(tx)
  <1>. DEFINE signature == <<Number(tx.parity), Number(tx.r), Number(tx.s)>>
  <1>1. CASE tx.type = 0
    <2>. DEFINE v == <<Number(LegacyV(tx)), Number(tx.r), Number(tx.s)>>
    <2>1. L1Raw(tx) = Raw(0, Fields0(tx) \o v)
      BY <1>1, Payload0 DEF L1Raw
    <2>2. Fields0(tx) \o v
              = <<Number(tx.nonce), Number(tx.gasPrice), Number(tx.gas), String(tx.to),
                  Number(tx.value), String(tx.data), Number(LegacyV(tx)), Number(tx.r),
                  Number(tx.s)>>
      BY LegacyFields DEF Fields0, Target
    <2>3. EncodeTx(tx) = encodeLegacyTx(tx)
      BY <1>1 DEF EncodeTx
    <2>. QED
      BY <2>1, <2>2, <2>3, Zenon DEF encodeLegacyTx
  <1>2. CASE tx.type = 1
    <2>1. L1Raw(tx) = Raw(1, SigningPayload(tx) \o signature)
      BY <1>2 DEF L1Raw
    <2>2. SigningPayload(tx)
              = (<<Number(tx.chain), Number(tx.nonce), Number(tx.gasPrice)>>
                 \o <<Number(tx.gas), String(tx.to), Number(tx.value), String(tx.data)>>)
                \o <<tx.accessList>>
      BY <1>2 DEF SigningPayload
    <2>3. SigningPayload(tx) \o signature
              = <<Number(tx.chain), Number(tx.nonce), Number(tx.gasPrice), Number(tx.gas),
                  String(tx.to), Number(tx.value), String(tx.data), tx.accessList,
                  Number(tx.parity), Number(tx.r), Number(tx.s)>>
      BY <2>2, AccessListFields
    <2>4. EncodeTx(tx) = encodeAccessListTx(tx)
      BY <1>2 DEF EncodeTx
    <2>. QED
      BY <2>1, <2>3, <2>4, Zenon DEF encodeAccessListTx
  <1>3. CASE tx.type \in 2..4
    <2>. DEFINE front == <<Number(tx.chain), Number(tx.nonce), Number(tx.tipCap),
                           Number(tx.feeCap), Number(tx.gas), String(tx.to), Number(tx.value),
                           String(tx.data), tx.accessList>>
                own == IF tx.type = 2 THEN << >> ELSE tx.blob
    <2>1. L1Raw(tx) = Raw(tx.type, SigningPayload(tx) \o signature)
      BY <1>3 DEF L1Raw
    <2>2. SigningPayload(tx)
              = ((<<Number(tx.chain), Number(tx.nonce), Number(tx.tipCap), Number(tx.feeCap)>>
                  \o <<Number(tx.gas), String(tx.to), Number(tx.value), String(tx.data)>>)
                 \o <<tx.accessList>>) \o own
      BY <1>3 DEF SigningPayload
    <2>3. SigningPayload(tx) = front \o own
      BY <2>2, DynamicFeeFields
    <2>4. CASE tx.type = 2
      <3>1. (front \o << >>) \o signature
                = <<Number(tx.chain), Number(tx.nonce), Number(tx.tipCap), Number(tx.feeCap),
                    Number(tx.gas), String(tx.to), Number(tx.value), String(tx.data),
                    tx.accessList, Number(tx.parity), Number(tx.r), Number(tx.s)>>
        BY SignedFields
      <3>2. EncodeTx(tx) = encodeEIP1559Tx(tx)
        BY <2>4 DEF EncodeTx
      <3>. QED
        BY <2>1, <2>3, <2>4, <3>1, <3>2, Zenon DEF encodeEIP1559Tx
    <2>5. CASE tx.type # 2
      <3>1. SigningPayload(tx) \o signature = (front \o tx.blob) \o signature
        BY <2>3, <2>5, Zenon
      <3>2. encodeBlobTx(tx) = Raw(3, (front \o tx.blob) \o signature)
        BY Zenon DEF encodeBlobTx
      <3>3. \A fields : Raw(4, fields) = [Raw(3, fields) EXCEPT !.type = 4]
        BY DEF Raw
      <3>4. tx.type = 3 \/ tx.type = 4
        BY <1>3, <2>5
      <3>5. \/ tx.type = 3 /\ EncodeTx(tx) = encodeBlobTx(tx)
            \/ tx.type = 4 /\ EncodeTx(tx) = [encodeBlobTx(tx) EXCEPT !.type = 4]
        BY <3>4 DEF EncodeTx, encodeSetCodeTx
      <3>. QED
        BY <2>1, <3>1, <3>2, <3>3, <3>5, Zenon
    <2>. QED
      BY <2>4, <2>5
  <1>. QED
    BY <1>1, <1>2, <1>3 DEF IsTransaction


(***************************************************************************)
(* Keys and paths.                                                         *)
(***************************************************************************)
\* The monitor writes a path as L1 does.
LEMMA CompactPath ==
    ASSUME NEW x \in Seq(Nibble), NEW terminated \in BOOLEAN
    PROVE  nibblesToCompact(x, terminated) = HexPrefix(x, terminated)
  <1>. DEFINE l == Len(x)
              odd == l % 2
              flags == (IF terminated THEN 2 ELSE 0) + odd
              front == IF odd = 1 THEN <<flags>> ELSE <<flags, 0>>
              all == front \o x
              t == IF terminated THEN 2 ELSE 0
  <1>1. l \in Nat /\ \A k \in 1..l : x[k] \in Nat
    BY DEF Nibble
  <1>2. nibblesToCompact(x, terminated)
            = [k \in 1..Len(all) \div 2 |-> all[2 * k - 1] * 16 + all[2 * k]]
    BY DEF nibblesToCompact
  <1>3. t \in Nat /\ flags = t + odd
    OBVIOUS
  <1>4. CASE odd = 1
    <2>1. PICK m \in Nat : l = 2 * m + 1
      BY <1>1, <1>4
    <2>2. all = <<t + 1>> \o x
      BY <1>3, <1>4
    <2>3. Len(all) = 1 + l /\ all[1] = t + 1 /\ \A k \in 1..l : all[k + 1] = x[k]
      <3>. HIDE DEF l, t
      <3>. QED
        BY <1>1, <1>3, <2>2, SMTT(30) DEF l
    <2>. HIDE DEF all, l
    <2>4. Len(all) \div 2 = m + 1 /\ (l + 1) \div 2 = m + 1
      BY <2>1, <2>3
    <2>5. HexPrefix(x, terminated)
              = [k \in 1..m + 1 |->
                    IF k = 1 THEN 16 * (t + 1) + x[1] ELSE 16 * x[2 * k - 2] + x[2 * k - 1]]
      <3>1. Len(x) % 2 # 0 /\ (Len(x) + 1) \div 2 = m + 1
        BY <1>4, <2>4 DEF l
      <3>. QED
        BY <3>1 DEF HexPrefix
    <2>. HIDE DEF t
    <2>6. ASSUME NEW k \in 1..m + 1
          PROVE  all[2 * k - 1] * 16 + all[2 * k]
                     = IF k = 1 THEN 16 * (t + 1) + x[1] ELSE 16 * x[2 * k - 2] + x[2 * k - 1]
      <3>1. CASE k = 1
        <4>1. 2 * k - 1 = 1 /\ 2 * k = 1 + 1 /\ 1 \in 1..l
          BY <2>1, <3>1
        <4>2. all[2 * k - 1] = t + 1 /\ all[2 * k] = x[1] /\ x[1] \in Nat
          BY <1>1, <2>3, <4>1
        <4>. QED
          BY <1>3, <3>1, <4>2
      <3>2. CASE k # 1
        <4>1. /\ 2 * k - 2 \in 1..l /\ (2 * k - 2) + 1 = 2 * k - 1
              /\ 2 * k - 1 \in 1..l /\ (2 * k - 1) + 1 = 2 * k
          BY <2>1, <3>2
        <4>2. all[2 * k - 1] = x[2 * k - 2] /\ all[2 * k] = x[2 * k - 1]
              /\ x[2 * k - 2] \in Nat /\ x[2 * k - 1] \in Nat
          BY <1>1, <2>3, <4>1
        <4>. QED
          BY <3>2, <4>2
      <3>. QED
        BY <3>1, <3>2
    <2>. QED
      BY <1>2, <2>4, <2>5, <2>6
  <1>5. CASE odd # 1
    <2>1. PICK m \in Nat : l = 2 * m
      BY <1>1, <1>5
    <2>2. all = <<t, 0>> \o x /\ l % 2 = 0
      BY <1>1, <1>3, <1>5
    <2>3. Len(all) = 2 + l /\ all[1] = t /\ all[2] = 0 /\ \A k \in 1..l : all[k + 2] = x[k]
      <3>. HIDE DEF l, t
      <3>. QED
        BY <1>1, <1>3, <2>2, SMTT(30) DEF l
    <2>. HIDE DEF all, l
    <2>4. Len(all) \div 2 = m + 1 /\ l \div 2 + 1 = m + 1
      BY <2>1, <2>3
    <2>5. HexPrefix(x, terminated)
              = [k \in 1..m + 1 |->
                    IF k = 1 THEN 16 * t ELSE 16 * x[2 * k - 3] + x[2 * k - 2]]
      BY <2>2, <2>4 DEF HexPrefix, l
    <2>. HIDE DEF t
    <2>6. ASSUME NEW k \in 1..m + 1
          PROVE  all[2 * k - 1] * 16 + all[2 * k]
                     = IF k = 1 THEN 16 * t ELSE 16 * x[2 * k - 3] + x[2 * k - 2]
      <3>1. CASE k = 1
        <4>1. all[2 * k - 1] = t /\ all[2 * k] = 0
          BY <2>3, <3>1
        <4>. QED
          BY <1>3, <3>1, <4>1
      <3>2. CASE k # 1
        <4>1. /\ 2 * k - 3 \in 1..l /\ (2 * k - 3) + 2 = 2 * k - 1
              /\ 2 * k - 2 \in 1..l /\ (2 * k - 2) + 2 = 2 * k
          BY <2>1, <3>2
        <4>2. all[2 * k - 1] = x[2 * k - 3] /\ all[2 * k] = x[2 * k - 2]
              /\ x[2 * k - 3] \in Nat /\ x[2 * k - 2] \in Nat
          BY <1>1, <2>3, <4>1
        <4>. QED
          BY <3>2, <4>2
      <3>. QED
        BY <3>1, <3>2
    <2>. QED
      BY <1>2, <2>4, <2>5, <2>6
  <1>. QED
    BY <1>4, <1>5

\* The first byte of a key tells how long it is.
LEMMA KeyLength ==
    ASSUME NEW v \in 0..Word - 1
    PROVE  /\ EncodeUint64(v) \in Seq(Byte) /\ EncodeUint64(v) # << >>
           /\ Len(EncodeUint64(v))
                  = IF EncodeUint64(v)[1] <= 127 THEN 1 ELSE EncodeUint64(v)[1] - 127
  <1>. DEFINE b == bigEndianUint64(v)
              short == Len(b) = 1 /\ b[1] <= 127
  <1>1. b \in Seq(Nat) /\ Len(b) \in Nat /\ Len(b) <= 8
    <2>1. v \in Nat /\ Len(b) <= 8
      BY TransactionsAssumption
    <2>. QED
      BY <2>1, BytesNat
  <1>. HIDE DEF b
  <1>2. EncodeUint64(v) = IF short THEN b ELSE <<128 + Len(b)>> \o b
    <2>1. encodeLength(Len(b), 128) = <<128 + Len(b)>>
      BY <1>1 DEF encodeLength, ShortMax
    <2>. QED
      BY <2>1 DEF EncodeUint64, EncodeBytes, b
  <1>3. EncodeUint64(v) \in Seq(Byte)
    BY KeyBytes
  <1>4. CASE short
    BY <1>1, <1>2, <1>3, <1>4
  <1>5. CASE ~short
    <2>1. \A x \in Nat, s \in Seq(Nat) : Len(<<x>> \o s) = Len(s) + 1 /\ (<<x>> \o s)[1] = x
      BY SMTT(30)
    <2>2. 128 + Len(b) \in Nat
      BY <1>1
    <2>3. Len(EncodeUint64(v)) = Len(b) + 1 /\ EncodeUint64(v)[1] = 128 + Len(b)
      BY <1>1, <1>2, <1>5, <2>1, <2>2
    <2>. QED
      BY <1>1, <1>3, <2>3
  <1>. QED
    BY <1>4, <1>5

\* What is asked of the keys of a trie: none begins another, and the proof limits
\* leave room for their nibbles.
Keys(K) ==
    /\ IsFiniteSet(DOMAIN K)
    /\ \A i \in DOMAIN K : K[i] \in Seq(Nibble) /\ Len(K[i]) <= KeyNibbles
    /\ \A i, j \in DOMAIN K : Agree(K[j], K[i], Len(K[i])) => i = j

\* The keys of indices are such keys.
LEMMA IndexKeys ==
    ASSUME NEW n \in Nat, n <= Word
    PROVE  Keys([i \in 1..n |-> Nibbles(EncodeUint64(i - 1))])
  <1>. DEFINE e(i) == EncodeUint64(i - 1)
              K == [i \in 1..n |-> Nibbles(e(i))]
  <1>1. ASSUME NEW i \in 1..n
        PROVE  /\ e(i) \in Seq(Byte) /\ Len(e(i)) >= 1 /\ Len(e(i)) <= 9
               /\ Len(e(i)) = IF e(i)[1] <= 127 THEN 1 ELSE e(i)[1] - 127
               /\ K[i] \in Seq(Nibble) /\ Len(K[i]) = 2 * Len(e(i))
               /\ e(i)[1] = 16 * K[i][1] + K[i][2]
    <2>1. i - 1 \in 0..Word - 1
      BY TransactionsAssumption
    <2>2. /\ e(i) \in Seq(Byte) /\ e(i) # << >> /\ Len(e(i)) <= 9
          /\ Len(e(i)) = IF e(i)[1] <= 127 THEN 1 ELSE e(i)[1] - 127
      BY <2>1, KeyLength, KeyBytes
    <2>. HIDE DEF e
    <2>3. Len(e(i)) >= 1 /\ 1 \in 1..Len(e(i))
      <3>1. \A s \in Seq(Byte) : s # << >> => Len(s) >= 1 /\ 1 \in 1..Len(s)
        BY EmptySeq
      <3>. QED
        BY <2>2, <3>1
    <2>4. K[i] = Nibbles(e(i))
      OBVIOUS
    <2>. HIDE DEF K
    <2>5. /\ K[i] \in Seq(Nibble) /\ Len(K[i]) = 2 * Len(e(i))
          /\ \A k \in 1..Len(e(i)) : e(i)[k] = 16 * K[i][2 * k - 1] + K[i][2 * k]
      <3>1. /\ Nibbles(e(i)) \in Seq(Nibble) /\ Len(Nibbles(e(i))) = 2 * Len(e(i))
            /\ \A k \in 1..Len(e(i)) :
                   e(i)[k] = 16 * Nibbles(e(i))[2 * k - 1] + Nibbles(e(i))[2 * k]
        BY <2>2, NibblesType
      <3>. QED
        BY <2>4, <3>1, Zenon
    <2>6. e(i)[1] = 16 * K[i][2 * 1 - 1] + K[i][2 * 1]
      BY <2>3, <2>5
    <2>. QED
      BY <2>2, <2>3, <2>5, <2>6
  <1>2. DOMAIN K = 1..n
    OBVIOUS
  <1>3. \A i \in 1..n : K[i] = Nibbles(e(i))
    OBVIOUS
  <1>. HIDE DEF K, e
  <1>7. \A i \in 1..n : Len(K[i]) >= 2 /\ Len(K[i]) <= 18
    <2>1. \A i \in 1..n : /\ Len(K[i]) = 2 * Len(e(i)) /\ Len(e(i)) >= 1 /\ Len(e(i)) <= 9
                          /\ K[i] \in Seq(Nibble) /\ e(i) \in Seq(Byte)
      BY <1>1
    <2>. QED
      BY <2>1
  <1>4. ASSUME NEW i \in 1..n, NEW j \in 1..n, Agree(K[j], K[i], Len(K[i]))
        PROVE  i = j
    <2>1. K[j][1] = K[i][1] /\ K[j][2] = K[i][2]
      <3>1. 1 \in 1..Len(K[i]) /\ 2 \in 1..Len(K[i])
        BY <1>1, <1>7
      <3>. QED
        BY <1>4, <3>1 DEF Agree
    <2>2. e(j)[1] = e(i)[1]
      <3>1. e(i)[1] = 16 * K[i][1] + K[i][2] /\ e(j)[1] = 16 * K[j][1] + K[j][2]
        BY <1>1
      <3>. QED
        BY <2>1, <3>1, ZenonT(60)
    <2>3a. Len(e(i)) = Len(e(j))
      <3>1. /\ Len(e(i)) = IF e(i)[1] <= 127 THEN 1 ELSE e(i)[1] - 127
            /\ Len(e(j)) = IF e(j)[1] <= 127 THEN 1 ELSE e(j)[1] - 127
        BY <1>1, Zenon
      <3>2. CASE e(i)[1] <= 127
        BY <2>2, <3>1, <3>2
      <3>3. CASE ~(e(i)[1] <= 127)
        BY <2>2, <3>1, <3>3
      <3>. QED
        BY <3>2, <3>3, Zenon
    <2>3. K[j] = K[i]
      <3>1. Len(K[i]) = 2 * Len(e(i)) /\ Len(K[j]) = 2 * Len(e(j))
        BY <1>1, Zenon
      <3>2. Len(K[j]) = Len(K[i])
        BY <2>3a, <3>1, Zenon
      <3>. QED
        BY <1>1, <1>4, <3>2, AgreeToTheEnd
    <2>4. e(i) = e(j)
      BY <1>1, <1>3, <2>3, NibblesInjective
    <2>5. i - 1 \in 0..Word - 1 /\ j - 1 \in 0..Word - 1
      BY TransactionsAssumption
    <2>6. i - 1 = j - 1
      BY <2>4, <2>5, KeysInjective DEF e
    <2>. QED
      BY <2>6
  <1>5. IsFiniteSet(DOMAIN K)
    BY <1>2, FS_Interval
  <1>6. \A i \in 1..n : Len(K[i]) <= KeyNibbles
    BY <1>7 DEF KeyNibbles
  <1>. QED
    BY <1>1, <1>2, <1>4, <1>5, <1>6 DEF Keys, K, e


(***************************************************************************)
(* What BuildTrie builds.                                                  *)
(***************************************************************************)
\* Some of the keys, and how far they go together.
Together(K, of, d) == \A i, j \in of : Agree(K[i], K[j], d)

Group(K, of, d) == of \in (SUBSET DOMAIN K) \ {{}} /\ d \in Nat /\ Together(K, of, d)

Under(K, of, d, nibble) == {i \in of : d < Len(K[i]) /\ K[i][d + 1] = nibble}

\* Keys that go together are longer than that, or there is only one.
LEMMA GroupLonger ==
    ASSUME NEW K, Keys(K), NEW of, NEW d, Group(K, of, d), Cardinality(of) # 1
    PROVE  \A i \in of : Len(K[i]) > d
  <1>. SUFFICES ASSUME NEW i \in of, ~(Len(K[i]) > d) PROVE FALSE
    OBVIOUS
  <1>1. of \subseteq DOMAIN K /\ d \in Nat /\ \A j \in of : Agree(K[j], K[i], d)
    BY DEF Group, Together
  <1>2. K[i] \in Seq(Nibble) /\ Len(K[i]) \in Nat /\ Agree(K[i], K[i], d)
    BY <1>1 DEF Keys
  <1>3. Len(K[i]) = d
    BY <1>1, <1>2 DEF Agree
  <1>4. of = {i}
    <2>1. \A j \in of : i = j
      BY <1>1, <1>3 DEF Keys
    <2>. QED
      BY <2>1
  <1>5. Cardinality(of) = 1
    BY <1>4, FS_Singleton
  <1>. QED
    BY <1>5

\* commonPrefixLen is how much longer the keys go together.
LEMMA CommonLength ==
    ASSUME NEW K, Keys(K), NEW of, NEW d, Group(K, of, d)
    PROVE  LET c == commonPrefixLen(K, of, d)
           IN  /\ c \in Nat
               /\ Together(K, of, d + c)
               /\ \A n \in Nat : n > d + c => ~Together(K, of, n)
  <1>. DEFINE i == CHOOSE k \in of : TRUE
              T == {n \in 1..Len(K[i]) - d :
                       \A k \in of : /\ Len(K[k]) >= d + n
                                     /\ \A e \in 1..n : K[k][d + e] = K[i][d + e]}
              c == commonPrefixLen(K, of, d)
  <1>1. c = Max({0} \cup T)
    BY DEF commonPrefixLen
  <1>2. i \in of /\ of \subseteq DOMAIN K /\ d \in Nat
    BY DEF Group
  <1>. HIDE DEF i
  <1>3. \A k \in of : K[k] \in Seq(Nibble) /\ Len(K[k]) \in Nat
    BY <1>2 DEF Keys
  <1>4. ASSUME NEW n \in Nat, n > 0
        PROVE  n \in T <=> Together(K, of, d + n)
    <2>1. ASSUME n \in T PROVE Together(K, of, d + n)
      <3>. SUFFICES ASSUME NEW k \in of, NEW l \in of PROVE Agree(K[k], K[l], d + n)
        BY DEF Together
      <3>1. Len(K[k]) >= d + n
        BY <2>1
      <3>2. ASSUME NEW x \in 1..d + n PROVE K[k][x] = K[l][x]
        <4>1. CASE x \in 1..d
          BY <4>1 DEF Group, Together, Agree
        <4>2. CASE x \notin 1..d
          <5>1. x - d \in 1..n /\ d + (x - d) = x
            BY <1>2, <4>2
          <5>2. K[k][d + (x - d)] = K[i][d + (x - d)] /\ K[l][d + (x - d)] = K[i][d + (x - d)]
            BY <2>1, <5>1
          <5>. QED
            BY <5>1, <5>2
        <4>. QED
          BY <4>1, <4>2
      <3>. QED
        BY <3>1, <3>2 DEF Agree
    <2>2. ASSUME Together(K, of, d + n) PROVE n \in T
      <3>1. \A k \in of : Len(K[k]) >= d + n /\ \A x \in 1..d + n : K[k][x] = K[i][x]
        BY <1>2, <2>2 DEF Together, Agree
      <3>2. \A e \in 1..n : d + e \in 1..d + n
        BY <1>2
      <3>3. n \in 1..Len(K[i]) - d
        BY <1>2, <1>3, <1>4, <3>1
      <3>. QED
        BY <3>1, <3>2, <3>3
    <2>. QED
      BY <2>1, <2>2
  <1>5. {0} \cup T \in SUBSET (0..Len(K[i])) /\ Len(K[i]) \in Nat
    BY <1>2, <1>3
  <1>. HIDE DEF T
  <1>6. c \in {0} \cup T /\ \A n \in {0} \cup T : n <= c
    <2>1. {0} \cup T # {} /\ 0 \in Nat
      OBVIOUS
    <2>. HIDE DEF c
    <2>. QED
      BY <1>1, <1>5, <2>1, GreatestOf
  <1>. HIDE DEF c
  <1>7. c \in Nat
    BY <1>5, <1>6
  <1>8. Together(K, of, d + c)
    <2>1. CASE c = 0
      <3>1. d + c = d
        BY <1>2, <2>1
      <3>. QED
        BY <3>1 DEF Group
    <2>2. CASE c # 0
      BY <1>4, <1>6, <1>7, <2>2
    <2>. QED
      BY <2>1, <2>2
  <1>9. ASSUME NEW n \in Nat, n > d + c PROVE ~Together(K, of, n)
    <2>1. n - d \in Nat /\ n - d > 0 /\ d + (n - d) = n /\ ~(n - d <= c)
      BY <1>2, <1>7, <1>9
    <2>2. n - d \notin T
      BY <1>6, <2>1
    <2>. QED
      BY <1>4, <2>1, <2>2
  <1>. QED
    BY <1>7, <1>8, <1>9 DEF c


\* It never goes beyond a key.
LEMMA CommonBound ==
    ASSUME NEW K, Keys(K), NEW of \in (SUBSET DOMAIN K) \ {{}}, NEW d \in Nat
    PROVE  LET c == commonPrefixLen(K, of, d)
           IN  c \in Nat /\ (c > 0 => d + c <= KeyNibbles)
  <1>. DEFINE i == CHOOSE k \in of : TRUE
              T == {n \in 1..Len(K[i]) - d :
                       \A k \in of : /\ Len(K[k]) >= d + n
                                     /\ \A e \in 1..n : K[k][d + e] = K[i][d + e]}
              c == commonPrefixLen(K, of, d)
  <1>1. c = Max({0} \cup T)
    BY DEF commonPrefixLen
  <1>2. i \in DOMAIN K
    OBVIOUS
  <1>. HIDE DEF i
  <1>3. Len(K[i]) \in Nat /\ Len(K[i]) <= KeyNibbles /\ KeyNibbles \in Nat
    BY <1>2 DEF Keys, KeyNibbles
  <1>4. \A n \in {0} \cup T : n \in Nat /\ n <= Len(K[i]) /\ (n > 0 => d + n <= Len(K[i]))
    BY <1>3
  <1>5. {0} \cup T \in SUBSET (0..Len(K[i])) /\ {0} \cup T # {} /\ 0 \in Nat
    BY <1>3
  <1>. HIDE DEF T, c
  <1>6. c \in {0} \cup T
    BY <1>1, <1>3, <1>5, GreatestOf
  <1>7. c \in Nat /\ c <= Len(K[i]) /\ (c > 0 => d + c <= Len(K[i]))
    BY <1>4, <1>6
  <1>8. c \in Nat /\ (c > 0 => d + c <= KeyNibbles)
    BY <1>3, <1>7
  <1>. QED
    BY <1>8 DEF c

\* A node depends on deeper nodes only.
LEMMA BuildDepends ==
    ASSUME NEW K, Keys(K), NEW values, NEW of \in (SUBSET DOMAIN K) \ {{}}, NEW d \in Nat,
           NEW g, NEW h,
           \A Q \in (SUBSET DOMAIN K) \ {{}}, e \in Nat :
               e > d /\ e <= KeyNibbles => g[<<Q, e>>] = h[<<Q, e>>]
    PROVE  buildNode(K, values, of, d, g) = buildNode(K, values, of, d, h)
  <1>. DEFINE first == CHOOSE i \in of : TRUE
              c == commonPrefixLen(K, of, d)
              leaf == Leaf(SubSeq(K[first], d + 1, Len(K[first])), values[first])
              path == SubSeq(K[first], d + 1, d + c)
              U(n) == Under(K, of, d, n)
              at == {n \in 0..15 : U(n) # {}}
              ending == {values[i] : i \in {j \in of : Len(K[j]) = d}}
  <1>1. ASSUME NEW k
        PROVE  buildNode(K, values, of, d, k) =
                   IF Cardinality(of) = 1 THEN leaf
                   ELSE IF c > 0 THEN Extension(path, k[<<of, d + c>>])
                   ELSE Branch([n \in at |-> k[<<U(n), d + 1>>]], ending)
    BY Zenon DEF buildNode, Under
  <1>2. c > 0 => g[<<of, d + c>>] = h[<<of, d + c>>]
    <2>1. c \in Nat /\ (c > 0 => d + c <= KeyNibbles)
      BY CommonBound
    <2>. HIDE DEF c
    <2>. QED
      BY <2>1
  <1>3. ASSUME NEW n \in at PROVE g[<<U(n), d + 1>>] = h[<<U(n), d + 1>>]
    <2>1. U(n) \in (SUBSET DOMAIN K) \ {{}}
      BY DEF Under
    <2>2. PICK i \in DOMAIN K : d < Len(K[i])
      BY DEF Under
    <2>3. Len(K[i]) \in Nat /\ Len(K[i]) <= KeyNibbles /\ KeyNibbles \in Nat
      BY DEF Keys, KeyNibbles
    <2>4. d + 1 \in Nat /\ d + 1 > d /\ d + 1 <= KeyNibbles
      BY <2>2, <2>3
    <2>. HIDE DEF U
    <2>. QED
      BY <2>1, <2>4
  <1>4. [n \in at |-> g[<<U(n), d + 1>>]] = [n \in at |-> h[<<U(n), d + 1>>]]
    BY <1>3, Zenon
  <1>. HIDE DEF leaf, c, path, at, ending
  <1>. QED
    BY <1>1, <1>2, <1>4, Zenon

\* The nodes of a trie.
Built(K, values, m) ==
    \A of \in (SUBSET DOMAIN K) \ {{}}, d \in Nat :
        m[<<of, d>>] = buildNode(K, values, of, d, m)

BuildSolved(K, values) ==
    \E m : m = [at \in ((SUBSET DOMAIN K) \ {{}}) \X Nat |->
                   buildNode(K, values, at[1], at[2], m)]

\* They exist: the deepest first.
LEMMA BuildExists == ASSUME NEW K, Keys(K), NEW values PROVE BuildSolved(K, values)
  <1>. DEFINE S == (SUBSET DOMAIN K) \ {{}}
              D == S \X Nat
              Deep(g, k) == \A P \in S, i \in Nat :
                                i + k > KeyNibbles => g[<<P, i>>] = buildNode(K, values, P, i, g)
              Good == {k \in Nat : \E g : Deep(g, k)}
              next(g) == [at \in D |-> buildNode(K, values, at[1], at[2], g)]
  <1>0. KeyNibbles \in Nat
    BY DEF KeyNibbles
  <1>1. ASSUME NEW g, NEW P \in S, NEW i \in Nat
        PROVE  next(g)[<<P, i>>] = buildNode(K, values, P, i, g)
    <2>1. <<P, i>> \in D /\ <<P, i>>[1] = P /\ <<P, i>>[2] = i
      OBVIOUS
    <2>. QED
      BY <2>1
  <1>. HIDE DEF next
  <1>2. ASSUME NEW g, NEW k \in Nat, k # 0 => Deep(g, k - 1)
        PROVE  Deep(next(g), k)
    <2>. SUFFICES ASSUME NEW P \in S, NEW i \in Nat, i + k > KeyNibbles
                  PROVE  next(g)[<<P, i>>] = buildNode(K, values, P, i, next(g))
      OBVIOUS
    <2>1. ASSUME NEW Q \in S, NEW j \in Nat, j > i, j <= KeyNibbles
          PROVE  g[<<Q, j>>] = next(g)[<<Q, j>>]
      <3>1. k # 0 /\ j + (k - 1) > KeyNibbles
        BY <1>0, <2>1
      <3>2. g[<<Q, j>>] = buildNode(K, values, Q, j, g)
        BY <1>2, <3>1
      <3>. QED
        BY <1>1, <3>2
    <2>2. buildNode(K, values, P, i, g) = buildNode(K, values, P, i, next(g))
      BY <2>1, BuildDepends, SMTT(30)
    <2>. QED
      BY <1>1, <2>2
  <1>3. 0 \in Good
    BY <1>2
  <1>4. ASSUME NEW k \in Good PROVE k + 1 \in Good
    <2>1. PICK g : Deep(g, k)
      OBVIOUS
    <2>2. k + 1 \in Nat /\ (k + 1) - 1 = k
      OBVIOUS
    <2>3. Deep(next(g), k + 1)
      <3>. HIDE DEF Deep
      <3>. QED
        BY <1>2, <2>1, <2>2
    <2>. QED
      BY <2>2, <2>3
  <1>5. Good = Nat
    <2>1. Good \in SUBSET Nat
      OBVIOUS
    <2>. HIDE DEF Good
    <2>. QED
      BY <1>3, <1>4, <2>1, AllNat
  <1>6. PICK g : Deep(g, KeyNibbles + 1)
    <2>1. KeyNibbles + 1 \in Good
      <3>. HIDE DEF Good
      <3>. QED
        BY <1>0, <1>5
    <2>. QED
      BY <2>1
  <1>7. \A P \in S, i \in Nat : g[<<P, i>>] = buildNode(K, values, P, i, g)
    <2>1. \A i \in Nat : i + (KeyNibbles + 1) > KeyNibbles
      BY <1>0
    <2>. QED
      BY <1>6, <2>1
  <1>8. next(g) = [at \in D |-> buildNode(K, values, at[1], at[2], next(g))]
    <2>1. ASSUME NEW P \in S, NEW i \in Nat
          PROVE  buildNode(K, values, P, i, g) = buildNode(K, values, P, i, next(g))
      <3>1. \A Q \in S, j \in Nat : g[<<Q, j>>] = next(g)[<<Q, j>>]
        BY <1>1, <1>7
      <3>. QED
        BY <3>1, BuildDepends, SMTT(30)
    <2>2. \A at \in D : at[1] \in S /\ at[2] \in Nat
      OBVIOUS
    <2>3. \A at \in D : buildNode(K, values, at[1], at[2], g)
                            = buildNode(K, values, at[1], at[2], next(g))
      BY <2>1, <2>2
    <2>. QED
      BY <2>3, Zenon DEF next
  <1>. QED
    BY <1>8, Zenon DEF BuildSolved

\* BuildTrie's answer is the node of all the keys.
LEMMA BuildRoot ==
    ASSUME NEW keys, NEW values, NEW K, K = [i \in DOMAIN keys |-> Nibbles(keys[i])], Keys(K)
    PROVE  \E m : Built(K, values, m) /\ BuildTrie(keys, values) = m[<<DOMAIN K, 0>>]
  <1>. DEFINE D == ((SUBSET DOMAIN keys) \ {{}}) \X Nat
              sol == CHOOSE m : m = [at \in D |-> buildNode(K, values, at[1], at[2], m)]
  <1>1. DOMAIN K = DOMAIN keys
    OBVIOUS
  <1>2. BuildTrie(keys, values) = sol[<<DOMAIN K, 0>>]
    BY <1>1 DEF BuildTrie
  <1>3. sol = [at \in D |-> buildNode(K, values, at[1], at[2], sol)]
    <2>1. \E m : m = [at \in ((SUBSET DOMAIN K) \ {{}}) \X Nat |->
                         buildNode(K, values, at[1], at[2], m)]
      <3>1. BuildSolved(K, values)
        BY BuildExists
      <3>. QED
        BY <3>1, Zenon DEF BuildSolved
    <2>2. \E m : m = [at \in D |-> buildNode(K, values, at[1], at[2], m)]
      BY <1>1, <2>1, Zenon
    <2>. QED
      BY <2>2, Zenon
  <1>. HIDE DEF sol
  <1>4. Built(K, values, sol)
    <2>. SUFFICES ASSUME NEW P \in (SUBSET DOMAIN K) \ {{}}, NEW i \in Nat
                  PROVE  sol[<<P, i>>] = buildNode(K, values, P, i, sol)
      BY DEF Built
    <2>1. <<P, i>> \in D /\ <<P, i>>[1] = P /\ <<P, i>>[2] = i
      BY <1>1
    <2>. QED
      BY <1>3, <2>1
  <1>. QED
    BY <1>2, <1>4


\* The three kinds of node.
ALeaf(K, values, of, d, X) ==
    \E i : of = {i} /\ X = Leaf(SubSeq(K[i], d + 1, Len(K[i])), values[i])
\* No more nibbles are shared than e.
Parted(K, of, e) ==
    /\ \E i, j \in of : i # j
    /\ \A n \in Nat : n > e => ~Together(K, of, n)
AnExtension(K, m, of, d, X) ==
    \E e \in Nat :
        /\ e > d /\ Together(K, of, e) /\ Parted(K, of, e)
        /\ \A i \in of : X = Extension(SubSeq(K[i], d + 1, e), m[<<of, e>>])
Children(K, m, of, d) ==
    [n \in {k \in 0..15 : Under(K, of, d, k) # {}} |-> m[<<Under(K, of, d, n), d + 1>>]]
ABranch(K, m, of, d, X) ==
    /\ \A i \in of : Len(K[i]) > d
    /\ Parted(K, of, d)
    /\ X = Branch(Children(K, m, of, d), {})

\* Two paths that agree have the same parts.
LEMMA SamePart ==
    ASSUME NEW x \in Seq(Nibble), NEW y \in Seq(Nibble), NEW e \in Nat, NEW d \in Nat,
           Len(y) >= e, Agree(x, y, e)
    PROVE  SubSeq(x, d + 1, e) = SubSeq(y, d + 1, e)
  <1>1. Len(x) >= e /\ \A n \in 1..e : x[n] = y[n]
    BY DEF Agree
  <1>. DEFINE w == IF d + 1 <= e THEN e - d ELSE 0
  <1>2. /\ SubSeq(x, d + 1, e) \in Seq(Nibble) /\ Len(SubSeq(x, d + 1, e)) = w
        /\ \A n \in 1..w : SubSeq(x, d + 1, e)[n] = x[d + n]
    BY <1>1
  <1>3. /\ SubSeq(y, d + 1, e) \in Seq(Nibble) /\ Len(SubSeq(y, d + 1, e)) = w
        /\ \A n \in 1..w : SubSeq(y, d + 1, e)[n] = y[d + n]
    OBVIOUS
  <1>4. \A n \in 1..w : d + n \in 1..e
    OBVIOUS
  <1>. HIDE DEF w
  <1>. QED
    BY <1>1, <1>2, <1>3, <1>4, SeqEqual

\* A node of the monitor's trie is a leaf, an extension or a branch.
LEMMA BuiltKinds ==
    ASSUME NEW K, Keys(K), NEW values, NEW m, Built(K, values, m),
           NEW of, NEW d, Group(K, of, d)
    PROVE  \/ ALeaf(K, values, of, d, m[<<of, d>>])
           \/ AnExtension(K, m, of, d, m[<<of, d>>])
           \/ ABranch(K, m, of, d, m[<<of, d>>])
  <1>. DEFINE first == CHOOSE i \in of : TRUE
              c == commonPrefixLen(K, of, d)
              leaf == Leaf(SubSeq(K[first], d + 1, Len(K[first])), values[first])
              path == SubSeq(K[first], d + 1, d + c)
              ending == {values[i] : i \in {j \in of : Len(K[j]) = d}}
  <1>0. of \in (SUBSET DOMAIN K) \ {{}} /\ d \in Nat
    BY DEF Group
  <1>1. m[<<of, d>>] =
            IF Cardinality(of) = 1 THEN leaf
            ELSE IF c > 0 THEN Extension(path, m[<<of, d + c>>])
            ELSE Branch(Children(K, m, of, d), ending)
    <2>1. m[<<of, d>>] = buildNode(K, values, of, d, m)
      BY <1>0 DEF Built
    <2>. QED
      BY <2>1, Zenon DEF buildNode, Children, Under
  <1>2. first \in of /\ \A i \in of : K[i] \in Seq(Nibble) /\ Len(K[i]) \in Nat
    BY <1>0 DEF Keys
  <1>3. /\ c \in Nat /\ Together(K, of, d + c)
        /\ \A n \in Nat : n > d + c => ~Together(K, of, n)
    BY CommonLength
  <1>4. CASE Cardinality(of) = 1
    <2>1. IsFiniteSet(of)
      BY <1>0, FS_Subset DEF Keys
    <2>2. PICK i : of = {i}
      BY <1>4, <2>1, FS_Singleton
    <2>3. first = i
      BY <1>2, <2>2
    <2>. QED
      BY <1>1, <1>4, <2>2, <2>3 DEF ALeaf
  <1>5. ASSUME Cardinality(of) # 1 PROVE \E i, j \in of : i # j
    <2>1. of # {first}
      BY <1>5, FS_Singleton
    <2>. QED
      BY <1>2, <2>1
  <1>6. CASE Cardinality(of) # 1 /\ c > 0
    <2>1. d + c \in Nat /\ d + c > d
      BY <1>0, <1>3, <1>6
    <2>2. ASSUME NEW i \in of PROVE SubSeq(K[i], d + 1, d + c) = path
      <3>1. Agree(K[i], K[first], d + c) /\ Len(K[first]) >= d + c
        BY <1>2, <1>3 DEF Together, Agree
      <3>. HIDE DEF first, c
      <3>. QED
        <4>1. /\ K[i] \in Seq(Nibble) /\ K[first] \in Seq(Nibble)
              /\ d \in Nat /\ d + c \in Nat
          BY <1>0, <1>2, <2>1
        <4>. QED
          BY <3>1, <4>1, SamePart, ZenonT(60)
    <2>3. Parted(K, of, d + c)
      BY <1>3, <1>5, <1>6 DEF Parted
    <2>4. m[<<of, d>>] = Extension(path, m[<<of, d + c>>])
      BY <1>1, <1>6
    <2>. HIDE DEF path, c
    <2>. QED
      BY <1>3, <2>1, <2>2, <2>3, <2>4 DEF AnExtension
  <1>7. CASE Cardinality(of) # 1 /\ ~(c > 0)
    <2>1. d + c = d
      BY <1>0, <1>3, <1>7
    <2>2. \A i \in of : Len(K[i]) > d
      BY <1>7, GroupLonger
    <2>3. ending = {}
      BY <1>0, <1>2, <2>2
    <2>4. Parted(K, of, d)
      BY <1>3, <1>5, <1>7, <2>1 DEF Parted
    <2>5. m[<<of, d>>] = Branch(Children(K, m, of, d), ending)
      BY <1>1, <1>7
    <2>. HIDE DEF ending
    <2>. QED
      BY <2>2, <2>3, <2>4, <2>5 DEF ABranch
  <1>. QED
    BY <1>4, <1>6, <1>7

\* The keys under a nibble go together for one more.
LEMMA GroupUnder ==
    ASSUME NEW K, Keys(K), NEW of, NEW d, Group(K, of, d), NEW n, Under(K, of, d, n) # {}
    PROVE  Group(K, Under(K, of, d, n), d + 1)
  <1>. DEFINE U == Under(K, of, d, n)
  <1>1. U \in (SUBSET DOMAIN K) \ {{}} /\ d \in Nat /\ d + 1 \in Nat
    BY DEF Under, Group
  <1>2. ASSUME NEW i \in U, NEW j \in U PROVE Agree(K[i], K[j], d + 1)
    <2>1. /\ i \in of /\ j \in of /\ Len(K[i]) > d /\ K[i][d + 1] = n /\ K[j][d + 1] = n
      BY DEF Under
    <2>2. Len(K[i]) \in Nat /\ \A x \in 1..d : K[i][x] = K[j][x]
      <3>1. of \subseteq DOMAIN K /\ Agree(K[i], K[j], d)
        BY <2>1 DEF Group, Together
      <3>2. K[i] \in Seq(Nibble)
        BY <2>1, <3>1 DEF Keys
      <3>. QED
        BY <3>1, <3>2 DEF Agree
    <2>3. Len(K[i]) >= d + 1 /\ \A x \in 1..d + 1 : x \in 1..d \/ x = d + 1
      BY <1>1, <2>1, <2>2
    <2>. QED
      BY <2>1, <2>2, <2>3 DEF Agree
  <1>. QED
    BY <1>1, <1>2 DEF Group, Together


(***************************************************************************)
(* The monitor's nodes and those of L1.                                    *)
(***************************************************************************)
\* The paths of some of the keys.
PathsOf(K, of) == {K[i] : i \in of}

\* J holds the values at their keys.
Holds(J, K, values) ==
    DOMAIN J = PathsOf(K, DOMAIN K) /\ \A i \in DOMAIN K : J[K[i]] = values[i]

\* Two paths have the same prefix if they agree.
LEMMA SamePrefix ==
    ASSUME NEW x \in Seq(Nibble), NEW y \in Seq(Nibble), NEW n \in Nat, Len(x) >= n, Len(y) >= n
    PROVE  SubSeq(x, 1, n) = SubSeq(y, 1, n) <=> Agree(x, y, n)
  <1>1. ASSUME Agree(x, y, n) PROVE SubSeq(x, 1, n) = SubSeq(y, 1, n)
    <2>1. SubSeq(x, 0 + 1, n) = SubSeq(y, 0 + 1, n)
      BY <1>1, 0 \in Nat, SamePart, ZenonT(60)
    <2>. QED
      BY <2>1
  <1>2. ASSUME SubSeq(x, 1, n) = SubSeq(y, 1, n) PROVE Agree(x, y, n)
    <2>1. \A s \in Seq(Nibble) : Len(s) >= n => \A m \in 1..n : SubSeq(s, 1, n)[m] = s[m]
      OBVIOUS
    <2>. QED
      BY <1>2, <2>1 DEF Agree
  <1>. QED
    BY <1>1, <1>2

\* What the paths share is how far the keys go together.
LEMMA SharedTogether ==
    ASSUME NEW K, Keys(K), NEW of, NEW d, Group(K, of, d), NEW path \in PathsOf(K, of)
    PROVE  {n \in d + 1..Len(path) :
               \A p \in PathsOf(K, of) : Len(p) >= n /\ SubSeq(p, 1, n) = SubSeq(path, 1, n)}
           = {n \in Nat : n > d /\ Together(K, of, n)}
  <1>. DEFINE P == PathsOf(K, of)
  <1>1. d \in Nat /\ \A p \in P : p \in Seq(Nibble) /\ Len(p) \in Nat
    BY DEF Group, PathsOf, Keys
  <1>2. \A n : Together(K, of, n) <=> \A p, q \in P : Agree(p, q, n)
    BY DEF Together, PathsOf
  <1>3. path \in P
    OBVIOUS
  <1>. HIDE DEF P
  <1>4. ASSUME NEW n \in d + 1..Len(path),
               \A p \in P : Len(p) >= n /\ SubSeq(p, 1, n) = SubSeq(path, 1, n)
        PROVE  n \in Nat /\ n > d /\ Together(K, of, n)
    <2>1. n \in Nat /\ n > d
      BY <1>1
    <2>2. ASSUME NEW p \in P, NEW q \in P PROVE Agree(p, q, n)
      <3>1. Len(p) >= n /\ Len(q) >= n /\ SubSeq(p, 1, n) = SubSeq(q, 1, n)
        BY <1>4
      <3>. QED
        BY <1>1, <2>1, <3>1, SamePrefix
    <2>. QED
      BY <1>2, <2>1, <2>2
  <1>5. ASSUME NEW n \in Nat, n > d, Together(K, of, n)
        PROVE  /\ n \in d + 1..Len(path)
               /\ \A p \in P : Len(p) >= n /\ SubSeq(p, 1, n) = SubSeq(path, 1, n)
    <2>1. \A p \in P : Agree(p, path, n) /\ Len(p) >= n
      BY <1>2, <1>3, <1>5 DEF Agree
    <2>2. n \in d + 1..Len(path)
      BY <1>1, <1>3, <1>5, <2>1
    <2>3. ASSUME NEW p \in P PROVE SubSeq(p, 1, n) = SubSeq(path, 1, n)
      BY <1>1, <1>3, <2>1, SamePrefix
    <2>. QED
      BY <2>1, <2>2, <2>3
  <1>6. {n \in d + 1..Len(path) : \A p \in P : Len(p) >= n /\ SubSeq(p, 1, n) = SubSeq(path, 1, n)}
            = {n \in Nat : n > d /\ Together(K, of, n)}
    BY <1>4, <1>5
  <1>. QED
    BY <1>6 DEF P

\* Several keys have several paths.
LEMMA SeveralPaths ==
    ASSUME NEW K, Keys(K), NEW of \in SUBSET DOMAIN K, NEW e, Parted(K, of, e)
    PROVE  Cardinality(PathsOf(K, of)) # 1
  <1>. DEFINE P == PathsOf(K, of)
  <1>1. IsFiniteSet(P)
    <2>. DEFINE f == [i \in of |-> K[i]]
    <2>1. f \in [of -> P]
      BY DEF PathsOf
    <2>2. \A p \in P : \E i \in of : f[i] = p
      BY DEF PathsOf
    <2>3. f \in Surjection(of, P)
      <3>. HIDE DEF f, P
      <3>. QED
        BY <2>1, <2>2 DEF Surjection
    <2>4. IsFiniteSet(of)
      BY FS_Subset DEF Keys
    <2>. HIDE DEF f, P
    <2>. QED
      BY <2>3, <2>4, FS_Surjection
  <1>2. PICK i \in of, j \in of : i # j
    BY DEF Parted
  <1>3. K[i] \in P /\ K[j] \in P
    BY DEF PathsOf
  <1>4. K[i] # K[j]
    <2>1. Agree(K[i], K[i], Len(K[i])) /\ K[i] \in Seq(Nibble)
      BY DEF Keys, Agree
    <2>. QED
      BY <1>2, <2>1 DEF Keys
  <1>. HIDE DEF P
  <1>5. Cardinality(P) # 1
    BY <1>1, <1>3, <1>4, FS_Singleton
  <1>. QED
    BY <1>5 DEF P

\* A leaf, an extension and a branch are encoded as their items.
LEMMA Encoded ==
    /\ \A path, v : encode(Leaf(path, v))
                        = NodeList(<<PathString(nibblesToCompact(path, TRUE)), ValueString(v)>>)
    /\ \A path, child : encode(Extension(path, child))
                            = NodeList(<<PathString(nibblesToCompact(path, FALSE)),
                                         Ref(encode(child))>>)
    /\ \A children : encode(Branch(children, {}))
                         = NodeList([y \in 1..17 |->
                               IF y - 1 \in DOMAIN children THEN Ref(encode(children[y - 1]))
                               ELSE EmptyString])
  BY DEF encode, Leaf, Extension, Branch


\* The tries of the same values, up to a depth.
SameBelow(K, m, g, d) ==
    \A Q, e : Group(K, Q, e) /\ e > d => encode(m[<<Q, e>>]) = g[<<PathsOf(K, Q), e>>]

\* L1 composes the node that the monitor builds.
LEMMA SameStep ==
    ASSUME NEW K, Keys(K), NEW values, NEW m, Built(K, values, m), NEW J, Holds(J, K, values),
           NEW g, NEW of, NEW d, Group(K, of, d), SameBelow(K, m, g, d)
    PROVE  encode(m[<<of, d>>]) = Composed(J, PathsOf(K, of), d, g)
  <1>. DEFINE P == PathsOf(K, of)
              path == CHOOSE p \in P : TRUE
              shared == {n \in d + 1..Len(path) :
                            \A p \in P : Len(p) >= n /\ SubSeq(p, 1, n) = SubSeq(path, 1, n)}
              j == Max(shared)
              below(y) == {p \in P : Len(p) > d /\ p[d + 1] = y}
              ending == {p \in P : Len(p) = d}
              leaf == NodeList(<<PathString(HexPrefix(SubSeq(path, d + 1, Len(path)), TRUE)),
                                 ValueString(J[path])>>)
              part == PathString(HexPrefix(SubSeq(path, d + 1, j), FALSE))
              child(y) == IF y <= 16
                          THEN Reference(below(y - 1), g[<<below(y - 1), d + 1>>])
                          ELSE IF ending # {} THEN ValueString(J[CHOOSE p \in ending : TRUE])
                          ELSE EmptyString
  <1>1. Composed(J, P, d, g) =
            IF Cardinality(P) = 1 THEN leaf
            ELSE IF shared # {} THEN NodeList(<<part, Reference(P, g[<<P, j>>])>>)
            ELSE NodeList([y \in 1..17 |-> child(y)])
    BY Zenon DEF Composed
  <1>2. /\ of \subseteq DOMAIN K /\ of # {} /\ d \in Nat /\ Together(K, of, d)
        /\ of \in SUBSET DOMAIN K
    BY DEF Group
  <1>3. P # {} /\ path \in P /\ \A p \in P : p \in Seq(Nibble) /\ Len(p) \in Nat
    BY <1>2 DEF PathsOf, Keys
  <1>4. shared = {n \in Nat : n > d /\ Together(K, of, n)}
    <2>. HIDE DEF path
    <2>. QED
      BY <1>3, SharedTogether
  <1>5. PICK i0 \in of : path = K[i0]
    BY <1>3 DEF PathsOf
  <1>6. CASE ALeaf(K, values, of, d, m[<<of, d>>])
    <2>1. PICK i : of = {i} /\ m[<<of, d>>] = Leaf(SubSeq(K[i], d + 1, Len(K[i])), values[i])
      BY <1>6 DEF ALeaf
    <2>2. i = i0 /\ i \in DOMAIN K /\ P = {K[i]}
      BY <1>2, <1>5, <2>1 DEF PathsOf
    <2>3. path = K[i] /\ J[path] = values[i] /\ Cardinality(P) = 1
      BY <1>5, <2>2, FS_Singleton DEF Holds
    <2>. DEFINE x == SubSeq(K[i], d + 1, Len(K[i]))
    <2>4. x \in Seq(Nibble)
      BY <1>2, <2>2 DEF Keys
    <2>. HIDE DEF path, P
    <2>5. leaf = NodeList(<<PathString(HexPrefix(x, TRUE)), ValueString(values[i])>>)
      BY <2>3, Zenon
    <2>. HIDE DEF x, leaf
    <2>6. HexPrefix(x, TRUE) = nibblesToCompact(x, TRUE)
      BY <2>4, CompactPath
    <2>7. encode(m[<<of, d>>]) = NodeList(<<PathString(nibblesToCompact(x, TRUE)),
                                            ValueString(values[i])>>)
      BY <2>1, Encoded, Zenon DEF x
    <2>8. Composed(J, P, d, g) = leaf
      BY <1>1, <2>3, Zenon
    <2>. QED
      BY <2>5, <2>6, <2>7, <2>8, Zenon DEF P
  <1>7. CASE AnExtension(K, m, of, d, m[<<of, d>>])
    <2>1. PICK e \in Nat :
              /\ e > d /\ Together(K, of, e) /\ Parted(K, of, e)
              /\ \A i \in of : m[<<of, d>>] = Extension(SubSeq(K[i], d + 1, e), m[<<of, e>>])
      BY <1>7 DEF AnExtension
    <2>2. Cardinality(P) # 1
      BY <1>2, <2>1, SeveralPaths
    <2>3. shared # {} /\ j = e
      <3>1. e \in shared
        BY <1>4, <2>1
      <3>2. \A n \in shared : n \in Nat /\ n <= e
        BY <1>2, <1>4, <2>1 DEF Parted
      <3>3. shared \in SUBSET (0..e) /\ 0 \in Nat
        BY <3>2
      <3>. HIDE DEF shared
      <3>4. j \in shared /\ e <= j
        BY <2>1, <3>1, <3>3, GreatestOf
      <3>. HIDE DEF j
      <3>5. j \in Nat /\ j <= e /\ e \in Nat
        BY <2>1, <3>2, <3>4
      <3>. QED
        BY <3>1, <3>4, <3>5
    <2>. DEFINE x == SubSeq(K[i0], d + 1, e)
    <2>4. x \in Seq(Nibble)
      <3>1. K[i0] \in Seq(Nibble) /\ Len(K[i0]) >= e
        BY <1>2, <2>1 DEF Keys, Together, Agree
      <3>. QED
        BY <1>2, <2>1, <3>1
    <2>5. Group(K, of, e)
      BY <1>2, <2>1 DEF Group
    <2>6. encode(m[<<of, e>>]) = g[<<P, e>>]
      BY <2>1, <2>5 DEF SameBelow
    <2>7. Reference(P, g[<<P, e>>]) = Ref(encode(m[<<of, e>>]))
      BY <1>3, <2>6, Zenon DEF Reference, Ref
    <2>8. m[<<of, d>>] = Extension(x, m[<<of, e>>])
      BY <2>1
    <2>. HIDE DEF path, P, j, shared
    <2>9. part = PathString(HexPrefix(x, FALSE))
      BY <1>5, <2>3, Zenon
    <2>. HIDE DEF x, part
    <2>10. HexPrefix(x, FALSE) = nibblesToCompact(x, FALSE)
      BY <2>4, CompactPath
    <2>11. encode(m[<<of, d>>]) = NodeList(<<PathString(nibblesToCompact(x, FALSE)),
                                             Ref(encode(m[<<of, e>>]))>>)
      BY <2>8, Encoded, Zenon
    <2>12. Composed(J, P, d, g) = NodeList(<<part, Reference(P, g[<<P, e>>])>>)
      BY <1>1, <2>2, <2>3, Zenon
    <2>. QED
      BY <2>7, <2>9, <2>10, <2>11, <2>12, Zenon DEF P
  <1>8. CASE ABranch(K, m, of, d, m[<<of, d>>])
    <2>. DEFINE kids == Children(K, m, of, d)
                U(n) == Under(K, of, d, n)
    <2>1. /\ \A i \in of : Len(K[i]) > d
          /\ Parted(K, of, d)
          /\ m[<<of, d>>] = Branch(kids, {})
      BY <1>8 DEF ABranch
    <2>2. Cardinality(P) # 1
      BY <1>2, <2>1, SeveralPaths
    <2>3. shared = {}
      BY <1>4, <2>1 DEF Parted
    <2>4. ending = {}
      BY <1>2, <2>1 DEF PathsOf
    <2>5. ASSUME NEW n PROVE below(n) = PathsOf(K, U(n))
      BY DEF PathsOf, Under
    <2>6. /\ DOMAIN kids = {n \in 0..15 : U(n) # {}}
          /\ \A n \in DOMAIN kids : kids[n] = m[<<U(n), d + 1>>]
      BY DEF Children
    <2>. HIDE DEF kids, below
    <2>7. ASSUME NEW y \in 1..17
          PROVE  child(y) = IF y - 1 \in DOMAIN kids THEN Ref(encode(kids[y - 1]))
                            ELSE EmptyString
      <3>1. CASE y - 1 \in DOMAIN kids
        <4>1. y <= 16 /\ U(y - 1) # {} /\ kids[y - 1] = m[<<U(y - 1), d + 1>>]
          BY <2>6, <3>1
        <4>2. Group(K, U(y - 1), d + 1) /\ d + 1 > d
          BY <1>2, <4>1, GroupUnder
        <4>3. encode(kids[y - 1]) = g[<<below(y - 1), d + 1>>]
          BY <2>5, <4>1, <4>2 DEF SameBelow
        <4>4. below(y - 1) # {}
          BY <2>5, <4>1 DEF PathsOf
        <4>5. child(y) = Reference(below(y - 1), g[<<below(y - 1), d + 1>>])
          BY <4>1
        <4>. HIDE DEF child, U
        <4>6. child(y) = Ref(encode(kids[y - 1]))
          BY <4>3, <4>4, <4>5, Zenon DEF Reference, Ref
        <4>. QED
          BY <3>1, <4>6
      <3>2. CASE y - 1 \notin DOMAIN kids /\ y <= 16
        <4>1. y - 1 \in 0..15
          BY <3>2
        <4>2. U(y - 1) = {}
          BY <2>6, <3>2, <4>1
        <4>3. below(y - 1) = {}
          BY <2>5, <4>2 DEF PathsOf
        <4>4. child(y) = Reference(below(y - 1), g[<<below(y - 1), d + 1>>])
          BY <3>2
        <4>. HIDE DEF child
        <4>5. child(y) = EmptyString
          BY <4>3, <4>4, Zenon DEF Reference
        <4>. QED
          BY <3>2, <4>5
      <3>3. CASE y - 1 \notin DOMAIN kids /\ ~(y <= 16)
        <4>1. child(y) = EmptyString
          BY <2>4, <3>3
        <4>. QED
          BY <3>3, <4>1
      <3>. QED
        BY <3>1, <3>2, <3>3
    <2>. HIDE DEF child, ending, shared, P, path, U
    <2>8. Composed(J, P, d, g) = NodeList([y \in 1..17 |-> child(y)])
      BY <1>1, <2>2, <2>3, Zenon
    <2>9. encode(m[<<of, d>>])
              = NodeList([y \in 1..17 |-> IF y - 1 \in DOMAIN kids THEN Ref(encode(kids[y - 1]))
                                          ELSE EmptyString])
      BY <2>1, Encoded, Zenon
    <2>10. [y \in 1..17 |-> child(y)]
               = [y \in 1..17 |-> IF y - 1 \in DOMAIN kids THEN Ref(encode(kids[y - 1]))
                                  ELSE EmptyString]
      BY <2>7, Zenon
    <2>. QED
      BY <2>8, <2>9, <2>10, Zenon DEF P
  <1>. QED
    BY <1>6, <1>7, <1>8, BuiltKinds


\* So all their nodes are the same: from the deepest on.
LEMMA SameNodes ==
    ASSUME NEW K, Keys(K), NEW values, NEW m, Built(K, values, m), NEW J, Holds(J, K, values),
           NEW g, Nodes(J, g)
    PROVE  \A of, d : Group(K, of, d) => encode(m[<<of, d>>]) = g[<<PathsOf(K, of), d>>]
  <1>. DEFINE Same(of, d) == encode(m[<<of, d>>]) = g[<<PathsOf(K, of), d>>]
              Good == {k \in Nat : \A of, d : Group(K, of, d) /\ d + k > KeyNibbles => Same(of, d)}
  <1>1. KeyNibbles \in Nat /\ \A of, d : Group(K, of, d) => d \in Nat /\ d <= KeyNibbles
    <2>1. ASSUME NEW of, NEW d, Group(K, of, d) PROVE d \in Nat /\ d <= KeyNibbles
      <3>1. PICK i \in of : i \in DOMAIN K /\ Agree(K[i], K[i], d) /\ d \in Nat
        BY <2>1 DEF Group, Together
      <3>2. Len(K[i]) \in Nat /\ Len(K[i]) <= KeyNibbles /\ Len(K[i]) >= d
        BY <3>1 DEF Keys, Agree
      <3>. QED
        BY <3>1, <3>2 DEF KeyNibbles
    <2>. QED
      BY <2>1 DEF KeyNibbles
  <1>2. 0 \in Good
    BY <1>1
  <1>3. ASSUME NEW k \in Good PROVE k + 1 \in Good
    <2>. SUFFICES ASSUME NEW of, NEW d, Group(K, of, d), d + (k + 1) > KeyNibbles
                  PROVE  Same(of, d)
      OBVIOUS
    <2>1. SameBelow(K, m, g, d)
      <3>. SUFFICES ASSUME NEW Q, NEW e, Group(K, Q, e), e > d PROVE Same(Q, e)
        BY DEF SameBelow
      <3>1. e + k > KeyNibbles
        BY <1>1
      <3>. QED
        BY <3>1
    <2>2. encode(m[<<of, d>>]) = Composed(J, PathsOf(K, of), d, g)
      BY <2>1, SameStep
    <2>3. g[<<PathsOf(K, of), d>>] = Composed(J, PathsOf(K, of), d, g)
      <3>1. PathsOf(K, of) \in SUBSET DOMAIN J /\ d \in Nat
        BY DEF Group, PathsOf, Holds
      <3>. QED
        BY <3>1 DEF Nodes
    <2>. QED
      BY <2>2, <2>3
  <1>4. Good = Nat
    <2>1. Good \in SUBSET Nat
      OBVIOUS
    <2>. HIDE DEF Good
    <2>. QED
      BY <1>2, <1>3, <2>1, AllNat
  <1>5. \A of, d : Group(K, of, d) => Same(of, d)
    <2>1. KeyNibbles + 1 \in Good
      <3>1. KeyNibbles + 1 \in Nat
        BY <1>1
      <3>. QED
        BY <1>4, <3>1, Zenon
    <2>2. \A of, d : Group(K, of, d) => d + (KeyNibbles + 1) > KeyNibbles
      BY <1>1
    <2>. QED
      BY <2>1, <2>2
  <1>. QED
    BY <1>5

\* The key of position i, and the keys of the positions of values.
Key(i) == Nibbles(EncodeUint64(i - 1))
KeysOf(values) == [i \in DOMAIN values |-> Key(i)]

\* The keys of a block are keys, and the trie that the monitor builds of them has
\* L1's root.
LEMMA SameRoot ==
    ASSUME NEW values, NEW n \in Nat, DOMAIN values = 1..n, n <= Word, n # 0
    PROVE  LET K == KeysOf(values)
           IN  /\ Keys(K)
               /\ \E m : /\ Built(K, values, m)
                         /\ TrieOf(values) = m[<<DOMAIN K, 0>>]
                         /\ Root(values) = encode(m[<<DOMAIN K, 0>>])
  <1>. DEFINE K == KeysOf(values)
              key(i) == Nibbles(EncodeUint64(i - 1))
              J == [p \in {key(i) : i \in DOMAIN values} |->
                       values[CHOOSE i \in DOMAIN values : key(i) = p]]
  <1>1. Keys(K)
    <2>1. K = [i \in 1..n |-> Nibbles(EncodeUint64(i - 1))]
      BY DEF KeysOf, Key
    <2>. QED
      BY <2>1, IndexKeys
  <1>2. DOMAIN K = DOMAIN values /\ \A i \in DOMAIN values : K[i] = key(i)
    BY DEF KeysOf, Key
  <1>3. Root(values) = TrieRoot(J)
    BY DEF Root
  <1>4. Holds(J, K, values)
    <2>1. DOMAIN J = PathsOf(K, DOMAIN K)
      BY <1>2 DEF PathsOf
    <2>2. ASSUME NEW i \in DOMAIN K PROVE J[K[i]] = values[i]
      <3>1. \A j \in DOMAIN values : key(j) = K[i] => j = i
        <4>. SUFFICES ASSUME NEW j \in DOMAIN values, K[j] = K[i] PROVE j = i
          BY <1>2
        <4>1. K[i] \in Seq(Nibble) /\ Agree(K[j], K[i], Len(K[i]))
          BY <1>1, <1>2 DEF Keys, Agree
        <4>. QED
          BY <1>1, <1>2, <4>1 DEF Keys
      <3>2. (CHOOSE j \in DOMAIN values : key(j) = K[i]) = i
        <4>1. i \in DOMAIN values /\ key(i) = K[i]
          BY <1>2
        <4>. HIDE DEF key, K
        <4>. QED
          BY <3>1, <4>1
      <3>3. K[i] \in DOMAIN J
        BY <1>2
      <3>. HIDE DEF K, key
      <3>. QED
        BY <3>2, <3>3
    <2>. HIDE DEF J
    <2>. QED
      BY <2>1, <2>2 DEF Holds
  <1>. HIDE DEF J, key
  <1>5. Paths(J) /\ \A p \in DOMAIN J : Len(p) <= KeyNibbles
    BY <1>1, <1>4 DEF Paths, Holds, PathsOf, Keys
  <1>6. PICK g : /\ Nodes(J, g)
                 /\ TrieRoot(J) = IF DOMAIN J = {} THEN EmptyString ELSE g[<<DOMAIN J, 0>>]
    <2>1. KeyNibbles \in Nat
      BY DEF KeyNibbles
    <2>. QED
      BY <1>5, <2>1, RootNode
  <1>7. PICK m : Built(K, values, m) /\ TrieOf(values) = m[<<DOMAIN K, 0>>]
    <2>. DEFINE keys == [i \in DOMAIN values |-> EncodeUint64(i - 1)]
    <2>1. K = [i \in DOMAIN keys |-> Nibbles(keys[i])]
      BY DEF KeysOf, Key
    <2>2. TrieOf(values) = BuildTrie(keys, values)
      BY DEF TrieOf
    <2>. HIDE DEF K, keys
    <2>. QED
      BY <1>1, <2>1, <2>2, BuildRoot
  <1>. HIDE DEF K
  <1>8. Group(K, DOMAIN K, 0)
    <2>1. DOMAIN K # {}
      <3>1. 1 \in 1..n
        OBVIOUS
      <3>. QED
        BY <1>2, <3>1
    <2>2. \A i, j \in DOMAIN K : Agree(K[i], K[j], 0)
      BY <1>1 DEF Agree, Keys
    <2>. QED
      BY <2>1, <2>2 DEF Group, Together
  <1>9. encode(m[<<DOMAIN K, 0>>]) = g[<<DOMAIN J, 0>>] /\ DOMAIN J # {}
    <2>1. DOMAIN J = PathsOf(K, DOMAIN K)
      BY <1>4 DEF Holds
    <2>2. encode(m[<<DOMAIN K, 0>>]) = g[<<PathsOf(K, DOMAIN K), 0>>]
      BY <1>1, <1>4, <1>6, <1>7, <1>8, SameNodes
    <2>. QED
      BY <1>8, <2>1, <2>2 DEF PathsOf, Group
  <1>10. Root(values) = encode(m[<<DOMAIN K, 0>>])
    BY <1>3, <1>6, <1>9
  <1>. QED
    BY <1>1, <1>7, <1>10 DEF K


(***************************************************************************)
(* The way down to a key, i0's, and the proof that GenerateProof makes.    *)
(***************************************************************************)
\* The node of some keys, i0 among them, that go together for d nibbles.
Spot(K, i0, of, d) == Group(K, of, d) /\ i0 \in of
Place(m, of, d) == [node |-> m[<<of, d>>], depth |-> d]

\* The way ends in the node, at the value,
Ends(K, values, i0, m, of, d) ==
    /\ Child(Place(m, of, d), K[i0]) = << >>
    /\ encode(m[<<of, d>>])
           = NodeList(<<PathString(HexPrefix(SubSeq(K[i0], d + 1, Len(K[i0])), TRUE)),
                        ValueString(values[i0])>>)

\* or it goes on to a deeper node, that the node refers to.
Refers(K, i0, m, of, d, Q, e) ==
    \/ encode(m[<<of, d>>]) = NodeList(<<PathString(HexPrefix(SubSeq(K[i0], d + 1, e), FALSE)),
                                         Ref(encode(m[<<Q, e>>]))>>)
    \/ /\ e = d + 1
       /\ \E c : /\ encode(m[<<of, d>>]) = NodeList(c) /\ Len(c) = 17 /\ DOMAIN c = 1..17
                 /\ c[K[i0][d + 1] + 1] = Ref(encode(m[<<Q, e>>]))
GoesOn(K, i0, m, of, d, Q, e) ==
    /\ Spot(K, i0, Q, e) /\ e > d
    /\ Child(Place(m, of, d), K[i0]) = <<Place(m, Q, e)>>
    /\ Refers(K, i0, m, of, d, Q, e)

\* What the nodes are made of.
LEMMA Kinds3 ==
    /\ \A path, v : Leaf(path, v).kind = "leaf"
    /\ \A path, child : /\ Extension(path, child).kind = "extension"
                        /\ Extension(path, child).path = path
                        /\ Extension(path, child).child = child
    /\ \A children, v : Branch(children, v).kind = "branch"
                        /\ Branch(children, v).children = children
  BY DEF Leaf, Extension, Branch

\* A key of some that go together is that long.
LEMMA SpotDepth ==
    ASSUME NEW K, Keys(K), NEW i0, NEW of, NEW d, Spot(K, i0, of, d)
    PROVE  /\ K[i0] \in Seq(Nibble) /\ Len(K[i0]) \in Nat /\ d \in Nat /\ d <= Len(K[i0])
           /\ Len(K[i0]) <= KeyNibbles /\ i0 \in DOMAIN K /\ \A i \in of : Agree(K[i], K[i0], d)
  <1>1. i0 \in of /\ of \subseteq DOMAIN K /\ d \in Nat /\ \A i, j \in of : Agree(K[i], K[j], d)
    BY DEF Spot, Group, Together
  <1>2. K[i0] \in Seq(Nibble) /\ Len(K[i0]) <= KeyNibbles /\ Len(K[i0]) >= d
    BY <1>1 DEF Keys, Agree
  <1>3. Len(K[i0]) \in Nat
    BY <1>2
  <1>. QED
    BY <1>1, <1>2, <1>3

\* At each node the way ends or goes on.
LEMMA SpotKinds ==
    ASSUME NEW K, Keys(K), NEW values, NEW m, Built(K, values, m), NEW i0, NEW of, NEW d,
           Spot(K, i0, of, d)
    PROVE  Ends(K, values, i0, m, of, d) \/ \E Q, e : GoesOn(K, i0, m, of, d, Q, e)
  <1>. DEFINE q == K[i0]
              X == m[<<of, d>>]
              at == Place(m, of, d)
  <1>1. /\ i0 \in of /\ Group(K, of, d) /\ d \in Nat /\ of \subseteq DOMAIN K
        /\ q \in Seq(Nibble) /\ Len(q) \in Nat /\ d <= Len(q)
        /\ at.node = X /\ at.depth = d
    BY SpotDepth DEF Spot, Group, Place
  <1>2. CASE ALeaf(K, values, of, d, X)
    <2>1. X = Leaf(SubSeq(q, d + 1, Len(q)), values[i0])
      BY <1>1, <1>2 DEF ALeaf
    <2>2. SubSeq(q, d + 1, Len(q)) \in Seq(Nibble)
      BY <1>1
    <2>. DEFINE x == SubSeq(q, d + 1, Len(q))
    <2>. HIDE DEF X, x, at
    <2>3. X.kind = "leaf"
      <3>1. X = Leaf(x, values[i0])
        BY <2>1, Zenon DEF x
      <3>. QED
        BY <3>1, Kinds3, ZenonT(60)
    <2>4. Child(at, q) = << >>
      BY <1>1, <2>3 DEF Child
    <2>5. encode(X) = NodeList(<<PathString(nibblesToCompact(x, TRUE)), ValueString(values[i0])>>)
      BY <2>1, Encoded, Zenon DEF x
    <2>6. nibblesToCompact(x, TRUE) = HexPrefix(x, TRUE)
      BY <2>2, CompactPath DEF x
    <2>. QED
      BY <2>4, <2>5, <2>6, Zenon DEF Ends, X, x, at
  <1>3. CASE AnExtension(K, m, of, d, X)
    <2>1. PICK e \in Nat : /\ e > d /\ Together(K, of, e)
                           /\ X = Extension(SubSeq(q, d + 1, e), m[<<of, e>>])
      BY <1>1, <1>3 DEF AnExtension
    <2>2. Spot(K, i0, of, e)
      BY <1>1, <2>1 DEF Spot, Group
    <2>3. e <= Len(q)
      BY <2>2, SpotDepth
    <2>. DEFINE x == SubSeq(q, d + 1, e)
    <2>4. x \in Seq(Nibble) /\ Len(x) = e - d
      BY <1>1, <2>1, <2>3
    <2>. HIDE DEF X, x, at
    <2>5. X.kind = "extension" /\ X.path = x /\ X.child = m[<<of, e>>]
      <3>1. X = Extension(x, m[<<of, e>>])
        BY <2>1, Zenon DEF x
      <3>2. \A path, child : /\ Extension(path, child).kind = "extension"
                             /\ Extension(path, child).path = path
                             /\ Extension(path, child).child = child
        BY Kinds3, Zenon
      <3>. QED
        BY <3>1, <3>2, ZenonT(60)
    <2>6. at.depth + Len(at.node.path) = e
      <3>1. Len(at.node.path) = e - d /\ at.depth = d
        BY <1>1, <2>4, <2>5, Zenon
      <3>2. d + (e - d) = e
        BY <1>1, <2>1
      <3>. QED
        BY <3>1, <3>2, Zenon
    <2>7. Child(at, q) = <<[node |-> at.node.child, depth |-> at.depth + Len(at.node.path)]>>
      BY <1>1, <2>5 DEF Child
    <2>8. Child(at, q) = <<Place(m, of, e)>>
      BY <1>1, <2>5, <2>6, <2>7, Zenon DEF Place
    <2>9. encode(X) = NodeList(<<PathString(nibblesToCompact(x, FALSE)),
                                 Ref(encode(m[<<of, e>>]))>>)
      BY <2>1, Encoded, Zenon DEF x
    <2>10. nibblesToCompact(x, FALSE) = HexPrefix(x, FALSE)
      BY <2>4, CompactPath
    <2>11. Refers(K, i0, m, of, d, of, e)
      BY <2>9, <2>10, Zenon DEF Refers, X, x
    <2>. QED
      BY <2>1, <2>2, <2>8, <2>11, Zenon DEF GoesOn, at
  <1>4. CASE ABranch(K, m, of, d, X)
    <2>. DEFINE kids == Children(K, m, of, d)
                y == q[d + 1]
                Q == Under(K, of, d, y)
    <2>1. d < Len(q) /\ X = Branch(kids, {})
      BY <1>1, <1>4 DEF ABranch
    <2>2. y \in 0..15 /\ i0 \in Q
      <3>1. d + 1 \in 1..Len(q)
        BY <1>1, <2>1
      <3>2. y \in Nibble
        BY <1>1, <3>1
      <3>. QED
        BY <1>1, <2>1, <3>2 DEF Nibble, Under
    <2>3. Spot(K, i0, Q, d + 1) /\ d + 1 > d
      <3>1. Q # {}
        BY <2>2
      <3>. QED
        BY <1>1, <2>2, <3>1, GroupUnder DEF Spot
    <2>4. y \in DOMAIN kids /\ kids[y] = m[<<Q, d + 1>>]
      <3>1. y \in 0..15 /\ Q # {}
        BY <2>2
      <3>. QED
        BY <3>1 DEF Children
    <2>. HIDE DEF kids, X, at, Q
    <2>5. X.kind = "branch" /\ X.children = kids
      BY <2>1, Kinds3, Zenon
    <2>6. Child(at, q) = <<Place(m, Q, d + 1)>>
      BY <1>1, <2>1, <2>4, <2>5 DEF Child, Place
    <2>7. Refers(K, i0, m, of, d, Q, d + 1)
      <3>. DEFINE c == [z \in 1..17 |-> IF z - 1 \in DOMAIN kids THEN Ref(encode(kids[z - 1]))
                                        ELSE EmptyString]
      <3>1. encode(X) = NodeList(c)
        BY <2>1, Encoded, Zenon
      <3>2. Len(c) = 17 /\ DOMAIN c = 1..17
        OBVIOUS
      <3>3. y + 1 \in 1..17 /\ (y + 1) - 1 = y
        BY <2>2
      <3>4. c[y + 1] = Ref(encode(m[<<Q, d + 1>>]))
        <4>. HIDE DEF y
        <4>. QED
          BY <2>4, <3>3
      <3>. HIDE DEF c
      <3>. QED
        BY <3>1, <3>2, <3>4, Zenon DEF Refers, X
    <2>. QED
      BY <2>3, <2>6, <2>7, Zenon DEF GoesOn, at
  <1>. QED
    BY <1>1, <1>2, <1>3, <1>4, BuiltKinds


\* The equation of collectProof.
MetTerm(g, root, nibbles, n) ==
    IF n = 0 THEN <<[node |-> root, depth |-> 0]>> ELSE Deeper(g[n - 1], nibbles)

MetSolved(root, nibbles, w) == \E g : g = [k \in 0..w |-> MetTerm(g, root, nibbles, k)]

\* It has a solution.
LEMMA MetExists ==
    ASSUME NEW root, NEW nibbles, NEW w \in Nat
    PROVE  MetSolved(root, nibbles, w)
  <1>. DEFINE Good == {n \in Nat : \E g : g = [k \in 0..n |-> MetTerm(g, root, nibbles, k)]}
  <1>1. 0 \in Good
    <2>. DEFINE g == [k \in 0..0 |-> <<[node |-> root, depth |-> 0]>>]
    <2>1. g = [k \in 0..0 |-> MetTerm(g, root, nibbles, k)]
      BY DEF MetTerm
    <2>. QED
      BY <2>1, Zenon
  <1>2. ASSUME NEW n \in Good PROVE n + 1 \in Good
    <2>1. PICK g : g = [k \in 0..n |-> MetTerm(g, root, nibbles, k)]
      OBVIOUS
    <2>. DEFINE h == [k \in 0..n + 1 |-> MetTerm(g, root, nibbles, k)]
    <2>2. \A k \in 0..n : h[k] = g[k]
      BY <2>1
    <2>3. ASSUME NEW k \in 0..n + 1
          PROVE  MetTerm(h, root, nibbles, k) = MetTerm(g, root, nibbles, k)
      <3>1. k # 0 => k - 1 \in 0..n
        OBVIOUS
      <3>. HIDE DEF h
      <3>. QED
        BY <2>2, <3>1 DEF MetTerm
    <2>4. h = [k \in 0..n + 1 |-> MetTerm(h, root, nibbles, k)]
      BY <2>3
    <2>5. n + 1 \in Nat
      OBVIOUS
    <2>. HIDE DEF h
    <2>. QED
      BY <2>4, <2>5, Zenon
  <1>. HIDE DEF Good
  <1>3. Good \in SUBSET Nat
    BY DEF Good
  <1>4. Good = Nat
    BY <1>1, <1>2, <1>3, AllNat
  <1>. QED
    BY <1>4 DEF Good, MetSolved

\* collectProof goes deeper once for each nibble.
LEMMA Met ==
    ASSUME NEW root, NEW q \in Seq(Nibble)
    PROVE  \E met : /\ met[0] = <<[node |-> root, depth |-> 0]>>
                    /\ \A n \in 0..Len(q) - 1 : met[n + 1] = Deeper(met[n], q)
                    /\ collectProof(root, q)
                           = [k \in DOMAIN met[Len(q)] |-> encode(met[Len(q)][k].node)]
  <1>. DEFINE sol == CHOOSE g : g = [n \in 0..Len(q) |-> MetTerm(g, root, q, n)]
              l == Len(q)
  <1>1. collectProof(root, q) = [k \in DOMAIN sol[Len(q)] |-> encode(sol[Len(q)][k].node)]
    BY Zenon DEF collectProof, MetTerm
  <1>2. l \in Nat
    OBVIOUS
  <1>3. sol = [n \in 0..l |-> MetTerm(sol, root, q, n)]
    <2>1. MetSolved(root, q, l)
      BY <1>2, MetExists
    <2>2. \E g : g = [n \in 0..l |-> MetTerm(g, root, q, n)]
      BY <2>1, Zenon DEF MetSolved
    <2>. QED
      BY <2>2, Zenon
  <1>. HIDE DEF sol, l
  <1>4. \A n \in 0..l : sol[n] = MetTerm(sol, root, q, n)
    BY <1>3, Zenon
  <1>5. sol[0] = <<[node |-> root, depth |-> 0]>>
    <2>1. 0 \in 0..l
      BY <1>2
    <2>2. sol[0] = MetTerm(sol, root, q, 0)
      BY <1>4, <2>1
    <2>. QED
      BY <2>2 DEF MetTerm
  <1>6. ASSUME NEW n \in 0..l - 1 PROVE sol[n + 1] = Deeper(sol[n], q)
    <2>1. n + 1 \in 0..l /\ n + 1 # 0 /\ (n + 1) - 1 = n
      BY <1>2
    <2>. QED
      BY <1>4, <2>1 DEF MetTerm
  <1>. QED
    BY <1>1, <1>5, <1>6 DEF l

\* The nodes met in n calls, the root first: each is on the way, the next is its
\* child, and the last is deep, if it is not the end.
MetBy(K, i0, m, n, s) ==
    /\ DOMAIN s = 1..Len(s) /\ Len(s) \in Nat /\ Len(s) >= 1 /\ Len(s) <= n + 1
    /\ s[1] = Place(m, DOMAIN K, 0)
    /\ \A k \in 1..Len(s) : \E of, d : Spot(K, i0, of, d) /\ s[k] = Place(m, of, d)
    /\ \A k \in 1..Len(s) : k < Len(s) => Child(s[k], K[i0]) = <<s[k + 1]>>
    /\ Child(s[Len(s)], K[i0]) # << >> => s[Len(s)].depth >= n

\* One node appended to a sequence.
LEMMA OneMore ==
    ASSUME NEW s, DOMAIN s = 1..Len(s), Len(s) \in Nat, NEW x
    PROVE  LET t == s \o <<x>>
           IN  /\ Len(t) = Len(s) + 1 /\ DOMAIN t = 1..Len(s) + 1
               /\ \A k \in 1..Len(s) : t[k] = s[k]
               /\ t[Len(s) + 1] = x
  OBVIOUS

\* One more call.
LEMMA MetStep ==
    ASSUME NEW K, Keys(K), NEW values, NEW m, Built(K, values, m), NEW i0,
           NEW n \in Nat, NEW s, MetBy(K, i0, m, n, s)
    PROVE  MetBy(K, i0, m, n + 1, Deeper(s, K[i0]))
  <1>. DEFINE q == K[i0]
              l == Len(s)
              t == Deeper(s, q)
  <1>1. /\ DOMAIN s = 1..l /\ l \in Nat /\ l >= 1 /\ l <= n + 1
        /\ s[1] = Place(m, DOMAIN K, 0)
        /\ \A k \in 1..l : \E of, d : Spot(K, i0, of, d) /\ s[k] = Place(m, of, d)
        /\ \A k \in 1..l : k < l => Child(s[k], q) = <<s[k + 1]>>
        /\ Child(s[l], q) # << >> => s[l].depth >= n
    BY DEF MetBy
  <1>2. t = s \o Child(s[l], q)
    BY DEF Deeper, Last
  <1>3. PICK of, d : Spot(K, i0, of, d) /\ s[l] = Place(m, of, d)
    <2>1. l \in 1..l
      BY <1>1
    <2>. QED
      BY <1>1, <2>1
  <1>4. CASE Child(s[l], q) = << >>
    <2>1. t = s
      <3>1. s \o << >> = s
        BY <1>1
      <3>. QED
        BY <1>2, <1>4, <3>1
    <2>. QED
      BY <1>1, <1>4, <2>1 DEF MetBy
  <1>5. CASE Child(s[l], q) # << >>
    <2>1. PICK Q, e : GoesOn(K, i0, m, of, d, Q, e)
      BY <1>3, <1>5, SpotKinds DEF Ends
    <2>. DEFINE x == Place(m, Q, e)
    <2>2. /\ Child(s[l], q) = <<x>> /\ Spot(K, i0, Q, e) /\ e > d
      BY <1>3, <2>1 DEF GoesOn
    <2>3. x.depth >= n + 1
      <3>1. x.depth = e /\ s[l].depth = d
        BY <1>3 DEF Place
      <3>2. e \in Nat /\ d \in Nat
        BY <1>3, <2>2 DEF Spot, Group
      <3>. QED
        BY <1>1, <1>5, <2>2, <3>1, <3>2
    <2>. HIDE DEF x, l, t, q
    <2>4. t = s \o <<x>>
      BY <1>2, <2>2
    <2>5. /\ Len(t) = l + 1 /\ DOMAIN t = 1..l + 1
          /\ \A k \in 1..l : t[k] = s[k]
          /\ t[l + 1] = x
      BY <1>1, <2>4, OneMore DEF l
    <2>6. Len(t) \in Nat /\ Len(t) >= 1 /\ Len(t) <= (n + 1) + 1 /\ t[1] = s[1]
      BY <1>1, <2>5
    <2>7. ASSUME NEW k \in 1..l + 1 PROVE \E P, i : Spot(K, i0, P, i) /\ t[k] = Place(m, P, i)
      <3>1. CASE k = l + 1
        BY <2>2, <2>5, <3>1 DEF x
      <3>2. CASE k \in 1..l
        BY <1>1, <2>5, <3>2
      <3>. QED
        BY <1>1, <3>1, <3>2
    <2>8. ASSUME NEW k \in 1..l + 1, k < l + 1 PROVE Child(t[k], q) = <<t[k + 1]>>
      <3>1. k \in 1..l /\ t[k] = s[k]
        BY <1>1, <2>5, <2>8
      <3>2. CASE k = l
        BY <2>2, <2>5, <3>1, <3>2
      <3>3. CASE k # l
        <4>1. k < l /\ k + 1 \in 1..l
          BY <1>1, <3>1, <3>3
        <4>. QED
          BY <1>1, <2>5, <3>1, <4>1
      <3>. QED
        BY <3>2, <3>3
    <2>9. t[Len(t)].depth >= n + 1
      BY <2>3, <2>5
    <2>. QED
      BY <1>1, <2>5, <2>6, <2>7, <2>8, <2>9 DEF MetBy, q, t
  <1>. QED
    BY <1>4, <1>5


\* The nodes lead all the way down: from the root, node by node, to the value.
\* S says which keys and depths they are for.
LeadDown(K, values, i0, m, nodes, S) ==
    /\ <<DOMAIN K, 0>> \in S
    /\ \A of, d : <<of, d>> \in S =>
           /\ Spot(K, i0, of, d) /\ encode(m[<<of, d>>]) \in ToSet(nodes)
           /\ \/ Ends(K, values, i0, m, of, d)
              \/ \E Q, e : <<Q, e>> \in S /\ GoesOn(K, i0, m, of, d, Q, e)

\* There are no others, and few.
AllOnTheWay(K, i0, m, nodes) ==
    /\ IsSequence(nodes) /\ Len(nodes) \in Nat /\ Len(nodes) >= 1 /\ Len(nodes) <= KeyNibbles + 1
    /\ \A X \in ToSet(nodes) : \E of, d : Spot(K, i0, of, d) /\ X = encode(m[<<of, d>>])

\* So are the nodes of the proof for i0's key.
LEMMA WayDown ==
    ASSUME NEW K, Keys(K), NEW values, NEW m, Built(K, values, m), NEW i0 \in DOMAIN K
    PROVE  LET nodes == collectProof(m[<<DOMAIN K, 0>>], K[i0])
           IN  /\ AllOnTheWay(K, i0, m, nodes)
               /\ \E S : LeadDown(K, values, i0, m, nodes, S)
  <1>. DEFINE root == m[<<DOMAIN K, 0>>]
              q == K[i0]
              l == Len(q)
              nodes == collectProof(root, q)
  <1>1. q \in Seq(Nibble) /\ l \in Nat /\ l <= KeyNibbles
    BY DEF Keys
  <1>2. PICK met : /\ met[0] = <<[node |-> root, depth |-> 0]>>
                   /\ \A n \in 0..l - 1 : met[n + 1] = Deeper(met[n], q)
                   /\ nodes = [k \in DOMAIN met[l] |-> encode(met[l][k].node)]
    <2>. HIDE DEF root
    <2>. QED
      BY <1>1, Met
  <1>3. Spot(K, i0, DOMAIN K, 0)
    <2>1. \A i, j \in DOMAIN K : Agree(K[i], K[j], 0)
      BY DEF Agree, Keys
    <2>. QED
      BY <2>1 DEF Spot, Group, Together
  <1>. DEFINE Good == {n \in Nat : n <= l => MetBy(K, i0, m, n, met[n])}
  <1>4. 0 \in Good
    <2>1. met[0] = <<Place(m, DOMAIN K, 0)>>
      BY <1>2 DEF Place
    <2>. DEFINE s == <<Place(m, DOMAIN K, 0)>>
    <2>2. /\ Len(s) = 1 /\ DOMAIN s = 1..1 /\ s[1] = Place(m, DOMAIN K, 0)
          /\ Place(m, DOMAIN K, 0).depth = 0
      BY DEF Place
    <2>. HIDE DEF s
    <2>3. MetBy(K, i0, m, 0, s)
      BY <1>3, <2>2 DEF MetBy
    <2>. QED
      BY <2>1, <2>3 DEF s
  <1>5. ASSUME NEW n \in Good PROVE n + 1 \in Good
    <2>. SUFFICES ASSUME n + 1 <= l PROVE MetBy(K, i0, m, n + 1, met[n + 1])
      OBVIOUS
    <2>1. n \in Nat /\ n \in 0..l - 1 /\ MetBy(K, i0, m, n, met[n])
      BY <1>1
    <2>2. met[n + 1] = Deeper(met[n], q)
      BY <1>2, <2>1
    <2>3. MetBy(K, i0, m, n + 1, Deeper(met[n], q))
      BY <2>1, MetStep
    <2>. QED
      BY <2>2, <2>3
  <1>6. MetBy(K, i0, m, l, met[l])
    <2>1. Good \in SUBSET Nat
      OBVIOUS
    <2>. HIDE DEF Good
    <2>2. l \in Good
      BY <1>1, <1>4, <1>5, <2>1, AllNat
    <2>. QED
      BY <1>1, <2>2 DEF Good
  <1>. DEFINE s == met[l]
              S == {at \in (SUBSET DOMAIN K) \X Nat :
                       Spot(K, i0, at[1], at[2]) /\ Place(m, at[1], at[2]) \in ToSet(s)}
  <1>7. /\ DOMAIN s = 1..Len(s) /\ Len(s) \in Nat /\ Len(s) >= 1 /\ Len(s) <= l + 1
        /\ s[1] = Place(m, DOMAIN K, 0)
        /\ \A k \in 1..Len(s) : \E of, d : Spot(K, i0, of, d) /\ s[k] = Place(m, of, d)
        /\ \A k \in 1..Len(s) : k < Len(s) => Child(s[k], q) = <<s[k + 1]>>
        /\ Child(s[Len(s)], q) # << >> => s[Len(s)].depth >= l
    BY <1>6 DEF MetBy
  <1>8. nodes = [k \in 1..Len(s) |-> encode(s[k].node)]
    BY <1>2, <1>7
  <1>9. \A of, d : <<of, d>> \in S <=> Spot(K, i0, of, d) /\ Place(m, of, d) \in ToSet(s)
    <2>1. \A of, d : Spot(K, i0, of, d) => of \in SUBSET DOMAIN K /\ d \in Nat
      BY DEF Spot, Group
    <2>. HIDE DEF s
    <2>. QED
      BY <2>1
  <1>. HIDE DEF s, S, nodes, root
  <1>10. /\ nodes \in Seq(ToSet(nodes)) /\ Len(nodes) = Len(s)
         /\ ToSet(nodes) = {encode(s[k].node) : k \in 1..Len(s)}
    <2>1. ToSet(nodes) = {encode(s[k].node) : k \in 1..Len(s)}
      BY <1>8 DEF ToSet
    <2>2. nodes \in [1..Len(s) -> ToSet(nodes)]
      BY <1>8, <2>1
    <2>. QED
      BY <1>7, <2>1, <2>2
  <1>11. \A of, d : Place(m, of, d).node = m[<<of, d>>] /\ Place(m, of, d).depth = d
    BY DEF Place
  <1>12. AllOnTheWay(K, i0, m, nodes)
    <2>1. ASSUME NEW X \in ToSet(nodes)
          PROVE  \E of, d : Spot(K, i0, of, d) /\ X = encode(m[<<of, d>>])
      <3>1. PICK k \in 1..Len(s) : X = encode(s[k].node)
        BY <1>10
      <3>2. PICK of, d : Spot(K, i0, of, d) /\ s[k] = Place(m, of, d)
        BY <1>7
      <3>. QED
        BY <1>11, <3>1, <3>2
    <2>2. Len(nodes) \in Nat /\ Len(nodes) >= 1 /\ Len(nodes) <= KeyNibbles + 1
      BY <1>1, <1>7, <1>10 DEF KeyNibbles
    <2>. QED
      BY <1>10, <2>1, <2>2 DEF AllOnTheWay, IsSequence
  <1>13. \A k \in 1..Len(s) : s[k] \in ToSet(s)
    BY <1>7 DEF ToSet
  <1>14. <<DOMAIN K, 0>> \in S
    <2>1. 1 \in 1..Len(s)
      BY <1>7
    <2>2. Place(m, DOMAIN K, 0) \in ToSet(s)
      BY <1>7, <1>13, <2>1
    <2>. QED
      BY <1>3, <1>9, <2>2
  <1>15. ASSUME NEW of, NEW d, <<of, d>> \in S
         PROVE  /\ Spot(K, i0, of, d) /\ encode(m[<<of, d>>]) \in ToSet(nodes)
                /\ \/ Ends(K, values, i0, m, of, d)
                   \/ \E Q, e : <<Q, e>> \in S /\ GoesOn(K, i0, m, of, d, Q, e)
    <2>1. Spot(K, i0, of, d) /\ Place(m, of, d) \in ToSet(s)
      BY <1>9, <1>15
    <2>2. PICK k \in 1..Len(s) : s[k] = Place(m, of, d)
      BY <1>7, <2>1 DEF ToSet
    <2>3. encode(m[<<of, d>>]) \in ToSet(nodes)
      BY <1>10, <1>11, <2>2
    <2>4. ASSUME NEW Q, NEW e, GoesOn(K, i0, m, of, d, Q, e)
          PROVE  <<Q, e>> \in S
      <3>1. Spot(K, i0, Q, e) /\ e > d /\ Child(s[k], q) = <<Place(m, Q, e)>>
        BY <2>2, <2>4 DEF GoesOn
      <3>2. k < Len(s)
        <4>. DEFINE w == Len(s)
        <4>1. w \in Nat /\ k \in 1..w
          BY <1>7
        <4>. HIDE DEF w
        <4>2. k # w => k < w
          BY <4>1
        <4>. SUFFICES ASSUME k = Len(s) PROVE FALSE
          BY <4>2 DEF w
        <4>3. d >= l
          BY <1>7, <1>11, <2>2, <3>1
        <4>4. e \in Nat /\ d \in Nat /\ e <= l
          BY <2>1, <3>1, SpotDepth
        <4>. QED
          BY <1>1, <3>1, <4>3, <4>4
      <3>3. <<Place(m, Q, e)>> = <<s[k + 1]>>
        BY <1>7, <3>1, <3>2
      <3>4. Place(m, Q, e) = s[k + 1]
        BY <3>3
      <3>5. k + 1 \in 1..Len(s)
        BY <1>7, <3>2
      <3>. QED
        BY <1>9, <1>13, <3>1, <3>4, <3>5
    <2>. QED
      BY <2>1, <2>3, <2>4, SpotKinds
  <1>16. LeadDown(K, values, i0, m, nodes, S)
    BY <1>14, <1>15, Zenon DEF LeadDown
  <1>. QED
    BY <1>12, <1>16 DEF nodes, root


(***************************************************************************)
(* Sizes.                                                                  *)
(***************************************************************************)
\* How many bytes announce a length.
LEMMA LengthBytes == ASSUME NEW n \in Nat PROVE Len(encodeLength(n, 0)) \in Nat
  <1>1. bigEndianUint64(n) \in Seq(Byte)
    BY BytesType
  <1>2. bigEndianUint64(n) \in Seq(Nat)
    <2>1. Byte \subseteq Nat
      BY DEF Byte
    <2>. QED
      BY <1>1, <2>1, SeqMonotonic
  <1>. DEFINE b == bigEndianUint64(n)
              a == 0 + ShortMax + Len(b)
  <1>3. a \in Nat /\ <<a>> \in Seq(Nat)
    BY <1>2 DEF ShortMax
  <1>4. encodeLength(n, 0) = IF n <= ShortMax THEN <<0 + n>> ELSE <<a>> \o b
    BY DEF encodeLength
  <1>. HIDE DEF a, b
  <1>5. <<a>> \o b \in Seq(Nat)
    BY <1>2, <1>3, ConcatProperties DEF b
  <1>. QED
    BY <1>4, <1>5

\* An item is at least as long as what it holds.
LEMMA SizeOf ==
    ASSUME NEW item, item.size \in Nat, item.path = << >>
    PROVE  EncodedSize(item) \in Nat /\ EncodedSize(item) >= item.size
  <1>. DEFINE n == Len(encodeLength(item.size, 0))
  <1>1. n \in Nat
    BY LengthBytes
  <1>2. EncodedSize(item) = n + item.size
    BY DEF EncodedSize
  <1>. HIDE DEF n
  <1>. QED
    BY <1>1, <1>2

\* The sizes of a path, of a value and of an empty string.
LEMMA SizesOfStrings ==
    /\ \A x \in Seq(Nat) : /\ PathString(x).size = Len(x) /\ PathString(x).isList = FALSE
                           /\ PathString(x).children = << >>
                           /\ EncodedSize(PathString(x)) \in Nat
    /\ \A v : v.size \in Nat => /\ EncodedSize(ValueString(v)) \in Nat
                                /\ EncodedSize(ValueString(v)) >= v.size
    /\ \A v : ValueString(v).children = << >>
    /\ \A X : HashString(X).children = << >>
    /\ EmptyString.children = << >>
    /\ \A c : NodeList(c).path = << >>
  <1>1. ASSUME NEW x \in Seq(Nat)
        PROVE  /\ PathString(x).size = Len(x) /\ PathString(x).isList = FALSE
               /\ PathString(x).children = << >>
               /\ EncodedSize(PathString(x)) \in Nat
    <2>1. PathString(x).size = Len(x) /\ PathString(x).isList = FALSE
          /\ PathString(x).children = << >>
      BY DEF PathString, EmptyString
    <2>2. Len(x) \in Nat /\ Len(encodeLength(Len(x), 0)) \in Nat
      BY LengthBytes
    <2>3. EncodedSize(PathString(x)) \in {1, Len(encodeLength(Len(x), 0)) + Len(x)}
      BY <2>1 DEF EncodedSize
    <2>. QED
      BY <2>1, <2>2, <2>3
  <1>2. ASSUME NEW v, v.size \in Nat
        PROVE  EncodedSize(ValueString(v)) \in Nat /\ EncodedSize(ValueString(v)) >= v.size
    <2>1. ValueString(v).size = v.size /\ ValueString(v).path = << >>
      BY DEF ValueString, EmptyString
    <2>. QED
      BY <1>2, <2>1, SizeOf
  <1>3. /\ \A v : ValueString(v).children = << >>
        /\ \A X : HashString(X).children = << >>
        /\ EmptyString.children = << >>
        /\ \A c : NodeList(c).path = << >>
    BY DEF ValueString, HashString, EmptyString, NodeList
  <1>. QED
    BY <1>1, <1>2, <1>3

\* A node of two items is at least as long as the second.
LEMMA SizeOfTwo ==
    ASSUME NEW a, NEW b, EncodedSize(a) \in Nat, EncodedSize(b) \in Nat
    PROVE  LET X == NodeList(<<a, b>>)
           IN  EncodedSize(X) \in Nat /\ EncodedSize(X) >= EncodedSize(b)
  <1>. DEFINE c == <<a, b>>
              X == NodeList(c)
              A == EncodedSize(a)
              B == EncodedSize(b)
              term(g, n) == IF n = 0 THEN 0 ELSE g[n - 1] + EncodedSize(c[n])
              sol == CHOOSE g : g = [n \in 0..Len(c) |-> term(g, n)]
  <1>1. X.size = sol[Len(c)] /\ Len(c) = 2 /\ EncodedSize(c[1]) = A /\ EncodedSize(c[2]) = B
    BY DEF NodeList, EmptyString
  <1>. HIDE DEF c, A, B
  <1>2. \E g : g = [n \in 0..Len(c) |-> term(g, n)]
    <2>. DEFINE h == [n \in 0..2 |-> IF n = 0 THEN 0 ELSE IF n = 1 THEN 0 + A ELSE (0 + A) + B]
    <2>1. \A n \in 0..2 : h[n] = term(h, n)
      <3>1. h[0] = 0 /\ h[1] = 0 + A /\ h[2] = (0 + A) + B
        OBVIOUS
      <3>2. term(h, 0) = 0 /\ term(h, 1) = h[0] + EncodedSize(c[1])
            /\ term(h, 2) = h[1] + EncodedSize(c[2])
        <4>. HIDE DEF h
        <4>. QED
          OBVIOUS
      <3>3. \A n \in 0..2 : n = 0 \/ n = 1 \/ n = 2
        OBVIOUS
      <3>. HIDE DEF h, term
      <3>. QED
        BY <1>1, <3>1, <3>2, <3>3
    <2>2. h = [n \in 0..2 |-> h[n]]
      OBVIOUS
    <2>. HIDE DEF h
    <2>3. h = [n \in 0..2 |-> term(h, n)]
      <3>. HIDE DEF term
      <3>. QED
        BY <2>1, <2>2, Zenon
    <2>. QED
      BY <1>1, <2>3, Zenon
  <1>3. sol = [n \in 0..Len(c) |-> term(sol, n)]
    BY <1>2, Zenon
  <1>. HIDE DEF sol
  <1>4. sol[0] = 0 /\ sol[1] = sol[0] + A /\ sol[2] = sol[1] + B
    <2>1. \A n \in 0..2 : sol[n] = term(sol, n)
      BY <1>1, <1>3, Zenon
    <2>2. 0 \in 0..2 /\ 1 \in 0..2 /\ 2 \in 0..2
      OBVIOUS
    <2>. QED
      BY <1>1, <2>1, <2>2
  <1>5. X.size = A + B /\ A \in Nat /\ B \in Nat
    BY <1>1, <1>4 DEF A, B
  <1>6. X.path = << >>
    BY SizesOfStrings
  <1>. HIDE DEF X
  <1>7. EncodedSize(X) \in Nat /\ EncodedSize(X) >= X.size
    BY <1>5, <1>6, SizeOf
  <1>. QED
    BY <1>5, <1>7 DEF X, B, c

\* A path on the way to a key is short, once it is written.
LEMMA PathSize ==
    ASSUME NEW x \in Seq(Nibble), Len(x) <= KeyNibbles, NEW terminated \in BOOLEAN
    PROVE  LET p == PathString(HexPrefix(x, terminated))
           IN  /\ p.isList = FALSE /\ p.children = << >> /\ p.size \in Nat
               /\ p.size <= MaxItemSize /\ EncodedSize(p) \in Nat
  <1>. DEFINE h == HexPrefix(x, terminated)
              t == IF terminated THEN 2 ELSE 0
              l == Len(x)
  <1>1. l \in Nat /\ l <= 18 /\ \A k \in 1..l : x[k] \in Nat
    BY DEF Nibble, KeyNibbles
  <1>2. h \in Seq(Nat) /\ Len(h) <= 19
    <2>1. CASE l % 2 = 0
      <3>1. h = [k \in 1..l \div 2 + 1 |->
                    IF k = 1 THEN 16 * t ELSE 16 * x[2 * k - 3] + x[2 * k - 2]]
        BY <2>1 DEF HexPrefix
      <3>2. \A k \in 1..l \div 2 + 1 : k # 1 => 2 * k - 3 \in 1..l /\ 2 * k - 2 \in 1..l
        BY <1>1, <2>1
      <3>3. \A k \in 1..l \div 2 + 1 :
                (IF k = 1 THEN 16 * t ELSE 16 * x[2 * k - 3] + x[2 * k - 2]) \in Nat
        <4>. HIDE DEF l, t
        <4>1. ASSUME NEW k \in 1..l \div 2 + 1, k # 1
              PROVE  16 * x[2 * k - 3] + x[2 * k - 2] \in Nat
          <5>1. x[2 * k - 3] \in Nat /\ x[2 * k - 2] \in Nat
            BY <1>1, <3>2, <4>1
          <5>. QED
            BY <5>1
        <4>2. 16 * t \in Nat
          BY DEF t
        <4>. QED
          BY <4>1, <4>2
      <3>4. l \div 2 + 1 \in Nat /\ l \div 2 + 1 <= 19
        BY <1>1
      <3>. HIDE DEF l, t, h
      <3>5. h \in [1..l \div 2 + 1 -> Nat]
        BY <3>1, <3>3, Zenon
      <3>. QED
        BY <3>4, <3>5
    <2>2. CASE l % 2 # 0
      <3>1. h = [k \in 1..(l + 1) \div 2 |->
                    IF k = 1 THEN 16 * (t + 1) + x[1] ELSE 16 * x[2 * k - 2] + x[2 * k - 1]]
        BY <2>2 DEF HexPrefix
      <3>2. 1 \in 1..l /\ \A k \in 1..(l + 1) \div 2 : 
                k # 1 => 2 * k - 2 \in 1..l /\ 2 * k - 1 \in 1..l
        BY <1>1, <2>2
      <3>3. \A k \in 1..(l + 1) \div 2 :
                (IF k = 1 THEN 16 * (t + 1) + x[1] ELSE 16 * x[2 * k - 2] + x[2 * k - 1]) \in Nat
        <4>. HIDE DEF l, t
        <4>1. ASSUME NEW k \in 1..(l + 1) \div 2, k # 1
              PROVE  16 * x[2 * k - 2] + x[2 * k - 1] \in Nat
          <5>1. x[2 * k - 2] \in Nat /\ x[2 * k - 1] \in Nat
            BY <1>1, <3>2, <4>1
          <5>. QED
            BY <5>1
        <4>2. 16 * (t + 1) + x[1] \in Nat
          <5>1. x[1] \in Nat /\ t + 1 \in Nat
            BY <1>1, <3>2 DEF t
          <5>. QED
            BY <5>1
        <4>. QED
          BY <4>1, <4>2
      <3>4. (l + 1) \div 2 \in Nat /\ (l + 1) \div 2 <= 19
        BY <1>1
      <3>. HIDE DEF l, t, h
      <3>5. h \in [1..(l + 1) \div 2 -> Nat]
        BY <3>1, <3>3, Zenon
      <3>. QED
        BY <3>4, <3>5
    <2>. QED
      BY <2>1, <2>2
  <1>. HIDE DEF h
  <1>3. MaxItemSize \in Nat /\ MaxItemSize >= 19
    BY RelayAssumption, RlpAssumption, MptAssumption DEF KeyNibbles
  <1>4. Len(h) \in Nat /\ Len(h) <= MaxItemSize
    BY <1>2, <1>3
  <1>. QED
    BY <1>2, <1>4, SizesOfStrings DEF h


(***************************************************************************)
(* The nodes decode, as items and as nodes.                                *)
(***************************************************************************)
\* Nodes of the trie, at a depth or below it; strings; what refers to a node.
Tree(K, m, d, Y) == \E Q, e : Group(K, Q, e) /\ e >= d /\ Y = encode(m[<<Q, e>>])
Bare(Y) == Y.isList = FALSE /\ Y.children = << >>
Referring(K, m, d, Y) ==
    \/ Tree(K, m, d, Y) /\ EncodedSize(Y) < HashSize
    \/ Bare(Y) /\ (Y.size = 0 \/ Y.size = HashSize)

\* The items of a leaf, an extension and a branch.
LeafParts(K, values, of, X) ==
    \E i : \E x \in Seq(Nibble) :
        /\ of = {i} /\ i \in DOMAIN K /\ Len(x) <= KeyNibbles
        /\ X = NodeList(<<PathString(HexPrefix(x, TRUE)), ValueString(values[i])>>)
ExtensionParts(K, m, d, X) ==
    \E b : \E x \in Seq(Nibble) :
        /\ Len(x) <= KeyNibbles /\ Referring(K, m, d + 1, b)
        /\ X = NodeList(<<PathString(HexPrefix(x, FALSE)), b>>)
BranchParts(K, m, d, X) ==
    \E c : /\ X = NodeList(c) /\ Len(c) = 17 /\ DOMAIN c = 1..17
           /\ \A y \in 1..17 : Referring(K, m, d + 1, c[y])

\* A node refers to another by embedding it, if it is short.
LEMMA RefIs ==
    ASSUME NEW K, NEW m, NEW d, NEW Q, NEW e, Group(K, Q, e), e >= d
    PROVE  Referring(K, m, d, Ref(encode(m[<<Q, e>>])))
  <1>. DEFINE Y == encode(m[<<Q, e>>])
  <1>1. Tree(K, m, d, Y)
    BY DEF Tree
  <1>. HIDE DEF Y
  <1>2. CASE EncodedSize(Y) < HashSize
    BY <1>1, <1>2, Zenon DEF Ref, Referring, Y
  <1>3. CASE ~(EncodedSize(Y) < HashSize)
    <2>1. Ref(Y) = HashString(Y)
      BY <1>3, Zenon DEF Ref
    <2>2. Bare(HashString(Y)) /\ HashString(Y).size = HashSize
      BY Items, SizesOfStrings, Zenon DEF Bare
    <2>. QED
      BY <2>1, <2>2, Zenon DEF Referring, Y
  <1>. QED
    BY <1>2, <1>3

\* What the nodes of the trie consist of.
LEMMA GroupParts ==
    ASSUME NEW K, Keys(K), NEW values, NEW m, Built(K, values, m), NEW of, NEW d, Group(K, of, d)
    PROVE  LET X == encode(m[<<of, d>>])
           IN  \/ LeafParts(K, values, of, X)
               \/ /\ \E i, j \in of : i # j
                  /\ ExtensionParts(K, m, d, X) \/ BranchParts(K, m, d, X)
  <1>. DEFINE N == m[<<of, d>>]
              X == encode(N)
  <1>1. /\ of \subseteq DOMAIN K /\ of # {} /\ d \in Nat
        /\ \A i \in of : K[i] \in Seq(Nibble) /\ Len(K[i]) \in Nat /\ Len(K[i]) <= KeyNibbles
    BY DEF Group, Keys
  <1>2. CASE ALeaf(K, values, of, d, N)
    <2>1. PICK i : of = {i} /\ N = Leaf(SubSeq(K[i], d + 1, Len(K[i])), values[i])
      BY <1>2 DEF ALeaf
    <2>. DEFINE x == SubSeq(K[i], d + 1, Len(K[i]))
    <2>2. i \in DOMAIN K /\ x \in Seq(Nibble) /\ Len(x) <= KeyNibbles
      BY <1>1, <2>1 DEF KeyNibbles
    <2>. HIDE DEF N, x
    <2>3. X = NodeList(<<PathString(nibblesToCompact(x, TRUE)), ValueString(values[i])>>)
      BY <2>1, Encoded, Zenon DEF x
    <2>4. nibblesToCompact(x, TRUE) = HexPrefix(x, TRUE)
      BY <2>2, CompactPath
    <2>. HIDE DEF X
    <2>5. X = NodeList(<<PathString(HexPrefix(x, TRUE)), ValueString(values[i])>>)
      BY <2>3, <2>4, Zenon
    <2>6. LeafParts(K, values, of, X)
      BY <2>1, <2>2, <2>5, Zenon DEF LeafParts
    <2>. QED
      BY <2>6 DEF X, N
  <1>3. CASE AnExtension(K, m, of, d, N)
    <2>1. PICK e \in Nat :
              /\ e > d /\ Together(K, of, e)
              /\ \A i \in of : N = Extension(SubSeq(K[i], d + 1, e), m[<<of, e>>])
      BY <1>3 DEF AnExtension
    <2>2. PICK i \in of : TRUE
      BY <1>1
    <2>. DEFINE x == SubSeq(K[i], d + 1, e)
                b == Ref(encode(m[<<of, e>>]))
    <2>3. x \in Seq(Nibble) /\ Len(x) <= KeyNibbles
      <3>1. Len(K[i]) >= e
        BY <2>1, <2>2 DEF Together, Agree
      <3>. QED
        BY <1>1, <2>1, <3>1 DEF KeyNibbles
    <2>4. Referring(K, m, d + 1, b)
      <3>1. Group(K, of, e) /\ e >= d + 1
        BY <1>1, <2>1 DEF Group
      <3>. QED
        BY <3>1, RefIs
    <2>. HIDE DEF N, x, b
    <2>5. X = NodeList(<<PathString(nibblesToCompact(x, FALSE)), b>>)
      BY <2>1, <2>2, Encoded, Zenon DEF x, b
    <2>6. nibblesToCompact(x, FALSE) = HexPrefix(x, FALSE)
      BY <2>3, CompactPath
    <2>. HIDE DEF X
    <2>7. X = NodeList(<<PathString(HexPrefix(x, FALSE)), b>>)
      BY <2>5, <2>6, Zenon
    <2>8. ExtensionParts(K, m, d, X)
      BY <2>3, <2>4, <2>7, Zenon DEF ExtensionParts
    <2>9. \E k, j \in of : k # j
      BY <1>3 DEF AnExtension, Parted
    <2>. QED
      BY <2>8, <2>9 DEF X, N
  <1>4. CASE ABranch(K, m, of, d, N)
    <2>. DEFINE kids == Children(K, m, of, d)
                U(n) == Under(K, of, d, n)
                c == [y \in 1..17 |-> IF y - 1 \in DOMAIN kids THEN Ref(encode(kids[y - 1]))
                                      ELSE EmptyString]
    <2>1. N = Branch(kids, {})
      BY <1>4 DEF ABranch
    <2>2. \A n \in DOMAIN kids : U(n) # {} /\ kids[n] = m[<<U(n), d + 1>>]
      BY DEF Children
    <2>. HIDE DEF kids, N, U
    <2>3. X = NodeList(c)
      BY <2>1, Encoded, Zenon
    <2>4. Len(c) = 17 /\ DOMAIN c = 1..17
      OBVIOUS
    <2>5. ASSUME NEW y \in 1..17 PROVE Referring(K, m, d + 1, c[y])
      <3>1. CASE y - 1 \in DOMAIN kids
        <4>1. c[y] = Ref(encode(m[<<U(y - 1), d + 1>>]))
          BY <2>2, <3>1
        <4>2. Group(K, U(y - 1), d + 1) /\ d + 1 >= d + 1
          <5>1. Under(K, of, d, y - 1) # {}
            BY <2>2, <3>1 DEF U
          <5>2. Group(K, Under(K, of, d, y - 1), d + 1)
            BY <5>1, GroupUnder
          <5>. QED
            BY <1>1, <5>2 DEF U
        <4>3. Referring(K, m, d + 1, Ref(encode(m[<<U(y - 1), d + 1>>])))
          BY <4>2, RefIs
        <4>. HIDE DEF c
        <4>. QED
          BY <4>1, <4>3, Zenon
      <3>2. CASE y - 1 \notin DOMAIN kids
        <4>1. c[y] = EmptyString
          BY <3>2
        <4>2. Bare(EmptyString) /\ EmptyString.size = 0
          BY Items, SizesOfStrings, Zenon DEF Bare
        <4>. HIDE DEF c
        <4>. QED
          BY <4>1, <4>2, Zenon DEF Referring
      <3>. QED
        BY <3>1, <3>2
    <2>. HIDE DEF c, X
    <2>6. BranchParts(K, m, d, X)
      BY <2>3, <2>4, <2>5, Zenon DEF BranchParts
    <2>7. \E i, j \in of : i # j
      BY <1>4 DEF ABranch, Parted
    <2>. QED
      BY <2>6, <2>7 DEF X, N
  <1>. QED
    BY <1>2, <1>3, <1>4, BuiltKinds DEF Group


\* The value of a leaf can be read.
ShortValue(values, of) == \A i : of = {i} => values[i].size <= MaxItemSize

\* An item of a node, n levels deep or more.
Fine(K, values, m, n, Y) ==
    \/ Bare(Y) /\ Y.size <= MaxItemSize
    \/ \E Q, e : Group(K, Q, e) /\ e >= n /\ Y = encode(m[<<Q, e>>]) /\ ShortValue(values, Q)

\* What is embedded is shorter than a hash, and so is its value.
LEMMA EmbeddedIsShort ==
    ASSUME NEW K, Keys(K), NEW values, \A i \in DOMAIN K : values[i].size \in Nat,
           NEW m, Built(K, values, m), NEW of, NEW d, Group(K, of, d),
           EncodedSize(encode(m[<<of, d>>])) < HashSize
    PROVE  ShortValue(values, of)
  <1>. DEFINE X == encode(m[<<of, d>>])
  <1>. SUFFICES ASSUME NEW i, of = {i} PROVE values[i].size <= MaxItemSize
    BY DEF ShortValue
  <1>1. LeafParts(K, values, of, X)
    BY GroupParts
  <1>0. PICK k : \E y \in Seq(Nibble) :
            /\ of = {k} /\ k \in DOMAIN K /\ Len(y) <= KeyNibbles
            /\ X = NodeList(<<PathString(HexPrefix(y, TRUE)), ValueString(values[k])>>)
    BY <1>1 DEF LeafParts
  <1>2. PICK x \in Seq(Nibble) :
            /\ of = {k} /\ k \in DOMAIN K /\ Len(x) <= KeyNibbles
            /\ X = NodeList(<<PathString(HexPrefix(x, TRUE)), ValueString(values[k])>>)
    BY <1>0
  <1>. DEFINE p == PathString(HexPrefix(x, TRUE))
              v == ValueString(values[i])
  <1>3. k = i /\ X = NodeList(<<p, v>>)
    BY <1>2
  <1>4. values[i].size \in Nat
    BY <1>2, <1>3
  <1>5. EncodedSize(p) \in Nat /\ EncodedSize(v) \in Nat /\ EncodedSize(v) >= values[i].size
    BY <1>2, <1>4, PathSize, SizesOfStrings
  <1>. HIDE DEF p, v
  <1>6. EncodedSize(X) \in Nat /\ EncodedSize(X) >= EncodedSize(v) /\ EncodedSize(X) < HashSize
    <2>1. EncodedSize(NodeList(<<p, v>>)) \in Nat
          /\ EncodedSize(NodeList(<<p, v>>)) >= EncodedSize(v)
      BY <1>5, SizeOfTwo
    <2>. QED
      BY <1>3, <2>1
  <1>. HIDE DEF X
  <1>7. HashSize \in Nat /\ MaxItemSize \in Nat /\ HashSize <= MaxItemSize
    BY RelayAssumption, RlpAssumption, MptAssumption
  <1>. QED
    BY <1>4, <1>5, <1>6, <1>7

\* What refers to a node is fine.
LEMMA ReferringIsFine ==
    ASSUME NEW K, Keys(K), NEW values, \A i \in DOMAIN K : values[i].size \in Nat,
           NEW m, Built(K, values, m), NEW n, NEW Y, Referring(K, m, n, Y)
    PROVE  Fine(K, values, m, n, Y)
  <1>1. CASE Tree(K, m, n, Y) /\ EncodedSize(Y) < HashSize
    <2>1. PICK Q, e : Group(K, Q, e) /\ e >= n /\ Y = encode(m[<<Q, e>>])
      BY <1>1 DEF Tree
    <2>2. ShortValue(values, Q)
      BY <1>1, <2>1, EmbeddedIsShort
    <2>. QED
      BY <2>1, <2>2 DEF Fine
  <1>2. CASE Bare(Y) /\ (Y.size = 0 \/ Y.size = HashSize)
    <2>1. HashSize <= MaxItemSize /\ 0 <= MaxItemSize
      BY RelayAssumption, RlpAssumption
    <2>. QED
      BY <1>2, <2>1 DEF Fine
  <1>. QED
    BY <1>1, <1>2 DEF Referring

\* The items of two.
LEMMA TwoItems ==
    ASSUME NEW a, NEW b, NEW Z \in ToSet(NodeList(<<a, b>>).children)
    PROVE  Z = a \/ Z = b
  <1>1. NodeList(<<a, b>>).children = <<a, b>>
    BY Items, Zenon
  <1>2. ToSet(<<a, b>>) = {a, b}
    BY DEF ToSet
  <1>. QED
    BY <1>1, <1>2

\* The items of a node are fine if its value is short.
LEMMA FineItems ==
    ASSUME NEW K, Keys(K), NEW values, \A i \in DOMAIN K : values[i].size \in Nat,
           NEW m, Built(K, values, m), NEW of, NEW d, Group(K, of, d), ShortValue(values, of),
           NEW n \in Nat, n <= d
    PROVE  LET X == encode(m[<<of, d>>])
           IN  X.isList /\ \A Z \in ToSet(X.children) : Fine(K, values, m, n + 1, Z)
  <1>. DEFINE X == encode(m[<<of, d>>])
  <1>0. d \in Nat
    BY DEF Group
  <1>1. ASSUME NEW Z, Referring(K, m, d + 1, Z) PROVE Fine(K, values, m, n + 1, Z)
    <2>1. Fine(K, values, m, d + 1, Z)
      BY <1>1, ReferringIsFine
    <2>2. \A e \in Nat : e >= d + 1 => e >= n + 1
      BY <1>0
    <2>3. \A Q, e : Group(K, Q, e) => e \in Nat
      BY DEF Group
    <2>. QED
      BY <2>1, <2>2, <2>3 DEF Fine
  <1>2. ASSUME NEW x \in Seq(Nibble), Len(x) <= KeyNibbles, NEW terminated \in BOOLEAN
        PROVE  Fine(K, values, m, n + 1, PathString(HexPrefix(x, terminated)))
    BY <1>2, PathSize DEF Fine, Bare
  <1>3. CASE LeafParts(K, values, of, X)
    <2>0. PICK k : \E y \in Seq(Nibble) :
              /\ of = {k} /\ k \in DOMAIN K /\ Len(y) <= KeyNibbles
              /\ X = NodeList(<<PathString(HexPrefix(y, TRUE)), ValueString(values[k])>>)
      BY <1>3 DEF LeafParts
    <2>1. PICK x \in Seq(Nibble) :
              /\ of = {k} /\ k \in DOMAIN K /\ Len(x) <= KeyNibbles
              /\ X = NodeList(<<PathString(HexPrefix(x, TRUE)), ValueString(values[k])>>)
      BY <2>0
    <2>2. Fine(K, values, m, n + 1, ValueString(values[k]))
      <3>1. values[k].size <= MaxItemSize
        BY <2>1 DEF ShortValue
      <3>2. Bare(ValueString(values[k])) /\ ValueString(values[k]).size = values[k].size
        BY Items, SizesOfStrings DEF Bare
      <3>. QED
        BY <3>1, <3>2 DEF Fine
    <2>3. Fine(K, values, m, n + 1, PathString(HexPrefix(x, TRUE)))
      BY <1>2, <2>1
    <2>4. X.isList
      BY <2>1, Items
    <2>. HIDE DEF X
    <2>5. \A Z \in ToSet(X.children) : Fine(K, values, m, n + 1, Z)
      BY <2>1, <2>2, <2>3, TwoItems
    <2>. QED
      BY <2>4, <2>5 DEF X
  <1>4. CASE ExtensionParts(K, m, d, X)
    <2>0. PICK b : \E y \in Seq(Nibble) :
              /\ Len(y) <= KeyNibbles /\ Referring(K, m, d + 1, b)
              /\ X = NodeList(<<PathString(HexPrefix(y, FALSE)), b>>)
      BY <1>4 DEF ExtensionParts
    <2>1. PICK x \in Seq(Nibble) :
              /\ Len(x) <= KeyNibbles /\ Referring(K, m, d + 1, b)
              /\ X = NodeList(<<PathString(HexPrefix(x, FALSE)), b>>)
      BY <2>0
    <2>2. Fine(K, values, m, n + 1, b)
      BY <1>1, <2>1
    <2>3. Fine(K, values, m, n + 1, PathString(HexPrefix(x, FALSE)))
      BY <1>2, <2>1
    <2>4. X.isList
      BY <2>1, Items
    <2>. HIDE DEF X
    <2>5. \A Z \in ToSet(X.children) : Fine(K, values, m, n + 1, Z)
      BY <2>1, <2>2, <2>3, TwoItems
    <2>. QED
      BY <2>4, <2>5 DEF X
  <1>5. CASE BranchParts(K, m, d, X)
    <2>1. PICK c : /\ X = NodeList(c) /\ Len(c) = 17 /\ DOMAIN c = 1..17
                   /\ \A y \in 1..17 : Referring(K, m, d + 1, c[y])
      BY <1>5 DEF BranchParts
    <2>2. X.isList /\ X.children = c
      BY <2>1, Items
    <2>. HIDE DEF X
    <2>3. \A Z \in ToSet(X.children) : Fine(K, values, m, n + 1, Z)
      BY <1>1, <2>1, <2>2 DEF ToSet
    <2>. QED
      BY <2>2, <2>3 DEF X
  <1>. QED
    BY <1>3, <1>4, <1>5, GroupParts


\* Depths are within the keys.
LEMMA GroupDepth ==
    ASSUME NEW K, Keys(K), NEW of, NEW d, Group(K, of, d)
    PROVE  d \in Nat /\ d <= KeyNibbles
  <1>1. PICK i \in of : i \in DOMAIN K
    BY DEF Group
  <1>2. K[i] \in Seq(Nibble) /\ Len(K[i]) <= KeyNibbles /\ Len(K[i]) >= d
    BY <1>1 DEF Keys, Group, Together, Agree
  <1>3. d \in Nat /\ Len(K[i]) \in Nat /\ KeyNibbles \in Nat
    BY <1>2 DEF Group, KeyNibbles
  <1>. QED
    BY <1>2, <1>3

\* The items of a fine item, and that there are none far down.
LEMMA FineStep ==
    ASSUME NEW K, Keys(K), NEW values, \A i \in DOMAIN K : values[i].size \in Nat,
           NEW m, Built(K, values, m), NEW n \in Nat, NEW Y, Fine(K, values, m, n, Y)
    PROVE  /\ Y.isList \/ Y.size <= MaxItemSize
           /\ \A Z \in ToSet(Y.children) : Fine(K, values, m, n + 1, Z)
           /\ n > KeyNibbles => ToSet(Y.children) = {}
  <1>1. CASE Bare(Y) /\ Y.size <= MaxItemSize
    <2>1. ToSet(Y.children) = {}
      BY <1>1 DEF Bare, ToSet
    <2>. QED
      BY <1>1, <2>1
  <1>2. CASE \E Q, e : Group(K, Q, e) /\ e >= n /\ Y = encode(m[<<Q, e>>]) /\ ShortValue(values, Q)
    <2>1. PICK Q, e : Group(K, Q, e) /\ e >= n /\ Y = encode(m[<<Q, e>>]) /\ ShortValue(values, Q)
      BY <1>2
    <2>2. e \in Nat /\ e <= KeyNibbles /\ KeyNibbles \in Nat
      BY <2>1, GroupDepth DEF KeyNibbles
    <2>3. ~(n > KeyNibbles) /\ n <= e
      BY <2>1, <2>2
    <2>. QED
      BY <2>1, <2>3, FineItems
  <1>. QED
    BY <1>1, <1>2 DEF Fine

\* A node of the trie can be read if its value can.
LEMMA NodeReadable ==
    ASSUME NEW K, Keys(K), NEW values, \A i \in DOMAIN K : values[i].size \in Nat,
           NEW m, Built(K, values, m), NEW of, NEW d, Group(K, of, d), ShortValue(values, of)
    PROVE  Readable(encode(m[<<of, d>>]))
  <1>. DEFINE item == encode(m[<<of, d>>])
              sol == CHOOSE g : g = [n \in 0..MaxDepth + 1 |-> LevelTerm(g, item, n)]
  <1>1. Readable(item) <=>
            /\ sol[MaxDepth + 1] = {}
            /\ \A n \in 0..MaxDepth : \A i \in sol[n] : i.isList \/ i.size <= MaxItemSize
    BY Zenon DEF Readable, LevelTerm
  <1>2. MaxDepth \in Nat /\ MaxDepth + 1 \in Nat /\ KeyNibbles \in Nat /\ MaxDepth > KeyNibbles
    BY RlpAssumption, RelayAssumption DEF KeyNibbles
  <1>3. sol = [n \in 0..MaxDepth + 1 |-> LevelTerm(sol, item, n)]
    <2>1. \E g : g = [n \in 0..MaxDepth + 1 |-> LevelTerm(g, item, n)]
      BY <1>2, LevelsExist
    <2>. QED
      BY <2>1, Zenon
  <1>. HIDE DEF sol
  <1>4. \A n \in 0..MaxDepth + 1 : sol[n] = LevelTerm(sol, item, n)
    BY <1>3, Zenon
  <1>. DEFINE Good == {n \in Nat : n <= MaxDepth + 1 =>
                                      \A Y \in sol[n] : Fine(K, values, m, n, Y)}
  <1>5. 0 \in Good
    <2>1. sol[0] = {item}
      <3>1. 0 \in 0..MaxDepth + 1
        BY <1>2
      <3>2. sol[0] = LevelTerm(sol, item, 0)
        BY <1>4, <3>1, Zenon
      <3>. QED
        BY <3>2 DEF LevelTerm
    <2>2. d >= 0
      BY DEF Group
    <2>3. Fine(K, values, m, 0, item)
      BY <2>2, Zenon DEF Fine
    <2>. QED
      BY <2>1, <2>3
  <1>. HIDE DEF item
  <1>6. ASSUME NEW n \in Nat, n + 1 <= MaxDepth + 1
        PROVE  sol[n + 1] = UNION {ToSet(i.children) : i \in sol[n]}
    <2>1. n + 1 \in 0..MaxDepth + 1 /\ n + 1 # 0 /\ (n + 1) - 1 = n
      BY <1>2, <1>6
    <2>2. sol[n + 1] = LevelTerm(sol, item, n + 1)
      BY <1>4, <2>1
    <2>. QED
      BY <2>1, <2>2 DEF LevelTerm
  <1>7. ASSUME NEW n \in Good PROVE n + 1 \in Good
    <2>0. n + 1 \in Nat
      OBVIOUS
    <2>1. SUFFICES ASSUME n + 1 <= MaxDepth + 1, NEW Z \in sol[n + 1]
                   PROVE  Fine(K, values, m, n + 1, Z)
      BY <2>0, Zenon
    <2>2. n \in Nat /\ n <= MaxDepth + 1
      BY <1>2, <2>1
    <2>3. PICK Y \in sol[n] : Z \in ToSet(Y.children)
      BY <1>6, <2>1, <2>2
    <2>4. Fine(K, values, m, n, Y)
      BY <2>2, <2>3
    <2>. HIDE DEF Good
    <2>. QED
      BY <2>2, <2>3, <2>4, FineStep
  <1>8. Good = Nat
    <2>1. Good \in SUBSET Nat
      OBVIOUS
    <2>. HIDE DEF Good
    <2>. QED
      BY <1>5, <1>7, <2>1, AllNat
  <1>9. \A n \in 0..MaxDepth : n \in Nat /\ n <= MaxDepth + 1
    BY <1>2
  <1>10. \A n \in 0..MaxDepth : \A Y \in sol[n] : Fine(K, values, m, n, Y)
    BY <1>8, <1>9
  <1>11. \A n \in 0..MaxDepth : \A Y \in sol[n] : Y.isList \/ Y.size <= MaxItemSize
    BY <1>9, <1>10, FineStep
  <1>12. sol[MaxDepth + 1] = {}
    <2>1. MaxDepth \in 0..MaxDepth /\ MaxDepth + 1 <= MaxDepth + 1
      BY <1>2
    <2>2. sol[MaxDepth + 1] = UNION {ToSet(Y.children) : Y \in sol[MaxDepth]}
      BY <1>2, <1>6, <2>1
    <2>3. \A Y \in sol[MaxDepth] : ToSet(Y.children) = {}
      BY <1>2, <1>10, <2>1, FineStep
    <2>. QED
      BY <2>2, <2>3
  <1>. QED
    BY <1>1, <1>11, <1>12 DEF item


\* What decodeNode may meet.
Noded(K, m, Y) == Tree(K, m, 0, Y) \/ (Bare(Y) /\ (Y.size = 0 \/ Y.size = HashSize))

LEMMA ReferringIsNoded ==
    ASSUME NEW K, NEW m, NEW d \in Nat, NEW Y, Referring(K, m, d, Y)
    PROVE  Noded(K, m, Y)
  <1>1. ASSUME NEW e, e >= d, e \in Nat PROVE e >= 0
    BY <1>1
  <1>2. \A Q, e : Group(K, Q, e) => e \in Nat
    BY DEF Group
  <1>. QED
    BY <1>1, <1>2 DEF Referring, Noded, Tree

\* It is in shape, and so is what it refers to.
LEMMA NodedStep ==
    ASSUME NEW K, Keys(K), NEW values, NEW m, Built(K, values, m), NEW Y, Noded(K, m, Y)
    PROVE  InShape(Y) /\ \A Z \in Refs(Y) : Noded(K, m, Z)
  <1>1. CASE Bare(Y) /\ (Y.size = 0 \/ Y.size = HashSize)
    <2>1. InShape(Y)
      BY <1>1 DEF Bare, InShape
    <2>2. Y.children = << >>
      BY <1>1 DEF Bare
    <2>3. Refs(Y) = {}
      BY <2>2 DEF Refs, IsLeaf
    <2>. QED
      BY <2>1, <2>3
  <1>2. ASSUME NEW of, NEW d, Group(K, of, d), Y = encode(m[<<of, d>>])
        PROVE  InShape(Y) /\ \A Z \in Refs(Y) : Noded(K, m, Z)
    <2>0. d + 1 \in Nat
      BY <1>2 DEF Group
    <2>1. CASE LeafParts(K, values, of, Y)
      <3>0. PICK k : \E y \in Seq(Nibble) :
                Y = NodeList(<<PathString(HexPrefix(y, TRUE)), ValueString(values[k])>>)
        BY <2>1 DEF LeafParts
      <3>1. PICK x \in Seq(Nibble) :
                Y = NodeList(<<PathString(HexPrefix(x, TRUE)), ValueString(values[k])>>)
        BY <3>0
      <3>2. Y.isList /\ Len(Y.children) = 2 /\ Y.children[1].path = HexPrefix(x, TRUE)
        <4>. DEFINE p == PathString(HexPrefix(x, TRUE))
                    v == ValueString(values[k])
        <4>1. Y.isList /\ Y.children = <<p, v>>
          BY <3>1, Items, Zenon
        <4>2. p.path = HexPrefix(x, TRUE)
          BY Items
        <4>. HIDE DEF p, v
        <4>3. Len(<<p, v>>) = 2 /\ <<p, v>>[1] = p
          OBVIOUS
        <4>. QED
          BY <4>1, <4>2, <4>3, Zenon
      <3>3. compactToHex(HexPrefix(x, TRUE)) = Append(x, 16)
        BY PathRead
      <3>4. hasTerm(Append(x, 16))
        <4>1. x \in Seq(Nat)
          BY DEF Nibble
        <4>. QED
          BY <4>1, Terminated
      <3>5. Refs(Y) = {}
        BY <3>2, <3>3, <3>4, Zenon DEF Refs, IsLeaf
      <3>6. InShape(Y)
        BY <3>2 DEF InShape
      <3>. QED
        BY <3>5, <3>6
    <2>2. CASE ExtensionParts(K, m, d, Y)
      <3>0. PICK b : \E y \in Seq(Nibble) :
                Referring(K, m, d + 1, b) /\ Y = NodeList(<<PathString(HexPrefix(y, FALSE)), b>>)
        BY <2>2 DEF ExtensionParts
      <3>1. PICK a : Referring(K, m, d + 1, b) /\ Y = NodeList(<<a, b>>)
        BY <3>0
      <3>2. Y.isList /\ Y.children = <<a, b>>
        BY <3>1, Items, Zenon
      <3>3. Refs(Y) \subseteq {b}
        BY <3>2 DEF Refs
      <3>4. InShape(Y)
        BY <3>2 DEF InShape
      <3>. QED
        BY <2>0, <3>1, <3>3, <3>4, ReferringIsNoded
    <2>3. CASE BranchParts(K, m, d, Y)
      <3>1. PICK c : /\ Y = NodeList(c) /\ Len(c) = 17 /\ DOMAIN c = 1..17
                     /\ \A y \in 1..17 : Referring(K, m, d + 1, c[y])
        BY <2>3 DEF BranchParts
      <3>2. Y.isList /\ Y.children = c
        BY <3>1, Items
      <3>3. Refs(Y) \subseteq {c[y] : y \in 1..17}
        BY <3>1, <3>2 DEF Refs, IsLeaf
      <3>4. InShape(Y)
        BY <3>1, <3>2 DEF InShape
      <3>. QED
        BY <2>0, <3>1, <3>3, <3>4, ReferringIsNoded
    <2>. QED
      BY <1>2, <2>1, <2>2, <2>3, GroupParts
  <1>. QED
    BY <1>1, <1>2 DEF Noded, Tree

\* The equation of the references of DecodesToNode.
RefTerm(g, item, n) == IF n = 0 THEN {item} ELSE UNION {Refs(i) : i \in g[n - 1]}

RefsSolved(item, w) == \E g : g = [k \in 0..w |-> RefTerm(g, item, k)]

\* It has a solution.
LEMMA RefsExist ==
    ASSUME NEW item, NEW w \in Nat
    PROVE  RefsSolved(item, w)
  <1>. DEFINE Good == {n \in Nat : \E g : g = [k \in 0..n |-> RefTerm(g, item, k)]}
  <1>1. 0 \in Good
    <2>. DEFINE g == [k \in 0..0 |-> {item}]
    <2>1. g = [k \in 0..0 |-> RefTerm(g, item, k)]
      BY DEF RefTerm
    <2>. QED
      BY <2>1, Zenon
  <1>2. ASSUME NEW n \in Good PROVE n + 1 \in Good
    <2>1. PICK g : g = [k \in 0..n |-> RefTerm(g, item, k)]
      OBVIOUS
    <2>. DEFINE h == [k \in 0..n + 1 |-> RefTerm(g, item, k)]
    <2>2. \A k \in 0..n : h[k] = g[k]
      BY <2>1
    <2>3. ASSUME NEW k \in 0..n + 1 PROVE RefTerm(h, item, k) = RefTerm(g, item, k)
      <3>1. k # 0 => k - 1 \in 0..n
        OBVIOUS
      <3>. HIDE DEF h
      <3>. QED
        BY <2>2, <3>1 DEF RefTerm
    <2>4. h = [k \in 0..n + 1 |-> RefTerm(h, item, k)]
      BY <2>3
    <2>5. n + 1 \in Nat
      OBVIOUS
    <2>. HIDE DEF h
    <2>. QED
      BY <2>4, <2>5, Zenon
  <1>. HIDE DEF Good
  <1>3. Good \in SUBSET Nat
    BY DEF Good
  <1>4. Good = Nat
    BY <1>1, <1>2, <1>3, AllNat
  <1>. QED
    BY <1>4 DEF Good, RefsSolved

\* decodeNode accepts the nodes of the trie.
LEMMA NodeDecodes ==
    ASSUME NEW K, Keys(K), NEW values, NEW m, Built(K, values, m), NEW of, NEW d, Group(K, of, d)
    PROVE  DecodesToNode(encode(m[<<of, d>>]))
  <1>. DEFINE item == encode(m[<<of, d>>])
              sol == CHOOSE g : g = [n \in 0..MaxDepth |-> RefTerm(g, item, n)]
  <1>1. DecodesToNode(item) <=>
            item.isList /\ \A n \in 0..MaxDepth : \A i \in sol[n] : InShape(i)
    BY Zenon DEF DecodesToNode, RefTerm
  <1>2. MaxDepth \in Nat
    BY RlpAssumption
  <1>3. sol = [n \in 0..MaxDepth |-> RefTerm(sol, item, n)]
    <2>1. \E g : g = [n \in 0..MaxDepth |-> RefTerm(g, item, n)]
      <3>1. RefsSolved(item, MaxDepth)
        BY <1>2, RefsExist
      <3>. QED
        BY <3>1, Zenon DEF RefsSolved
    <2>. QED
      BY <2>1, Zenon
  <1>. HIDE DEF sol
  <1>4. \A n \in 0..MaxDepth : sol[n] = RefTerm(sol, item, n)
    BY <1>3, Zenon
  <1>5. Noded(K, m, item) /\ item.isList
    <2>1. d >= 0
      BY DEF Group
    <2>2. Noded(K, m, item)
      BY <2>1, Zenon DEF Noded, Tree
    <2>3. LeafParts(K, values, of, item) \/ ExtensionParts(K, m, d, item)
              \/ BranchParts(K, m, d, item)
      BY GroupParts
    <2>4. item.isList
      BY <2>3, Items DEF LeafParts, ExtensionParts, BranchParts
    <2>. QED
      BY <2>2, <2>4
  <1>. HIDE DEF item
  <1>. DEFINE Good == {n \in Nat : n <= MaxDepth => \A Y \in sol[n] : Noded(K, m, Y)}
  <1>6. 0 \in Good
    <2>1. 0 \in 0..MaxDepth
      BY <1>2
    <2>2. sol[0] = RefTerm(sol, item, 0)
      BY <1>4, <2>1, Zenon
    <2>3. sol[0] = {item}
      BY <2>2 DEF RefTerm
    <2>. QED
      BY <1>5, <2>3
  <1>7. ASSUME NEW n \in Good PROVE n + 1 \in Good
    <2>0. n + 1 \in Nat
      OBVIOUS
    <2>1. SUFFICES ASSUME n + 1 <= MaxDepth, NEW Z \in sol[n + 1]
                   PROVE  Noded(K, m, Z)
      BY <2>0, Zenon
    <2>2. n \in Nat /\ n <= MaxDepth /\ n + 1 \in 0..MaxDepth /\ n + 1 # 0 /\ (n + 1) - 1 = n
      BY <1>2, <2>1
    <2>3. sol[n + 1] = RefTerm(sol, item, n + 1)
      BY <1>4, <2>2
    <2>4. PICK Y \in sol[n] : Z \in Refs(Y)
      BY <2>1, <2>2, <2>3 DEF RefTerm
    <2>5. Noded(K, m, Y)
      BY <2>2, <2>4
    <2>. HIDE DEF Good
    <2>. QED
      BY <2>4, <2>5, NodedStep
  <1>8. Good = Nat
    <2>1. Good \in SUBSET Nat
      OBVIOUS
    <2>. HIDE DEF Good
    <2>. QED
      BY <1>6, <1>7, <2>1, AllNat
  <1>9. \A n \in 0..MaxDepth : n \in Nat /\ n <= MaxDepth
    BY <1>2
  <1>10. \A n \in 0..MaxDepth : \A Y \in sol[n] : InShape(Y)
    BY <1>8, <1>9, NodedStep
  <1>. QED
    BY <1>1, <1>5, <1>10 DEF item


\* The contract reads all the nodes of a proof that can be read.
LEMMA AllRead ==
    ASSUME NEW nodes, IsSequence(nodes), \A X \in ToSet(nodes) : Readable(X)
    PROVE  NodesRead(nodes) = nodes
  <1>. DEFINE l == Len(nodes)
              Kept(n) == /\ \A i \in 1..n : Readable(nodes[i])
                         /\ n < l => ~Readable(nodes[n + 1])
              k == CHOOSE n \in 0..l : Kept(n)
  <1>1. nodes \in Seq(ToSet(nodes)) /\ l \in Nat /\ DOMAIN nodes = 1..l
    BY DEF IsSequence
  <1>2. \A i \in 1..l : Readable(nodes[i])
    BY <1>1 DEF ToSet
  <1>3. NodesRead(nodes) = SubSeq(nodes, 1, k)
    BY DEF NodesRead
  <1>4. k \in 0..l /\ Kept(k)
    <2>1. l \in 0..l /\ ~(l < l)
      BY <1>1
    <2>2. Kept(l)
      <3>. HIDE DEF l
      <3>. QED
        BY <1>2, <2>1
    <2>. HIDE DEF Kept, l
    <2>. QED
      BY <2>1, <2>2
  <1>5. k = l
    <2>. HIDE DEF k
    <2>1. k < l => k + 1 \in 1..l
      BY <1>1, <1>4
    <2>2. ~(k < l)
      BY <1>2, <1>4, <2>1
    <2>3. k \in 0..l /\ l \in Nat
      BY <1>1, <1>4, Zenon
    <2>. HIDE DEF l
    <2>. QED
      BY <2>2, <2>3
  <1>. HIDE DEF k
  <1>6. SubSeq(nodes, 1, l) = nodes
    BY <1>1, SubSeqFull
  <1>. QED
    BY <1>3, <1>5, <1>6

(***************************************************************************)
(* The contract's walk, along the nodes S on the way to i0's key.          *)
(***************************************************************************)
\* The rest of a path is what a leaf holds of it.
LEMMA RestIs ==
    ASSUME NEW q \in Seq(Nibble), NEW i \in 0..Len(q)
    PROVE  /\ SubSeq(q, i + 1, Len(q)) \in Seq(Nibble)
           /\ Append(SubSeq(q, i + 1, Len(q)), 16) = Rest(q, i)
  <1>. DEFINE x == SubSeq(q, i + 1, Len(q))
              r == Rest(q, i)
              l == Len(q)
  <1>1. /\ r \in Seq(Nat) /\ Len(r) = l - i + 1 /\ r[l - i + 1] = 16 /\ l \in Nat
        /\ \A n \in 1..l - i : r[n] = q[i + n]
    BY RestOf
  <1>2. x \in Seq(Nibble) /\ Len(x) = l - i /\ \A n \in 1..l - i : x[n] = q[i + n]
    OBVIOUS
  <1>3. x \in Seq(Nat)
    <2>1. Nibble \subseteq Nat
      BY DEF Nibble
    <2>. HIDE DEF x
    <2>. QED
      BY <1>2, <2>1, SeqMonotonic
  <1>. HIDE DEF x, r
  <1>. DEFINE t == Append(x, 16)
  <1>4. t \in Seq(Nat) /\ Len(t) = l - i + 1 /\ t[l - i + 1] = 16
        /\ \A n \in 1..l - i : t[n] = x[n]
    BY <1>1, <1>2, <1>3
  <1>. HIDE DEF t
  <1>5. ASSUME NEW n \in 1..l - i + 1 PROVE t[n] = r[n]
    <2>1. n \in 1..l - i \/ n = l - i + 1
      BY <1>1
    <2>. QED
      BY <1>1, <1>2, <1>4, <2>1
  <1>6. t = r
    BY <1>1, <1>4, <1>5, SeqEqual
  <1>. QED
    BY <1>2, <1>6 DEF t, r, x

\* A part of the path, from there, is a prefix of it.
LEMMA PartOfRest ==
    ASSUME NEW q \in Seq(Nibble), NEW i \in 0..Len(q), NEW e \in i + 1..Len(q)
    PROVE  LET x == SubSeq(q, i + 1, e)
           IN  /\ x \in Seq(Nibble) /\ Len(x) = e - i /\ ~hasTerm(x)
               /\ IsPrefix(x, Rest(q, i))
               /\ SubSeq(Rest(q, i), Len(x) + 1, Len(Rest(q, i))) = Rest(q, e)
  <1>. DEFINE x == SubSeq(q, i + 1, e)
              r == Rest(q, i)
              l == Len(q)
  <1>1. /\ r \in Seq(Nat) /\ Len(r) = l - i + 1 /\ l \in Nat
        /\ \A n \in 1..l - i : r[n] = q[i + n]
    BY RestOf
  <1>2. /\ x \in Seq(Nibble) /\ Len(x) = e - i /\ e - i \in Nat /\ e - i # 0
        /\ \A n \in 1..e - i : x[n] = q[i + n]
    OBVIOUS
  <1>3. e - i \in 0..l - i /\ i + (e - i) = e /\ e - i <= l - i + 1
        /\ \A n \in 1..e - i : n \in 1..l - i
    BY <1>1
  <1>4. SubSeq(r, (e - i) + 1, Len(r)) = Rest(q, e)
    <2>1. SubSeq(Rest(q, i), (e - i) + 1, Len(Rest(q, i))) = Rest(q, i + (e - i))
      BY <1>3, RestOfRest
    <2>. QED
      BY <1>3, <2>1
  <1>. HIDE DEF x, r, l
  <1>5. ~hasTerm(x)
    <2>1. x[Len(x)] \in Nibble
      BY <1>2
    <2>. QED
      BY <2>1 DEF hasTerm, Last, Nibble
  <1>6. IsPrefix(x, r)
    <2>. DEFINE a == SubSeq(x, 1, Len(x))
                b == SubSeq(r, 1, Len(x))
    <2>1. a = x
      BY <1>2, SubSeqFull
    <2>2. b \in Seq(Nat) /\ Len(b) = e - i /\ \A n \in 1..e - i : b[n] = r[n]
      BY <1>1, <1>2, <1>3, SMTT(30)
    <2>3. x \in Seq(Nat)
      <3>1. Nibble \subseteq Nat
        BY DEF Nibble
      <3>. QED
        BY <1>2, <3>1, SeqMonotonic
    <2>. HIDE DEF b
    <2>4. \A n \in 1..e - i : x[n] = b[n]
      BY <1>1, <1>2, <1>3, <2>2
    <2>5. x = b
      BY <1>2, <2>2, <2>3, <2>4, SeqEqual
    <2>6. Len(x) <= Len(r)
      BY <1>1, <1>2, <1>3
    <2>. QED
      BY <2>1, <2>5, <2>6 DEF IsPrefix, b
  <1>7. SubSeq(r, Len(x) + 1, Len(r)) = Rest(q, e)
    BY <1>2, <1>4
  <1>. QED
    BY <1>2, <1>5, <1>6, <1>7 DEF x, r


\* How far get has come after n turns, from a node at depth s: it is at the value,
\* at a node or a reference in it, each turn one level deeper, or at the hash of a
\* deeper node.
Going(K, values, i0, m, S, s, n, at) ==
    \/ at.found = "value" /\ at.item = ValueString(values[i0])
    \/ \E of, d :
           /\ <<of, d>> \in S /\ at.rest = Rest(K[i0], d)
           /\ \/ at.found = "node" /\ at.item = encode(m[<<of, d>>]) /\ d >= s + n
              \/ /\ at.found = "node" /\ at.item = HashString(encode(m[<<of, d>>]))
                 /\ d > s /\ d >= s + n
              \/ at.found = "hash" /\ at.item = HashString(encode(m[<<of, d>>])) /\ d > s

\* get at a node, and at what refers to one.
AtNode(K, i0, m, of, d, at) ==
    at.found = "node" /\ at.item = encode(m[<<of, d>>]) /\ at.rest = Rest(K[i0], d)
AtReference(K, i0, m, of, d, at) ==
    at.found = "node" /\ at.item = Ref(encode(m[<<of, d>>])) /\ at.rest = Rest(K[i0], d)

\* At the end of the way, the value.
LEMMA EndsAtValue ==
    ASSUME NEW K, Keys(K), NEW values, NEW i0, NEW m, NEW of, NEW d, Spot(K, i0, of, d),
           Ends(K, values, i0, m, of, d), NEW at, AtNode(K, i0, m, of, d, at)
    PROVE  Turn(at).found = "value" /\ Turn(at).item = ValueString(values[i0])
  <1>0. at.found = "node" /\ at.item = encode(m[<<of, d>>]) /\ at.rest = Rest(K[i0], d)
    BY DEF AtNode
  <1>. DEFINE q == K[i0]
              x == SubSeq(q, d + 1, Len(q))
              v == ValueString(values[i0])
              X == at.item
  <1>1. q \in Seq(Nibble) /\ d \in 0..Len(q)
    BY SpotDepth
  <1>2. x \in Seq(Nibble) /\ Append(x, 16) = Rest(q, d)
    BY <1>1, RestIs
  <1>3. X = NodeList(<<PathString(HexPrefix(x, TRUE)), v>>)
    BY <1>0 DEF Ends
  <1>. HIDE DEF x, v
  <1>4. /\ X.isList /\ Len(X.children) = 2
        /\ X.children[1].path = HexPrefix(x, TRUE) /\ X.children[2] = v
    <2>. DEFINE h == HexPrefix(x, TRUE)
    <2>1. X = NodeList(<<PathString(h), v>>)
      BY <1>3
    <2>. HIDE DEF h, X
    <2>2. X.isList /\ Len(X.children) = 2 /\ X.children[1].path = h /\ X.children[2] = v
      BY <2>1, ShortNode
    <2>. QED
      BY <2>2 DEF h
  <1>5. compactToHex(HexPrefix(x, TRUE)) = Append(x, 16)
    BY <1>2, PathRead
  <1>6. hasTerm(Append(x, 16))
    <2>1. x \in Seq(Nat)
      <3>1. Nibble \subseteq Nat
        BY DEF Nibble
      <3>. QED
        BY <1>2, <3>1, SeqMonotonic
    <2>. QED
      BY <2>1, Terminated
  <1>7. IsPrefix(Append(x, 16), at.rest)
    <2>1. Append(x, 16) = at.rest
      BY <1>0, <1>2
    <2>2. at.rest \in Seq(Nat)
      BY <1>0, <1>1, RestOf
    <2>3. Len(at.rest) <= Len(at.rest)
      BY <2>2
    <2>. QED
      BY <2>1, <2>3 DEF IsPrefix
  <1>8. Turn(at) = Short(X, at.rest)
    BY <1>0, <1>4 DEF Turn
  <1>9. Short(X, at.rest).found = "value" /\ Short(X, at.rest).item = v
    BY <1>4, <1>5, <1>6, <1>7 DEF Short, At
  <1>. QED
    BY <1>8, <1>9 DEF v

\* Before it, a reference to the next node.
LEMMA GoesToNode ==
    ASSUME NEW K, Keys(K), NEW i0, NEW m, NEW of, NEW d, Spot(K, i0, of, d),
           NEW Q, NEW e, GoesOn(K, i0, m, of, d, Q, e), NEW at, AtNode(K, i0, m, of, d, at)
    PROVE  AtReference(K, i0, m, Q, e, Turn(at))
  <1>0. at.found = "node" /\ at.item = encode(m[<<of, d>>]) /\ at.rest = Rest(K[i0], d)
    BY DEF AtNode
  <1>. DEFINE q == K[i0]
              X == at.item
              b == Ref(encode(m[<<Q, e>>]))
  <1>1. q \in Seq(Nibble) /\ Len(q) \in Nat /\ d \in 0..Len(q)
    BY SpotDepth
  <1>2. e \in d + 1..Len(q)
    <2>1. Spot(K, i0, Q, e) /\ e > d
      BY DEF GoesOn
    <2>2. e \in Nat /\ e <= Len(q)
      BY <2>1, SpotDepth
    <2>. QED
      BY <1>1, <2>1, <2>2
  <1>3. CASE X = NodeList(<<PathString(HexPrefix(SubSeq(q, d + 1, e), FALSE)), b>>)
    <2>. DEFINE x == SubSeq(q, d + 1, e)
    <2>1. /\ x \in Seq(Nibble) /\ ~hasTerm(x) /\ IsPrefix(x, at.rest)
          /\ SubSeq(at.rest, Len(x) + 1, Len(at.rest)) = Rest(q, e)
      BY <1>0, <1>1, <1>2, PartOfRest
    <2>2. X = NodeList(<<PathString(HexPrefix(x, FALSE)), b>>)
      BY <1>3
    <2>. HIDE DEF x, b
    <2>3. /\ X.isList /\ Len(X.children) = 2
          /\ X.children[1].path = HexPrefix(x, FALSE) /\ X.children[2] = b
      <3>. DEFINE h == HexPrefix(x, FALSE)
      <3>1. X = NodeList(<<PathString(h), b>>)
        BY <2>2
      <3>. HIDE DEF h, X
      <3>2. X.isList /\ Len(X.children) = 2 /\ X.children[1].path = h /\ X.children[2] = b
        BY <3>1, ShortNode
      <3>. QED
        BY <3>2 DEF h
    <2>4. compactToHex(HexPrefix(x, FALSE)) = x
      BY <2>1, PathRead
    <2>5. Turn(at) = Short(X, at.rest)
      BY <1>0, <2>3 DEF Turn
    <2>6. /\ Short(X, at.rest).found = "node" /\ Short(X, at.rest).item = b
          /\ Short(X, at.rest).rest = Rest(q, e)
      BY <2>1, <2>3, <2>4 DEF Short, At
    <2>. QED
      BY <2>5, <2>6 DEF b, AtReference
  <1>4. CASE /\ e = d + 1
             /\ \E c : /\ X = NodeList(c) /\ Len(c) = 17 /\ DOMAIN c = 1..17
                       /\ c[q[d + 1] + 1] = b
    <2>1. PICK c : X = NodeList(c) /\ Len(c) = 17 /\ c[q[d + 1] + 1] = b
      BY <1>4
    <2>2. X.isList /\ X.children = c
      BY <2>1, Items
    <2>3. d < Len(q) /\ 1 \in 0..Len(q) - d
      BY <1>1, <1>2
    <2>. DEFINE r == at.rest
                y == q[d + 1]
    <2>4. r # << >> /\ Head(r) = y /\ y \in Nibble
      BY <1>0, <1>1, <2>3, HeadOfRest
    <2>5. Tail(r) = Rest(q, e)
      <3>1. r \in Seq(Nat) /\ SubSeq(r, 1 + 1, Len(r)) = Rest(q, d + 1)
        BY <1>0, <1>1, <2>3, RestOf, RestOfRest
      <3>2. Tail(r) = SubSeq(r, 2, Len(r))
        BY <2>4, <3>1, TailIsSubSeq
      <3>3. e = d + 1 /\ 1 + 1 = 2
        BY <1>4
      <3>. QED
        BY <3>1, <3>2, <3>3, Zenon
    <2>. HIDE DEF r, y, b
    <2>6. Head(r) # 16 /\ Len(X.children) # 2
      <3>1. Head(r) # 16
        BY <2>4 DEF Nibble
      <3>2. Len(X.children) = 17
        BY <2>1, <2>2
      <3>. QED
        BY <3>1, <3>2
    <2>7. Turn(at) = Full(X, r)
      BY <1>0, <2>2, <2>6 DEF Turn, r
    <2>8. /\ Full(X, r).found = "node" /\ Full(X, r).item = c[y + 1]
          /\ Full(X, r).rest = Rest(q, e)
      BY <2>2, <2>4, <2>5, <2>6 DEF Full, At
    <2>. QED
      BY <2>1, <2>7, <2>8 DEF y, b, AtReference
  <1>. QED
    BY <1>0, <1>3, <1>4 DEF GoesOn, Refers


\* A reference is the node itself or its hash.
LEMMA RefKinds == ASSUME NEW X PROVE Ref(X) = X \/ Ref(X) = HashString(X)
  BY DEF Ref

\* A node on the way is a list.
LEMMA SpotIsList ==
    ASSUME NEW K, Keys(K), NEW values, NEW i0, NEW m, Built(K, values, m), NEW of, NEW d,
           Spot(K, i0, of, d)
    PROVE  encode(m[<<of, d>>]).isList = TRUE
  <1>1. Group(K, of, d)
    BY DEF Spot
  <1>2. LeafParts(K, values, of, encode(m[<<of, d>>])) \/ ExtensionParts(K, m, d, encode(m[<<of, d>>]))
            \/ BranchParts(K, m, d, encode(m[<<of, d>>]))
    BY <1>1, GroupParts
  <1>. QED
    BY <1>2, Items DEF LeafParts, ExtensionParts, BranchParts

\* One turn of get.
LEMMA TurnGoes ==
    ASSUME NEW K, Keys(K), NEW values, NEW m, Built(K, values, m), NEW i0, NEW nodes, NEW S,
           LeadDown(K, values, i0, m, nodes, S), NEW s \in Nat, NEW n \in Nat, NEW at,
           Going(K, values, i0, m, S, s, n, at)
    PROVE  Going(K, values, i0, m, S, s, n + 1, Turn(at))
  <1>1. CASE at.found = "value" /\ at.item = ValueString(values[i0])
    <2>1. Turn(at) = at
      BY <1>1 DEF Turn
    <2>. QED
      BY <1>1, <2>1 DEF Going
  <1>2. ASSUME NEW of, NEW d, <<of, d>> \in S, at.rest = Rest(K[i0], d), at.found = "node",
               at.item = encode(m[<<of, d>>]), d >= s + n
        PROVE  Going(K, values, i0, m, S, s, n + 1, Turn(at))
    <2>0. AtNode(K, i0, m, of, d, at)
      BY <1>2 DEF AtNode
    <2>1. /\ Spot(K, i0, of, d)
          /\ \/ Ends(K, values, i0, m, of, d)
             \/ \E Q, e : <<Q, e>> \in S /\ GoesOn(K, i0, m, of, d, Q, e)
      BY <1>2 DEF LeadDown
    <2>2. CASE Ends(K, values, i0, m, of, d)
      <3>1. Turn(at).found = "value" /\ Turn(at).item = ValueString(values[i0])
        BY <2>0, <2>1, <2>2, EndsAtValue
      <3>. QED
        BY <3>1 DEF Going
    <2>3. ASSUME NEW Q, NEW e, <<Q, e>> \in S, GoesOn(K, i0, m, of, d, Q, e)
          PROVE  Going(K, values, i0, m, S, s, n + 1, Turn(at))
      <3>1. /\ Turn(at).found = "node" /\ Turn(at).item = Ref(encode(m[<<Q, e>>]))
            /\ Turn(at).rest = Rest(K[i0], e)
        <4>1. AtReference(K, i0, m, Q, e, Turn(at))
          BY <2>0, <2>1, <2>3, GoesToNode
        <4>. QED
          BY <4>1 DEF AtReference
      <3>2. e > s /\ e >= s + (n + 1)
        <4>1. Spot(K, i0, Q, e) /\ e > d
          BY <2>3 DEF GoesOn
        <4>2. e \in Nat /\ d \in Nat
          BY <2>1, <4>1, SpotDepth
        <4>. QED
          BY <1>2, <4>1, <4>2
      <3>3. Ref(encode(m[<<Q, e>>])) \in {encode(m[<<Q, e>>]), HashString(encode(m[<<Q, e>>]))}
        BY RefKinds
      <3>. QED
        BY <2>3, <3>1, <3>2, <3>3 DEF Going
    <2>. QED
      BY <2>1, <2>2, <2>3
  <1>3. ASSUME NEW of, NEW d, <<of, d>> \in S, at.rest = Rest(K[i0], d), at.found = "node",
               at.item = HashString(encode(m[<<of, d>>])), d > s
        PROVE  Going(K, values, i0, m, S, s, n + 1, Turn(at))
    <2>1. at.item.isList = FALSE /\ at.item.size = HashSize
      BY <1>3, Items
    <2>2. Turn(at).found = "hash" /\ Turn(at).item = at.item /\ Turn(at).rest = at.rest
      BY <1>3, <2>1 DEF Turn, At
    <2>. QED
      BY <1>3, <2>2 DEF Going
  <1>4. ASSUME NEW of, NEW d, <<of, d>> \in S, at.rest = Rest(K[i0], d), at.found = "hash",
               at.item = HashString(encode(m[<<of, d>>])), d > s
        PROVE  Going(K, values, i0, m, S, s, n + 1, Turn(at))
    <2>1. Turn(at) = at
      BY <1>4 DEF Turn
    <2>. QED
      BY <1>4, <2>1 DEF Going
  <1>. QED
    BY <1>1, <1>2, <1>3, <1>4 DEF Going

\* How far VerifyProof has come after n hashes.
Fetched(K, values, i0, m, S, n, at) ==
    \/ at.found = "value" /\ at.item = ValueString(values[i0])
    \/ \E of, d :
           /\ <<of, d>> \in S /\ at.rest = Rest(K[i0], d) /\ d >= n
           /\ at.found = "hash" /\ at.item = HashString(encode(m[<<of, d>>]))

\* get ends at the value or at the hash of a deeper node: it has more turns than
\* there are nibbles.
LEMMA GetGoes ==
    ASSUME NEW K, Keys(K), NEW values, NEW m, Built(K, values, m), NEW i0, NEW nodes, NEW S,
           LeadDown(K, values, i0, m, nodes, S), NEW of, NEW s, <<of, s>> \in S
    PROVE  Fetched(K, values, i0, m, S, s + 1, get(encode(m[<<of, s>>]), Rest(K[i0], s)))
  <1>. DEFINE X == encode(m[<<of, s>>])
              rest == Rest(K[i0], s)
  <1>1. PICK at : /\ at[0] = At("node", X, rest)
                  /\ \A n \in 0..MaxDepth : at[n + 1] = Turn(at[n])
                  /\ get(X, rest) = at[MaxDepth + 1]
    BY Turns
  <1>2. MaxDepth \in Nat /\ KeyNibbles \in Nat /\ MaxDepth > KeyNibbles
    BY RlpAssumption, RelayAssumption DEF KeyNibbles
  <1>3. \A Q, d : <<Q, d>> \in S => d \in Nat /\ d <= KeyNibbles
    <2>1. \A Q, d : <<Q, d>> \in S => Spot(K, i0, Q, d)
      BY DEF LeadDown
    <2>. QED
      BY <2>1, GroupDepth DEF Spot
  <1>4. s \in Nat
    BY <1>3
  <1>. DEFINE Good == {n \in Nat : n <= MaxDepth + 1 => Going(K, values, i0, m, S, s, n, at[n])}
  <1>5. 0 \in Good
    <2>1. at[0].found = "node" /\ at[0].item = X /\ at[0].rest = rest
      BY <1>1 DEF At
    <2>2. s >= s + 0
      BY <1>4
    <2>3. Going(K, values, i0, m, S, s, 0, at[0])
      BY <2>1, <2>2 DEF Going
    <2>. QED
      BY <2>3
  <1>. HIDE DEF X, rest
  <1>6. ASSUME NEW n \in Good PROVE n + 1 \in Good
    <2>0. n \in Nat /\ n + 1 \in Nat
      OBVIOUS
    <2>1. SUFFICES ASSUME n + 1 <= MaxDepth + 1 PROVE Going(K, values, i0, m, S, s, n + 1, at[n + 1])
      BY <2>0, Zenon
    <2>2. n \in 0..MaxDepth /\ n <= MaxDepth + 1
      BY <1>2, <2>0, <2>1
    <2>3. at[n + 1] = Turn(at[n]) /\ Going(K, values, i0, m, S, s, n, at[n])
      BY <1>1, <2>2
    <2>. HIDE DEF Good
    <2>. QED
      BY <1>4, <2>0, <2>3, TurnGoes
  <1>7. Going(K, values, i0, m, S, s, MaxDepth + 1, at[MaxDepth + 1])
    <2>1. Good \in SUBSET Nat
      OBVIOUS
    <2>2. MaxDepth + 1 \in Nat /\ MaxDepth + 1 <= MaxDepth + 1
      BY <1>2
    <2>. HIDE DEF Good
    <2>3. Good = Nat
      BY <1>5, <1>6, <2>1, AllNat
    <2>. QED
      BY <2>2, <2>3 DEF Good
  <1>8. ASSUME NEW Q, NEW d, <<Q, d>> \in S PROVE ~(d >= s + (MaxDepth + 1))
    BY <1>2, <1>3, <1>4, <1>8
  <1>9. ASSUME NEW Q, NEW d, <<Q, d>> \in S, d > s PROVE d >= s + 1
    BY <1>3, <1>4, <1>9
  <1>10. Fetched(K, values, i0, m, S, s + 1, at[MaxDepth + 1])
    BY <1>7, <1>8, <1>9 DEF Going, Fetched
  <1>. QED
    BY <1>1, <1>10 DEF X, rest

\* One turn of VerifyProof: the node is in the proof.
LEMMA FetchGoes ==
    ASSUME NEW K, Keys(K), NEW values, NEW m, Built(K, values, m), NEW i0, NEW nodes, NEW S,
           LeadDown(K, values, i0, m, nodes, S), NEW n \in Nat, NEW at,
           Fetched(K, values, i0, m, S, n, at)
    PROVE  Fetched(K, values, i0, m, S, n + 1, Fetch(nodes, at))
  <1>1. CASE at.found = "value" /\ at.item = ValueString(values[i0])
    <2>1. Fetch(nodes, at) = at
      BY <1>1 DEF Fetch
    <2>. QED
      BY <1>1, <2>1 DEF Fetched
  <1>2. ASSUME NEW of, NEW d, <<of, d>> \in S, at.rest = Rest(K[i0], d), d >= n,
               at.found = "hash", at.item = HashString(encode(m[<<of, d>>]))
        PROVE  Fetched(K, values, i0, m, S, n + 1, Fetch(nodes, at))
    <2>. DEFINE X == encode(m[<<of, d>>])
                found == newProofDB(nodes, at.item)
                node == CHOOSE k \in found : TRUE
    <2>1. Spot(K, i0, of, d) /\ X \in ToSet(nodes)
      BY <1>2 DEF LeadDown
    <2>2. Group(K, of, d) /\ d \in Nat
      BY <2>1 DEF Spot, Group
    <2>3. DecodesToNode(X)
      BY <2>2, NodeDecodes
    <2>4. Fetched(K, values, i0, m, S, d + 1, get(X, Rest(K[i0], d)))
      BY <1>2, GetGoes
    <2>5. Fetch(nodes, at) =
              IF at.found # "hash" THEN at
              ELSE IF found = {} \/ ~DecodesToNode(node) THEN Nowhere
              ELSE get(node, at.rest)
      BY DEF Fetch
    <2>. HIDE DEF X
    <2>6. at.item.hashOf = <<X>>
      BY <1>2, Items DEF X
    <2>7. found = {X}
      <3>1. \A k : <<X>> = <<k>> <=> k = X
        OBVIOUS
      <3>. QED
        BY <2>1, <2>6, <3>1 DEF newProofDB
    <2>. HIDE DEF found
    <2>8. node = X
      BY <2>7
    <2>. HIDE DEF node
    <2>9. Fetch(nodes, at) = get(X, Rest(K[i0], d))
      BY <1>2, <2>3, <2>5, <2>7, <2>8
    <2>10. ASSUME NEW Q, NEW e, <<Q, e>> \in S, e >= d + 1 PROVE e >= n + 1
      <3>1. Spot(K, i0, Q, e)
        BY <2>10 DEF LeadDown
      <3>2. e \in Nat
        BY <3>1 DEF Spot, Group
      <3>. QED
        BY <1>2, <2>2, <2>10, <3>2
    <2>. QED
      BY <2>4, <2>9, <2>10 DEF Fetched
  <1>. QED
    BY <1>1, <1>2 DEF Fetched


\* The nodes of a proof for a value that can be read are read.
LEMMA ProofRead ==
    ASSUME NEW K, Keys(K), NEW values, \A i \in DOMAIN K : values[i].size \in Nat,
           NEW m, Built(K, values, m), NEW i0, values[i0].size <= MaxItemSize,
           NEW nodes, AllOnTheWay(K, i0, m, nodes)
    PROVE  NodesRead(nodes) = nodes
  <1>1. ASSUME NEW X \in ToSet(nodes) PROVE Readable(X)
    <2>1. PICK of, d : Spot(K, i0, of, d) /\ X = encode(m[<<of, d>>])
      BY DEF AllOnTheWay
    <2>2. Group(K, of, d) /\ i0 \in of
      BY <2>1 DEF Spot
    <2>3. ShortValue(values, of)
      BY <2>2 DEF ShortValue
    <2>. QED
      BY <2>1, <2>2, <2>3, NodeReadable
  <1>. QED
    BY <1>1, AllRead DEF AllOnTheWay

\* The root of a trie and the nodes on the way to a key verify the value there.
LEMMA ProofVerifies ==
    ASSUME NEW K, Keys(K), NEW values, NEW m, Built(K, values, m), NEW i0 \in DOMAIN K,
           NEW nodes, AllOnTheWay(K, i0, m, nodes),
           NEW S, LeadDown(K, values, i0, m, nodes, S),
           NEW key, keybytesToHex(key) = Rest(K[i0], 0)
    PROVE  VerifyProof(encode(m[<<DOMAIN K, 0>>]), key, nodes) = <<values[i0]>>
  <1>. DEFINE root == encode(m[<<DOMAIN K, 0>>])
  <1>1. PICK at : Fetching(root, key, nodes, at)
    BY Fetches
  <1>2. /\ at[0] = At("hash", HashString(root), keybytesToHex(key))
        /\ \A n \in 0..MaxProofNodes + 1 : at[n + 1] = Fetch(nodes, at[n])
    BY <1>1, Zenon DEF Fetching
  <1>3. MaxProofNodes \in Nat /\ KeyNibbles \in Nat /\ MaxProofNodes > KeyNibbles
    BY MptAssumption, RelayAssumption DEF KeyNibbles
  <1>. DEFINE Good == {n \in Nat : n <= MaxProofNodes + 2 => Fetched(K, values, i0, m, S, n, at[n])}
  <1>4. 0 \in Good
    <2>1. <<DOMAIN K, 0>> \in S
      BY DEF LeadDown
    <2>2. at[0].found = "hash" /\ at[0].item = HashString(root) /\ at[0].rest = Rest(K[i0], 0)
      BY <1>2 DEF At
    <2>3. 0 >= 0
      OBVIOUS
    <2>4. Fetched(K, values, i0, m, S, 0, at[0])
      BY <2>1, <2>2, <2>3, Zenon DEF Fetched
    <2>. QED
      BY <2>4
  <1>. HIDE DEF root
  <1>5. ASSUME NEW n \in Good PROVE n + 1 \in Good
    <2>0. n \in Nat /\ n + 1 \in Nat
      OBVIOUS
    <2>1. SUFFICES ASSUME n + 1 <= MaxProofNodes + 2
                   PROVE  Fetched(K, values, i0, m, S, n + 1, at[n + 1])
      BY <2>0, Zenon
    <2>2. n \in 0..MaxProofNodes + 1 /\ n <= MaxProofNodes + 2
      BY <1>3, <2>0, <2>1
    <2>3. at[n + 1] = Fetch(nodes, at[n]) /\ Fetched(K, values, i0, m, S, n, at[n])
      BY <1>2, <2>2
    <2>. HIDE DEF Good
    <2>. QED
      BY <2>0, <2>3, FetchGoes
  <1>6. Fetched(K, values, i0, m, S, MaxProofNodes + 2, at[MaxProofNodes + 2])
    <2>1. Good \in SUBSET Nat
      OBVIOUS
    <2>2. MaxProofNodes + 2 \in Nat /\ MaxProofNodes + 2 <= MaxProofNodes + 2
      BY <1>3
    <2>. HIDE DEF Good
    <2>3. Good = Nat
      BY <1>4, <1>5, <2>1, AllNat
    <2>. QED
      BY <2>2, <2>3 DEF Good
  <1>7. ASSUME NEW of, NEW d, <<of, d>> \in S PROVE ~(d >= MaxProofNodes + 2)
    <2>1. Spot(K, i0, of, d)
      BY <1>7 DEF LeadDown
    <2>2. d \in Nat /\ d <= KeyNibbles
      BY <2>1, GroupDepth DEF Spot
    <2>. QED
      BY <1>3, <2>2
  <1>8. at[MaxProofNodes + 2].found = "value" /\ at[MaxProofNodes + 2].item = ValueString(values[i0])
    BY <1>6, <1>7 DEF Fetched
  <1>9. Len(nodes) \in 1..MaxProofNodes
    <2>1. Len(nodes) \in Nat /\ Len(nodes) >= 1 /\ Len(nodes) <= KeyNibbles + 1
      BY DEF AllOnTheWay
    <2>. QED
      BY <1>3, <2>1
  <1>10. at[MaxProofNodes + 2].item.value = <<values[i0]>>
    BY <1>8, Items
  <1>. QED
    BY <1>1, <1>8, <1>9, <1>10, Zenon DEF Fetching, root

\* What GenerateProof makes for a key.
LEMMA GeneratedVerifies ==
    ASSUME NEW K, Keys(K), NEW values, \A i \in DOMAIN K : values[i].size \in Nat,
           NEW m, Built(K, values, m), NEW i0 \in DOMAIN K,
           NEW key, keybytesToHex(key) = Rest(K[i0], 0)
    PROVE  LET nodes == collectProof(m[<<DOMAIN K, 0>>], K[i0])
           IN  /\ IsSequence(nodes)
               /\ values[i0].size <= MaxItemSize =>
                      VerifyProof(encode(m[<<DOMAIN K, 0>>]), key, NodesRead(nodes))
                          = <<values[i0]>>
  <1>. DEFINE nodes == collectProof(m[<<DOMAIN K, 0>>], K[i0])
  <1>1. AllOnTheWay(K, i0, m, nodes) /\ \E S : LeadDown(K, values, i0, m, nodes, S)
    BY WayDown
  <1>. HIDE DEF nodes
  <1>2. PICK S : LeadDown(K, values, i0, m, nodes, S)
    BY <1>1
  <1>3. values[i0].size <= MaxItemSize => NodesRead(nodes) = nodes
    BY <1>1, ProofRead
  <1>4. VerifyProof(encode(m[<<DOMAIN K, 0>>]), key, nodes) = <<values[i0]>>
    BY <1>1, <1>2, ProofVerifies
  <1>5. IsSequence(nodes)
    BY <1>1 DEF AllOnTheWay
  <1>. QED
    BY <1>3, <1>4, <1>5 DEF nodes

\* BuildTxProof and BuildReceiptProof: the proof for an index of a block is
\* verified against the root that L1 commits to, if the value can be read.
LEMMA BuiltVerifies ==
    ASSUME NEW values, NEW n \in Nat, DOMAIN values = 1..n, n <= Word,
           \A i \in DOMAIN values : values[i].size \in Nat,
           NEW index \in Nat, index + 1 \in DOMAIN values
    PROVE  /\ IsSequence(BuildProof(values, index))
           /\ values[index + 1].size <= MaxItemSize =>
                  VerifyProof(Root(values), RLPEncodeKey(index),
                              NodesRead(BuildProof(values, index)))
                      = <<values[index + 1]>>
  <1>. DEFINE K == KeysOf(values)
              key == EncodeUint64(index)
  <1>1. n # 0 /\ index \in 0..Word - 1
    BY TransactionsAssumption
  <1>2. DOMAIN K = DOMAIN values /\ \A i \in DOMAIN values : K[i] = Key(i)
    BY DEF KeysOf
  <1>3. /\ Keys(K)
        /\ \E m : /\ Built(K, values, m)
                  /\ TrieOf(values) = m[<<DOMAIN K, 0>>]
                  /\ Root(values) = encode(m[<<DOMAIN K, 0>>])
    BY <1>1, SameRoot
  <1>. HIDE DEF K
  <1>4. PICK m : /\ Built(K, values, m)
                 /\ TrieOf(values) = m[<<DOMAIN K, 0>>]
                 /\ Root(values) = encode(m[<<DOMAIN K, 0>>])
    BY <1>3
  <1>5. K[index + 1] = Nibbles(key) /\ index + 1 \in DOMAIN K
    <2>1. (index + 1) - 1 = index
      OBVIOUS
    <2>. QED
      BY <1>2, <2>1 DEF Key
  <1>6. key \in Seq(Byte)
    BY <1>1, KeyBytes
  <1>. DEFINE q == Nibbles(key)
  <1>7. keybytesToHex(key) = Rest(q, 0)
    <2>1. keybytesToHex(key) = Append(q, 16)
      BY DEF keybytesToHex
    <2>2. q \in Seq(Nibble)
      BY <1>6, NibblesType
    <2>. HIDE DEF q
    <2>3. SubSeq(q, 0 + 1, Len(q)) = q
      BY <2>2, SubSeqFull
    <2>4. 0 \in 0..Len(q)
      BY <2>2
    <2>5. Append(SubSeq(q, 0 + 1, Len(q)), 16) = Rest(q, 0)
      BY <2>2, <2>4, RestIs
    <2>. QED
      BY <2>1, <2>3, <2>5
  <1>8. BuildProof(values, index) = collectProof(TrieOf(values), q)
    BY DEF BuildProof, GenerateProof
  <1>. HIDE DEF q, key
  <1>. DEFINE nodes == collectProof(m[<<DOMAIN K, 0>>], K[index + 1])
  <1>9. /\ IsSequence(nodes)
        /\ values[index + 1].size <= MaxItemSize =>
               VerifyProof(encode(m[<<DOMAIN K, 0>>]), key, NodesRead(nodes))
                   = <<values[index + 1]>>
    <2>1. keybytesToHex(key) = Rest(K[index + 1], 0)
      BY <1>5, <1>7 DEF q
    <2>2. \A i \in DOMAIN K : values[i].size \in Nat
      BY <1>2
    <2>. QED
      BY <1>3, <1>4, <1>5, <2>1, <2>2, GeneratedVerifies
  <1>10. BuildProof(values, index) = nodes
    BY <1>4, <1>5, <1>8 DEF q
  <1>. HIDE DEF nodes
  <1>. QED
    BY <1>4, <1>9, <1>10 DEF key, RLPEncodeKey


(***************************************************************************)
(* What the monitor submits.                                               *)
(***************************************************************************)
TxValues(b) == [i \in DOMAIN b |-> L1Raw(b[i].tx)]
ReceiptValues(b) == [i \in DOMAIN b |-> EncodeReceipt(b[i].receipt)]

EthProof(b, index) ==
    [kind |-> "eth", index |-> index, log |-> 0,
     raw |-> L1Raw(b[index + 1].tx), nodes |-> BuildProof(TxValues(b), index)]
Erc20Proof(b, index, log) ==
    [kind |-> "erc20", index |-> index, log |-> log,
     raw |-> EncodeReceipt(b[index + 1].receipt), nodes |-> BuildProof(ReceiptValues(b), index)]

\* The proofs for an index of a block.
LEMMA BlockProofs ==
    ASSUME NEW b \in Blocks, NEW index \in Nat, index + 1 \in DOMAIN b
    PROVE  /\ IsSequence(BuildProof(TxValues(b), index))
           /\ IsSequence(BuildProof(ReceiptValues(b), index))
           /\ L1Raw(b[index + 1].tx).size <= MaxItemSize =>
                  Proven(Root(TxValues(b)), EthProof(b, index))
           /\ \A log : EncodeReceipt(b[index + 1].receipt).size <= MaxItemSize =>
                  Proven(Root(ReceiptValues(b)), Erc20Proof(b, index, log))
  <1>. DEFINE n == Len(b)
              txs == TxValues(b)
              receipts == ReceiptValues(b)
  <1>1. n \in Nat /\ n <= Word /\ DOMAIN b = 1..n
    BY EvidenceAssumption DEF IsSequence
  <1>2. /\ DOMAIN txs = 1..n /\ txs[index + 1] = L1Raw(b[index + 1].tx)
        /\ \A i \in DOMAIN txs : txs[i].size \in Nat
    BY <1>1, SizesAssumption DEF TxValues
  <1>3. /\ DOMAIN receipts = 1..n /\ receipts[index + 1] = EncodeReceipt(b[index + 1].receipt)
        /\ \A i \in DOMAIN receipts : receipts[i].size \in Nat
    BY <1>1, SizesAssumption DEF ReceiptValues
  <1>. HIDE DEF n, txs, receipts
  <1>4. /\ IsSequence(BuildProof(txs, index))
        /\ txs[index + 1].size <= MaxItemSize =>
               VerifyProof(Root(txs), RLPEncodeKey(index), NodesRead(BuildProof(txs, index)))
                   = <<txs[index + 1]>>
    BY <1>1, <1>2, BuiltVerifies
  <1>5. /\ IsSequence(BuildProof(receipts, index))
        /\ receipts[index + 1].size <= MaxItemSize =>
               VerifyProof(Root(receipts), RLPEncodeKey(index),
                           NodesRead(BuildProof(receipts, index)))
                   = <<receipts[index + 1]>>
    BY <1>1, <1>3, BuiltVerifies
  <1>6. /\ EthProof(b, index).index = index /\ EthProof(b, index).raw = txs[index + 1]
        /\ EthProof(b, index).nodes = BuildProof(txs, index)
    BY <1>2 DEF EthProof, txs
  <1>7. \A log : /\ Erc20Proof(b, index, log).index = index
                 /\ Erc20Proof(b, index, log).raw = receipts[index + 1]
                 /\ Erc20Proof(b, index, log).nodes = BuildProof(receipts, index)
    BY <1>3 DEF Erc20Proof, receipts
  <1>8. txs[index + 1].size <= MaxItemSize => Proven(Root(txs), EthProof(b, index))
    BY <1>4, <1>6, Zenon DEF Proven
  <1>9. \A log : receipts[index + 1].size <= MaxItemSize =>
                     Proven(Root(receipts), Erc20Proof(b, index, log))
    BY <1>5, <1>7, Zenon DEF Proven
  <1>. QED
    BY <1>2, <1>3, <1>4, <1>5, <1>8, <1>9, Zenon DEF txs, receipts

\* VerifyETHDeposit accepts a proof for a deposit.
LEMMA EthProofAccepted ==
    ASSUME block \in Blocks, header = RootsOf(block), NEW index \in Nat,
           index + 1 \in DOMAIN block, DepositTx(block[index + 1].tx)
    PROVE  VerifyETHDeposit(EthProof(block, index)) # << >>
  <1>. DEFINE tx == block[index + 1].tx
              m == EthProof(block, index)
              parsed == parseTransaction(m.raw)
  <1>1. Proven(header.transactions, m)
    <2>1. header.transactions = Root(TxValues(block))
      BY DEF RootsOf, TxValues
    <2>2. L1Raw(tx).size <= MaxItemSize
      BY DEF DepositTx
    <2>. QED
      BY <2>1, <2>2, BlockProofs
  <1>2. m.raw = L1Raw(tx)
    BY DEF EthProof
  <1>3. IsTransaction(tx)
    BY EvidenceAssumption
  <1>4. tx.to = Vault /\ tx.chain = ChainId /\ (tx.type = 2 \/ (tx.type = 0 /\ tx.protected))
    BY DEF DepositTx
  <1>5. AsAddress(String(Vault)) = Vault
    <2>1. Vault \in Address
      BY EvidenceAssumption
    <2>. QED
      BY <2>1, AddressRead
  <1>. HIDE DEF m, tx, parsed
  <1>6. Parses(m.raw) /\ parsed.chain = ChainId /\ parsed.to = Vault
    <2>1. CASE tx.type = 2
      <3>1. L1Raw(tx).type = 2 /\ Len(L1Raw(tx).item.children) = 12
        BY <2>1, Raw2
      <3>2. parsed.chain = tx.chain /\ parsed.to = AsAddress(String(tx.to))
        BY <1>2, <1>3, <2>1, Read2 DEF parsed
      <3>3. Parses(m.raw)
        BY <1>2, <3>1 DEF Parses
      <3>. QED
        BY <1>4, <1>5, <3>2, <3>3
    <2>2. CASE tx.type = 0 /\ tx.protected
      <3>1. L1Raw(tx).type = 0 /\ Len(L1Raw(tx).item.children) = 9
        BY <2>2, Raw0
      <3>2. parsed.chain = (IF tx.protected THEN tx.chain ELSE 0)
            /\ parsed.to = AsAddress(String(tx.to))
        BY <1>2, <1>3, <2>2, Read0 DEF parsed
      <3>3. Parses(m.raw)
        BY <1>2, <3>1 DEF Parses
      <3>. QED
        BY <1>4, <1>5, <2>2, <3>2, <3>3
    <2>. QED
      BY <1>4, <2>1, <2>2
  <1>7. VerifyETHDeposit(m) = <<[from |-> RecoveredSender(m.raw),
                                 amount |-> AsBigInt(parsed.value)]>>
    BY <1>1, <1>6 DEF VerifyETHDeposit, parsed
  <1>. QED
    BY <1>7 DEF m

\* VerifyERC20Deposit accepts a proof for a deposit.
LEMMA Erc20ProofAccepted ==
    ASSUME block \in Blocks, header = RootsOf(block), NEW index \in Nat,
           index + 1 \in DOMAIN block, NEW at \in Nat, DepositLog(block[index + 1].receipt, at)
    PROVE  VerifyERC20Deposit(Erc20Proof(block, index, at)) # << >>
  <1>. DEFINE r == block[index + 1].receipt
              l == r.logs[at + 1]
              m == Erc20Proof(block, index, at)
              logs == parseReceiptLogs(m.raw)
              log == logs[m.log + 1]
  <1>1. Proven(header.receipts, m)
    <2>1. header.receipts = Root(ReceiptValues(block))
      BY DEF RootsOf, ReceiptValues
    <2>2. EncodeReceipt(r).size <= MaxItemSize
      BY DEF DepositLog
    <2>. QED
      BY <2>1, <2>2, BlockProofs
  <1>2. m.raw = EncodeReceipt(r) /\ m.log = at
    BY DEF Erc20Proof
  <1>3. IsReceipt(r)
    BY EvidenceAssumption
  <1>4. at + 1 \in DOMAIN r.logs /\ l.address = Token /\ Len(l.topics) = 3
        /\ l.topics[1] = TransferEventSig /\ l.topics[3] = Padded(Vault)
        /\ AddressOf(l.topics[2]) # ZeroAddress
    BY DEF DepositLog
  <1>. HIDE DEF m, r, logs
  <1>5. /\ Len(logs) = Len(r.logs)
        /\ \A i \in DOMAIN r.logs : /\ logs[i].address = r.logs[i].address
                                    /\ logs[i].topics = r.logs[i].topics
    BY <1>2, <1>3, LogsRead DEF logs
  <1>6. log.address = l.address /\ log.topics = l.topics
    BY <1>2, <1>4, <1>5
  <1>7. m.log < Len(logs)
    <2>1. DOMAIN r.logs = 1..Len(r.logs) /\ Len(r.logs) \in Nat
      BY <1>3 DEF IsReceipt, IsSequence
    <2>. QED
      BY <1>2, <1>4, <1>5, <2>1
  <1>. HIDE DEF l, log
  <1>8. Len(log.topics) >= 3
    BY <1>4, <1>6
  <1>9. VerifyERC20Deposit(m) = <<[from |-> AddressOf(log.topics[2]),
                                   amount |-> AsBigInt(log.data)]>>
    BY <1>1, <1>4, <1>6, <1>7, <1>8, Zenon DEF VerifyERC20Deposit, log, logs
  <1>. QED
    BY <1>9 DEF m


(***************************************************************************)
(* The specification.  An unchanged message is the monitor's: that is what *)
(* makes the property inductive, since a change counts.                    *)
(***************************************************************************)
FromMonitor(b, m) ==
    \E index \in Positions :
        /\ index + 1 \in DOMAIN b
        /\ m = EthProof(b, index) \/ \E log \in Nat : m = Erc20Proof(b, index, log)

\* It has the fields of a message, whatever they hold.
Fields == {"kind", "index", "log", "raw", "nodes"}

IInv ==
    /\ block \in Blocks /\ header = RootsOf(block)
    /\ IsMessage(message) /\ DOMAIN message = Fields
    /\ changes \in Nat
    /\ changes = 0 => message = NoMessage \/ FromMonitor(block, message)

\* NoMessage would pass for a message.
LEMMA NoMessageIs == IsMessage(NoMessage) /\ DOMAIN NoMessage = Fields
  <1>1. 0 \in 0..Word - 1 /\ 0 \in Nat
    BY TransactionsAssumption
  <1>2. IsSequence(<< >>)
    BY DEF IsSequence
  <1>3. NoMessage.index = 0 /\ NoMessage.log = 0 /\ NoMessage.nodes = << >>
    BY DEF NoMessage
  <1>4. IsMessage(NoMessage)
    BY <1>1, <1>2, <1>3 DEF IsMessage
  <1>5. DOMAIN NoMessage = Fields
    BY DEF NoMessage, Fields
  <1>. QED
    BY <1>4, <1>5

LEMMA InitIInv == Init => IInv
  BY NoMessageIs DEF Init, IInv

\* A message of the monitor's.
LEMMA FromMonitorIs ==
    ASSUME NEW b \in Blocks, NEW m, FromMonitor(b, m)
    PROVE  IsMessage(m) /\ DOMAIN m = Fields
  <1>1. PICK index \in Positions :
            /\ index + 1 \in DOMAIN b
            /\ m = EthProof(b, index) \/ \E log \in Nat : m = Erc20Proof(b, index, log)
    BY DEF FromMonitor
  <1>2. index \in 0..Word - 1 /\ index \in Nat /\ 0 \in Nat
    BY RelayAssumption, TransactionsAssumption
  <1>3. IsSequence(BuildProof(TxValues(b), index)) /\ IsSequence(BuildProof(ReceiptValues(b), index))
    BY <1>1, <1>2, BlockProofs
  <1>4. CASE m = EthProof(b, index)
    <2>1. m.index = index /\ m.log = 0 /\ m.nodes = BuildProof(TxValues(b), index)
      BY <1>4 DEF EthProof
    <2>2. DOMAIN m = Fields
      BY <1>4 DEF EthProof, Fields
    <2>. QED
      BY <1>2, <1>3, <2>1, <2>2 DEF IsMessage
  <1>5. ASSUME NEW log \in Nat, m = Erc20Proof(b, index, log)
        PROVE  IsMessage(m) /\ DOMAIN m = Fields
    <2>1. m.index = index /\ m.log = log /\ m.nodes = BuildProof(ReceiptValues(b), index)
      BY <1>5 DEF Erc20Proof
    <2>2. DOMAIN m = Fields
      BY <1>5 DEF Erc20Proof, Fields
    <2>. QED
      BY <1>2, <1>3, <1>5, <2>1, <2>2 DEF IsMessage
  <1>. QED
    BY <1>1, <1>4, <1>5

\* ProveTx makes one: reported or encoded, the bytes are L1's.
LEMMA ProveTxStep == ASSUME IInv, ProveTx PROVE IInv'
  <1>1. PICK index \in Positions : \E reported \in BOOLEAN :
            LET raws == [i \in DOMAIN block |->
                            IF reported THEN L1Raw(block[i].tx) ELSE EncodeTx(block[i].tx)]
            IN  /\ index + 1 \in DOMAIN block
                /\ message' = [kind |-> "eth", index |-> index, log |-> 0,
                               raw |-> raws[index + 1], nodes |-> BuildProof(raws, index)]
    BY DEF ProveTx
  <1>2. PICK reported \in BOOLEAN :
            LET raws == [i \in DOMAIN block |->
                            IF reported THEN L1Raw(block[i].tx) ELSE EncodeTx(block[i].tx)]
            IN  /\ index + 1 \in DOMAIN block
                /\ message' = [kind |-> "eth", index |-> index, log |-> 0,
                               raw |-> raws[index + 1], nodes |-> BuildProof(raws, index)]
    BY <1>1
  <1>. DEFINE raws == [i \in DOMAIN block |->
                          IF reported THEN L1Raw(block[i].tx) ELSE EncodeTx(block[i].tx)]
  <1>3. block \in Blocks /\ UNCHANGED <<block, header, changes>>
    BY DEF IInv, ProveTx
  <1>4. \A i \in DOMAIN block : EncodeTx(block[i].tx) = L1Raw(block[i].tx)
    <2>1. \A i \in DOMAIN block : IsTransaction(block[i].tx)
      BY <1>3, EvidenceAssumption
    <2>. QED
      BY <2>1, TxEncoded
  <1>5. raws = TxValues(block)
    BY <1>4 DEF TxValues
  <1>6. index + 1 \in DOMAIN block
        /\ message' = [kind |-> "eth", index |-> index, log |-> 0,
                       raw |-> raws[index + 1], nodes |-> BuildProof(raws, index)]
    BY <1>2, Zenon
  <1>. HIDE DEF raws
  <1>7. raws[index + 1] = L1Raw(block[index + 1].tx)
    BY <1>5, <1>6 DEF TxValues
  <1>8. message' = EthProof(block, index)
    BY <1>5, <1>6, <1>7, Zenon DEF EthProof
  <1>9. FromMonitor(block, message')
    BY <1>6, <1>8 DEF FromMonitor
  <1>10. IsMessage(message') /\ DOMAIN message' = Fields
    BY <1>3, <1>9, FromMonitorIs
  <1>. QED
    BY <1>3, <1>9, <1>10 DEF IInv, IsMessage

\* So does ProveReceipt.
LEMMA ProveReceiptStep == ASSUME IInv, ProveReceipt PROVE IInv'
  <1>. DEFINE raws == [i \in DOMAIN block |-> EncodeReceipt(block[i].receipt)]
  <1>1. PICK index \in Positions : \E log \in 0..2 :
            /\ index + 1 \in DOMAIN block
            /\ message' = [kind |-> "erc20", index |-> index, log |-> log,
                           raw |-> raws[index + 1], nodes |-> BuildProof(raws, index)]
    BY DEF ProveReceipt
  <1>2. PICK log \in 0..2 :
            /\ index + 1 \in DOMAIN block
            /\ message' = [kind |-> "erc20", index |-> index, log |-> log,
                           raw |-> raws[index + 1], nodes |-> BuildProof(raws, index)]
    BY <1>1
  <1>3. block \in Blocks /\ UNCHANGED <<block, header, changes>>
    BY DEF IInv, ProveReceipt
  <1>4. raws = ReceiptValues(block) /\ raws[index + 1] = EncodeReceipt(block[index + 1].receipt)
    BY <1>2 DEF ReceiptValues
  <1>. HIDE DEF raws
  <1>5. message' = Erc20Proof(block, index, log)
    BY <1>2, <1>4, Zenon DEF Erc20Proof
  <1>6. FromMonitor(block, message')
    <2>1. log \in Nat
      OBVIOUS
    <2>. QED
      BY <1>2, <1>5, <2>1 DEF FromMonitor
  <1>7. IsMessage(message') /\ DOMAIN message' = Fields
    BY <1>3, <1>6, FromMonitorIs
  <1>. QED
    BY <1>3, <1>6, <1>7 DEF IInv, IsMessage

\* A change to a message counts.
LEMMA ChangeStep ==
    ASSUME IInv, NEW m, IsMessage(m), DOMAIN m = Fields, Change(m)
    PROVE  IInv'
  <1>1. changes' = changes + 1 /\ message' = m /\ UNCHANGED <<block, header>> /\ changes \in Nat
    BY DEF Change, IInv
  <1>2. changes' \in Nat /\ changes' # 0
    BY <1>1
  <1>. QED
    BY <1>1, <1>2 DEF IInv, IsMessage

\* Sequences of nodes, whatever is done to them.
LEMMA ChangedNodes ==
    ASSUME NEW s, IsSequence(s)
    PROVE  /\ \A k \in DOMAIN s : IsSequence(RemoveAt(s, k))
           /\ IsSequence(Reverse(s))
           /\ \A k \in DOMAIN s : \A x : IsSequence(ReplaceAt(s, k, x))
  <1>1. s \in Seq(ToSet(s)) /\ Len(s) \in Nat /\ DOMAIN s = 1..Len(s)
    BY DEF IsSequence
  <1>2. ASSUME NEW n \in Nat, NEW t, t = [k \in 1..n |-> t[k]]
        PROVE  IsSequence(t)
    <2>1. \A k \in 1..n : t[k] \in ToSet(t)
      BY <1>2 DEF ToSet
    <2>2. t \in Seq(ToSet(t))
      <3>. DEFINE S == ToSet(t)
      <3>. HIDE DEF S
      <3>1. t \in [1..n -> S]
        BY <1>2, <2>1 DEF S
      <3>2. Seq(S) = UNION {[1..k -> S] : k \in Nat}
        BY SeqDef
      <3>3. t \in Seq(S)
        BY <3>1, <3>2
      <3>. QED
        BY <3>3 DEF S
    <2>. QED
      BY <2>2 DEF IsSequence
  <1>3. ASSUME NEW k \in DOMAIN s PROVE IsSequence(RemoveAt(s, k))
    <2>. DEFINE a == SubSeq(s, 1, k - 1)
                b == SubSeq(s, k + 1, Len(s))
                S == ToSet(s)
    <2>1. s \in Seq(S) /\ k \in 1..Len(s) /\ Len(s) \in Nat
      BY <1>1
    <2>. HIDE DEF S
    <2>2. a \in Seq(S) /\ b \in Seq(S)
      BY <2>1
    <2>. HIDE DEF a, b
    <2>3. a \o b \in Seq(S)
      BY <2>2
    <2>. DEFINE c == a \o b
    <2>. HIDE DEF c
    <2>4. c \in Seq(S)
      BY <2>3 DEF c
    <2>5. Len(c) \in Nat /\ c = [n \in 1..Len(c) |-> c[n]]
      BY <2>4
    <2>6. IsSequence(c)
      BY <1>2, <2>5
    <2>. QED
      BY <2>6 DEF RemoveAt, a, b, c
  <1>4. IsSequence(Reverse(s))
    <2>. DEFINE t == Reverse(s)
    <2>1. t = [n \in 1..Len(s) |-> t[n]]
      BY DEF Reverse
    <2>. HIDE DEF t
    <2>2. IsSequence(t)
      BY <1>1, <1>2, <2>1
    <2>. QED
      BY <2>2 DEF t
  <1>5. ASSUME NEW k \in DOMAIN s, NEW x PROVE IsSequence(ReplaceAt(s, k, x))
    <2>. DEFINE t == ReplaceAt(s, k, x)
    <2>1. t = [n \in 1..Len(s) |-> t[n]]
      BY <1>1 DEF ReplaceAt
    <2>. HIDE DEF t
    <2>2. IsSequence(t)
      BY <1>1, <1>2, <2>1
    <2>. QED
      BY <2>2 DEF t
  <1>. QED
    BY <1>3, <1>4, <1>5


\* No change leaves what a message is.
LEMMA ChangedStep ==
    ASSUME IInv, LoseNode \/ ReorderNodes \/ ForeignNode \/ ForeignRaw \/ OtherIndex
    PROVE  IInv'
  <1>1. /\ message.index \in 0..Word - 1 /\ message.log \in Nat /\ IsSequence(message.nodes)
        /\ DOMAIN message = Fields
    BY DEF IInv, IsMessage
  <1>2. ASSUME NEW s, IsSequence(s), Change([message EXCEPT !.nodes = s]) PROVE IInv'
    <2>. DEFINE m == [message EXCEPT !.nodes = s]
    <2>1. DOMAIN m = Fields /\ m.index = message.index /\ m.log = message.log /\ m.nodes = s
      BY <1>1 DEF Fields
    <2>2. Change(m)
      BY <1>2
    <2>. HIDE DEF m
    <2>3. IsMessage(m)
      BY <1>1, <1>2, <2>1 DEF IsMessage
    <2>. QED
      BY <2>1, <2>2, <2>3, ChangeStep
  <1>3. CASE LoseNode
    <2>1. PICK k \in DOMAIN message.nodes :
              Change([message EXCEPT !.nodes = RemoveAt(message.nodes, k)])
      BY <1>3 DEF LoseNode
    <2>2. IsSequence(RemoveAt(message.nodes, k))
      BY <1>1, ChangedNodes
    <2>. QED
      BY <1>2, <2>1, <2>2
  <1>4. CASE ReorderNodes
    <2>1. Change([message EXCEPT !.nodes = Reverse(message.nodes)])
      BY <1>4 DEF ReorderNodes
    <2>2. IsSequence(Reverse(message.nodes))
      BY <1>1, ChangedNodes
    <2>. QED
      BY <1>2, <2>1, <2>2
  <1>5. CASE ForeignNode
    <2>1. PICK k \in DOMAIN message.nodes, tx \in Unmined :
              Change([message EXCEPT
                  !.nodes = ReplaceAt(message.nodes, k,
                      encode(Leaf(Nibbles(RLPEncodeKey(message.index)), L1Raw(tx))))])
      BY <1>5 DEF ForeignNode
    <2>. DEFINE x == encode(Leaf(Nibbles(RLPEncodeKey(message.index)), L1Raw(tx)))
    <2>2. Change([message EXCEPT !.nodes = ReplaceAt(message.nodes, k, x)])
      BY <2>1
    <2>. HIDE DEF x
    <2>3. IsSequence(ReplaceAt(message.nodes, k, x))
      BY <1>1, ChangedNodes
    <2>. QED
      BY <1>2, <2>2, <2>3
  <1>6. CASE ForeignRaw
    <2>1. PICK tx \in Unmined : Change([message EXCEPT !.raw = L1Raw(tx)])
      BY <1>6 DEF ForeignRaw
    <2>. DEFINE raw == L1Raw(tx)
                m == [message EXCEPT !.raw = raw]
    <2>. HIDE DEF raw
    <2>2. /\ DOMAIN m = Fields /\ m.index = message.index /\ m.log = message.log
          /\ m.nodes = message.nodes
      BY <1>1 DEF Fields
    <2>3. Change(m)
      BY <2>1 DEF raw
    <2>. HIDE DEF m
    <2>4. IsMessage(m)
      BY <1>1, <2>2 DEF IsMessage
    <2>. QED
      BY <2>2, <2>3, <2>4, ChangeStep
  <1>7. CASE OtherIndex
    <2>1. PICK index \in Positions : Change([message EXCEPT !.index = index])
      BY <1>7 DEF OtherIndex
    <2>. DEFINE m == [message EXCEPT !.index = index]
    <2>2. /\ DOMAIN m = Fields /\ m.index = index /\ m.log = message.log
          /\ m.nodes = message.nodes
      BY <1>1 DEF Fields
    <2>3. Change(m) /\ index \in 0..Word - 1
      BY <2>1, RelayAssumption
    <2>. HIDE DEF m
    <2>4. IsMessage(m)
      BY <1>1, <2>2, <2>3 DEF IsMessage
    <2>. QED
      BY <2>2, <2>3, <2>4, ChangeStep
  <1>. QED
    BY <1>3, <1>4, <1>5, <1>6, <1>7

LEMMA IInvStep == IInv /\ [Next]_vars => IInv'
  <1>. SUFFICES ASSUME IInv, [Next]_vars PROVE IInv'
    OBVIOUS
  <1>1. CASE ProveTx
    BY <1>1, ProveTxStep
  <1>2. CASE ProveReceipt
    BY <1>2, ProveReceiptStep
  <1>3. CASE LoseNode \/ ReorderNodes \/ ForeignNode \/ ForeignRaw \/ OtherIndex
    BY <1>3, ChangedStep
  <1>4. CASE UNCHANGED vars
    BY <1>4 DEF vars, IInv, IsMessage
  <1>. QED
    BY <1>1, <1>2, <1>3, <1>4 DEF Next

LEMMA AlwaysIInv == Spec => []IInv
  BY InitIInv, IInvStep, PTL DEF Spec

\* A message of the monitor's for a deposit is accepted, and what is accepted is
\* what L1 saw.
LEMMA IInvAccepts == IInv => ProvedIsAccepted
  <1>. DEFINE m == message
              entry == block[m.index + 1]
  <1>. SUFFICES ASSUME IInv, m # NoMessage, changes = 0, IsDeposit(entry, m)
                PROVE  Verify(m) = <<PaidBy(entry, m)>>
    BY DEF ProvedIsAccepted
  <1>1. block \in Blocks /\ header = RootsOf(block) /\ IsMessage(m) /\ FromMonitor(block, m)
    BY DEF IInv
  <1>2. PICK index \in Positions :
            /\ index + 1 \in DOMAIN block
            /\ m = EthProof(block, index) \/ \E log \in Nat : m = Erc20Proof(block, index, log)
    BY <1>1 DEF FromMonitor
  <1>3. index \in Nat
    BY RelayAssumption, TransactionsAssumption
  <1>4. Verify(m) # << >>
    <2>1. CASE m = EthProof(block, index)
      <3>1. m.kind = "eth" /\ m.index = index
        BY <2>1 DEF EthProof
      <3>2. DepositTx(block[index + 1].tx)
        BY <3>1 DEF IsDeposit
      <3>3. VerifyETHDeposit(EthProof(block, index)) # << >>
        BY <1>1, <1>2, <1>3, <3>2, EthProofAccepted
      <3>4. Verify(m) = VerifyETHDeposit(m)
        BY <3>1 DEF Verify
      <3>. QED
        BY <2>1, <3>3, <3>4
    <2>2. ASSUME NEW log \in Nat, m = Erc20Proof(block, index, log) PROVE Verify(m) # << >>
      <3>1. m.kind = "erc20" /\ m.index = index /\ m.log = log
        BY <2>2 DEF Erc20Proof
      <3>2. DepositLog(block[index + 1].receipt, log)
        BY <3>1 DEF IsDeposit
      <3>3. VerifyERC20Deposit(Erc20Proof(block, index, log)) # << >>
        BY <1>1, <1>2, <1>3, <2>2, <3>2, Erc20ProofAccepted
      <3>4. Verify(m) = VerifyERC20Deposit(m)
        BY <3>1 DEF Verify
      <3>. QED
        BY <2>2, <3>3, <3>4
    <2>. QED
      BY <1>2, <2>1, <2>2
  <1>5. AcceptedIsOnChain
    BY <1>1, SubmittableAccepts DEF Submittable, Submitted
  <1>. QED
    BY <1>4, <1>5 DEF AcceptedIsOnChain

\* What the monitor submits for a deposit in any block is accepted, as L1 saw it:
\* whatever the trie, the index and the transaction.
THEOREM ProofsAccepted == Spec => []ProvedIsAccepted
  BY AlwaysIInv, IInvAccepts, PTL

\* Whatever becomes of the monitor's messages on the way, they are among the
\* submissions of Evidence: what is proved there holds of them.
LEMMA StepSubmits == IInv /\ IInv' /\ [Next]_vars => [Submit]_<<block, header, message>>
  <1>. SUFFICES ASSUME IInv', [Next]_vars PROVE [Submit]_<<block, header, message>>
    OBVIOUS
  <1>1. IsMessage(message')
    BY DEF IInv, IsMessage
  <1>2. UNCHANGED <<block, header>>
    BY DEF Next, vars, ProveTx, ProveReceipt, LoseNode, ReorderNodes, ForeignNode, ForeignRaw,
           OtherIndex, Change
  <1>. QED
    BY <1>1, <1>2 DEF Submit

\* The detailed specification implements the abstract one: with the submissions of
\* Evidence, the relay's messages are in their initial state and take their steps.
THEOREM RelayImplementsSubmissions == Spec => Submissions
  <1>1. Init => block \in Blocks /\ header = RootsOf(block) /\ message = NoMessage
    BY DEF Init
  <1>. QED
    BY <1>1, AlwaysIInv, StepSubmits, PTL DEF Spec, Submissions

\* What is accepted of the relay's messages is on chain, however they were changed.
THEOREM RelayedOnChain == Spec => []AcceptedIsOnChain
  BY RelayImplementsSubmissions, SubmissionsOnChain, PTL

\* And its blocks' withdrawals are read back as they were signed.
THEOREM RelayedReadBack == Spec => []WithdrawalReadBack
  BY RelayImplementsSubmissions, WithdrawalsReadBack, PTL
=============================================================================
