---------------------------- MODULE MCEncodings ----------------------------
(***************************************************************************)
(* Small instances of the encodings for TLC.  Sizes are scaled down: two   *)
(* bytes to an int and to an address, three to r, s and a topic, 60 to a   *)
(* readable string; the 32 bytes of a hash and the 20 nodes of a proof are *)
(* the code's own.                                                         *)
(***************************************************************************)
EXTENDS ProofRelay, Codec, GasFee, StateKeys, TLC

Bytes(n) == [i \in 1..n |-> 200]

vault == <<0, 7>>
other == <<9, 9>>
token == <<1, 2>>
transferSig == <<221, 242, 82>>

Access == List(<<List(<<String(other), List(<<String(Bytes(3)), String(<<0, 0, 1>>)>>)>>)>>)

\* A payment to the vault, and the ways others differ from it.
Payment ==
    [type |-> 2, chain |-> 5, protected |-> TRUE, nonce |-> 0, gasPrice |-> 3, tipCap |-> 1,
     feeCap |-> 300, gas |-> 21000, to |-> vault, value |-> 1000, data |-> << >>,
     accessList |-> List(<< >>), blob |-> << >>, parity |-> 0, r |-> 70000, s |-> 16777215]

Txs == {
    Payment,
    [Payment EXCEPT !.value = 0, !.data = Bytes(20), !.parity = 1, !.r = 255],
    [Payment EXCEPT !.value = 128, !.r = 5, !.s = 256],
    [Payment EXCEPT !.accessList = Access, !.chain = 200],
    [Payment EXCEPT !.accessList = Access],
    [Payment EXCEPT !.data = Bytes(34), !.nonce = 256],
    [Payment EXCEPT !.data = Bytes(33)],
    [Payment EXCEPT !.data = Bytes(60)],
    [Payment EXCEPT !.to = << >>, !.data = <<0>>],
    [Payment EXCEPT !.to = other],
    [Payment EXCEPT !.type = 0],
    [Payment EXCEPT !.type = 0, !.data = Bytes(16), !.parity = 1, !.r = 255],
    [Payment EXCEPT !.type = 0, !.chain = 4],
    [Payment EXCEPT !.type = 0, !.protected = FALSE],
    [Payment EXCEPT !.type = 1, !.accessList = Access],
    [Payment EXCEPT !.type = 3, !.blob = <<Number(1), List(<<String(Bytes(3))>>)>>],
    [Payment EXCEPT !.type = 4, !.blob = <<List(<< >>)>>]}

\* A transfer log to the vault, and the ways others differ from it.
Transfer ==
    [address |-> token, topics |-> <<transferSig, <<0, 9, 9>>, <<0, 0, 7>>>>,
     data |-> <<0, 1, 44>>]
Approval == [Transfer EXCEPT !.topics = <<Bytes(3), <<0, 9, 9>>, <<0, 0, 7>>>>]
Anonymous == [Transfer EXCEPT !.topics = << >>]
Mint == [Transfer EXCEPT !.topics[2] = <<0, 0, 0>>]
Elsewhere == [Transfer EXCEPT !.topics[3] = <<0, 9, 9>>]
OtherToken == [Transfer EXCEPT !.address = other]

Receipt(type, logs) ==
    [type |-> type, status |-> 1, cumulativeGas |-> 21000, bloom |-> <<0>>, logs |-> logs]
ReceiptsOfInterest == {
    Receipt(0, << >>),
    Receipt(2, <<Transfer>>),
    Receipt(0, <<Anonymous, Transfer>>),
    Receipt(1, <<Elsewhere, Mint>>),
    Receipt(3, <<OtherToken, Transfer>>),
    Receipt(4, <<Approval, Transfer>>),
    Receipt(2, <<Transfer, Transfer, Transfer>>)}

Plain == [tx |-> [Payment EXCEPT !.to = other, !.data = Bytes(12)],
          receipt |-> Receipt(2, <<Elsewhere>>)]

\* Blocks of n with one entry of interest at position i.
Placed(n, i, entries) == {[j \in 1..n |-> IF j = i THEN e ELSE Plain] : e \in entries}
OfTx == {[Plain EXCEPT !.tx = tx] : tx \in Txs}
OfReceipt == {[Plain EXCEPT !.receipt = r] : r \in ReceiptsOfInterest}
Long == {[tx |-> Payment, receipt |-> Receipt(0, <<Anonymous, Transfer>>)]}

SmallBlocks == Placed(1, 1, OfTx \cup OfReceipt) \cup Placed(3, 2, OfTx \cup OfReceipt)
LongBlocks == UNION {Placed(17, i, Long) : i \in {1, 16, 17}}
              \cup UNION {Placed(130, i, Long) : i \in {1, 2, 128, 129, 130}}
AlteredBlocks ==
    LET entry == [tx |-> Payment, receipt |-> Receipt(2, <<Transfer>>)]
    IN  Placed(1, 1, {entry}) \cup Placed(3, 2, {entry}) \cup Placed(2, 1, OfTx)
AllBlocks == SmallBlocks \cup LongBlocks \cup AlteredBlocks \cup {<<Plain>>}

\* The last makes a leaf shorter than a hash.
Forged == {
    [Payment EXCEPT !.nonce = 1],
    [Payment EXCEPT !.value = 2, !.data = Bytes(25)],
    [Payment EXCEPT !.feeCap = 1, !.gas = 1, !.r = 5, !.s = 6]}

(***************************************************************************)
(* The codec: strings and lists about the lengths 1, 55, 56 and the limit, *)
(* lists about the nesting limit, every string of up to three bytes that   *)
(* the decoder tells apart, and encodings with a byte changed or added.    *)
(***************************************************************************)
RECURSIVE Nested(_)
Nested(n) == IF n = 0 THEN List(<< >>) ELSE List(<<Nested(n - 1)>>)

Strings ==
    {String(b) : b \in {<< >>, <<0>>, <<127>>, <<128>>, <<1, 2>>}
                       \cup {Bytes(n) : n \in {54, 55, 56, 57, 60, 61}}}
SomeItems ==
    Strings \cup {List(<<a, b>>) : a \in Strings, b \in Strings \cup {List(<< >>)}}
    \cup {Nested(n) : n \in 0..22}

Edges == {0, 1, 127, 128, 129, 130, 183, 184, 185, 191, 192, 193, 194, 247, 248, 249, 255}
SomeBytes ==
    UNION {[1..n -> Edges] : n \in 0..3}
    \cup {ReplaceAt(reencodeItem(item), k, b) :
             item \in {String(Bytes(56)), List(<<String(Bytes(55))>>), Nested(3),
                       List(<<String(Bytes(56)), String(<<200>>)>>)},
             k \in 1..5, b \in Edges}
    \cup {<<185, 0, n>> \o Bytes(n) : n \in 54..60}     \* a length field with a zero in front

(***************************************************************************)
(* Evidence, codec, fees and keys share no state: a behaviour is of one.   *)
(***************************************************************************)
ACall == [gasUnits |-> 0, baseFeePerGas |-> 0, multiplier |-> 2, gasTipCap |-> 0]
SomeNames == [caller |-> <<":">>, other |-> <<":">>, asset |-> <<"a">>]
PlainRoots == RootsOf(<<Plain>>)

\* No evidence is on its way.
Quiet ==
    /\ block = <<Plain>>
    /\ header = PlainRoots
    /\ message = NoMessage
    /\ changes = 0

MCInit ==
    \/ Init /\ input = Nothing /\ call = ACall /\ named = SomeNames
    \/ input \in Given /\ Quiet /\ call = ACall /\ named = SomeNames
    \/ call \in Calls /\ Quiet /\ input = Nothing /\ named = SomeNames
    \/ named \in Named /\ Quiet /\ input = Nothing /\ call = ACall

\* Calls and names are given to functions; only evidence takes steps.
MCNext ==
    /\ input = Nothing /\ call = ACall /\ named = SomeNames
    /\ Next
    /\ UNCHANGED <<input, call, named>>

MCSpec == MCInit /\ [][MCNext]_<<vars, input, call, named>>
=============================================================================
