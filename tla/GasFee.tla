------------------------------- MODULE GasFee -------------------------------
(***************************************************************************)
(* safeGasFee (contract/mapping/balance.go): the price per gas of a        *)
(* withdrawal, a uint64 that must not wrap, and its fee, which is exact.   *)
(***************************************************************************)
EXTENDS Integers

CONSTANT MaxUint64      \* 2^64 - 1

VARIABLE call       \* what safeGasFee is called with, nothing more happens to it

ASSUME GasFeeAssumption == MaxUint64 \in Nat /\ MaxUint64 >= 3

Uint64 == 0..MaxUint64
Wrap(n) == n % (MaxUint64 + 1)

\* The headroom for the base fee: the unmaps take 2, replaceWithdrawal 3.
Multipliers == {2, 3}

Overflow == [ok |-> FALSE, cap |-> 0, fee |-> 0]

\* mutant: only the sum is checked for having wrapped
safeGasFeeSumOnly(gasUnits, baseFeePerGas, multiplier, gasTipCap) ==
    LET scaled == Wrap(baseFeePerGas * multiplier)
        gasFeeCap == Wrap(scaled + gasTipCap)
    IN  IF gasFeeCap < scaled THEN Overflow
        ELSE [ok |-> TRUE, cap |-> gasFeeCap, fee |-> gasUnits * gasFeeCap]

safeGasFee(gasUnits, baseFeePerGas, multiplier, gasTipCap) ==
    LET scaled == Wrap(baseFeePerGas * multiplier)
        gasFeeCap == Wrap(scaled + gasTipCap)
    IN  IF \/ baseFeePerGas # 0 /\ multiplier # 0 /\ scaled \div multiplier # baseFeePerGas
           \/ gasFeeCap < scaled
        THEN Overflow
        ELSE [ok |-> TRUE, cap |-> gasFeeCap, fee |-> gasUnits * gasFeeCap]

Price(base, multiplier, tip) == base * multiplier + tip

Calls ==
    [gasUnits : Uint64, baseFeePerGas : Uint64, multiplier : Multipliers, gasTipCap : Uint64]

\* Every input whose price fits is priced exactly, and every other refused: a
\* product that wraps back above the base fee, or a sum that wraps, is found.
FeeCapExact ==
    LET price == Price(call.baseFeePerGas, call.multiplier, call.gasTipCap)
    IN  safeGasFee(call.gasUnits, call.baseFeePerGas, call.multiplier, call.gasTipCap) =
            IF price <= MaxUint64
            THEN [ok |-> TRUE, cap |-> price, fee |-> call.gasUnits * price]
            ELSE Overflow
=============================================================================
