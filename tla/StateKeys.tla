----------------------------- MODULE StateKeys -----------------------------
(***************************************************************************)
(* The keys of balances and allowances in the contract's state             *)
(* (contract/mapping/balance.go): names joined with a '-' that nothing     *)
(* escapes.  A name is a sequence of characters.                           *)
(*                                                                         *)
(* Callers are the host's: a domain ("hive:", "did:", "contract:", one     *)
(* character here), then a name, which may hold a '-'.  What they name,    *)
(* asset, recipient, spender or owner, is any text: HandleTransfer,        *)
(* HandleTransferFrom and HandleApprove check none of it.  Symbols of the  *)
(* registry are the administrator's, and taken to hold no '-'.             *)
(***************************************************************************)
EXTENDS Integers, Sequences

CONSTANTS
    Letters, Domains,   \* the characters of names other than '-'
    MaxName             \* bound of this instance: characters of a name

VARIABLE named      \* a caller and what it names, nothing more happens to them

Dash == "-"

ASSUME StateKeysAssumption ==
    /\ Dash \notin Letters \cup Domains
    /\ Letters \cap Domains = {}
    /\ MaxName \in Nat

Chars == Letters \cup Domains \cup {Dash}

\* The prefixes: BalancePrefix and AllowancePrefix.
BalancePrefix == <<"a", Dash>>
AllowancePrefix == <<"q", Dash>>

balanceKey(address, asset) == BalancePrefix \o (address \o (<<Dash>> \o asset))

\* mutant: spender and asset are joined without the delimiter
allowanceKeyJoined(owner, spender, asset) ==
    AllowancePrefix \o (owner \o (<<Dash>> \o (spender \o asset)))

allowanceKey(owner, spender, asset) ==
    AllowancePrefix \o (owner \o (<<Dash>> \o (spender \o (<<Dash>> \o asset))))

Names == UNION {[1..n -> Chars] : n \in 0..MaxName}
Symbols == {name \in Names : \A i \in DOMAIN name : name[i] \in Letters}
Accounts ==
    {name \in Names :
        /\ name # << >>
        /\ name[1] \in Domains
        /\ \A i \in 2..Len(name) : name[i] \notin Domains}

\* other is the spender of an approve and the owner of a transferFrom.
Named == [caller : Accounts, other : Names, asset : Names]

\* What account o has after u and a '-', if it begins so.
PartAfter(u, o) == SubSeq(o, Len(u) + 2, Len(o))
Begins(u, o) == o = u \o (<<Dash>> \o PartAfter(u, o))

\* u with an asset is o with a symbol: the same, or the rest of o's name stands
\* in front of the symbol.
Reaches(u, asset, o, symbol) ==
    \/ u = o /\ asset = symbol
    \/ Begins(u, o) /\ asset = PartAfter(u, o) \o (<<Dash>> \o symbol)

\* Which keys of an account a caller's words can make: hive:abc with the asset
\* def-eth makes the balance of hive:abc-def (it does reach another's), and only
\* accounts whose names its own begins at a '-' are within reach so.  approve
\* writes no allowance but of those; transferFrom reads the allowance of the
\* very owner it names, given to one of those; and no balance is an allowance.
KeysReachOnlyExtensions ==
    \A owner \in Accounts, symbol \in Symbols :
        /\ \A u \in {named.caller, named.other} :
              balanceKey(u, named.asset) = balanceKey(owner, symbol)
                  <=> Reaches(u, named.asset, owner, symbol)
        /\ \A spender \in Accounts :
              LET held == allowanceKey(owner, spender, symbol)
              IN  /\ allowanceKey(named.caller, named.other, named.asset) = held
                         => named.caller = owner \/ Begins(named.caller, owner)
                  /\ allowanceKey(named.other, named.caller, named.asset) = held
                         <=> /\ named.other = owner
                             /\ Reaches(named.caller, named.asset, spender, symbol)
                  /\ balanceKey(named.other, named.asset) # held
=============================================================================
