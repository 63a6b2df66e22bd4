----------------------------- MODULE MoneyLedger ------------------------------
(***************************************************************************)
(* What a caller does with an amount over several calls: divides, splits   *)
(* and allocates what is in its purse, resolves the obligations that       *)
(* leaves, in any order, and adds amounts up again.                        *)
(*                                                                         *)
(* Money is Copy; the caller of this module spends an amount once, and     *)
(* hands the quotient of a division by n to n payees. A behaviour makes    *)
(* one call of MoneyCalls, or funds a purse.                               *)
(***************************************************************************)
EXTENDS MoneyCalls

CONSTANTS
    Counts,       \* the numbers of parts asked for
    PurseWeights, \* the weights allocated by
    MaxPurse,     \* bound: amounts in the purse
    MaxOpened     \* bound: obligations opened

ASSUME LedgerAssumption ==
    /\ Counts \subseteq Divisors /\ PurseWeights \subseteq Slices
    /\ MaxPurse \in Nat /\ MaxOpened \in Nat

VARIABLES
    purse,   \* the amounts held
    open,    \* the obligations held: divisions, residues and half-consumed splits
    opened,  \* how many were opened
    posted,  \* units of residues posted in the ledger
    lost     \* units given up on purpose

ledger     == <<purse, open, opened, posted, lost>>
ledgerVars == <<args, result, ledger>>

LedgerInit == Init /\ purse = <<>> /\ open = <<>> /\ opened = 0 /\ posted = 0 /\ lost = 0

Funded == args.op = "ledger"

Fund ==
    /\ Idle
    /\ \E a \in Units :
         /\ Call([op |-> "ledger", a |-> a], TryFromUnits(a))
         /\ purse' = IF InDomain(a) THEN <<a>> ELSE <<>>
    /\ UNCHANGED <<open, opened, posted, lost>>

Spend(i, obligation) ==
    /\ opened < MaxOpened
    /\ purse' = RemoveAt(purse, i)
    /\ open' = Append(open, obligation)
    /\ opened' = opened + 1
    /\ UNCHANGED <<args, result, posted, lost>>

\* Hand out amounts and put what is left of obligation k, if anything, in its place.
Resolve(k, amounts, left) ==
    /\ Len(purse) + Len(amounts) =< MaxPurse
    /\ purse' = purse \o amounts
    /\ open' = IF left = {} THEN RemoveAt(open, k) ELSE [open EXCEPT ![k] = CHOOSE o \in left : TRUE]
    /\ UNCHANGED <<args, result, opened>>

-----------------------------------------------------------------------------
(* Division *)

Divide ==
    \E i \in DOMAIN purse, n \in Counts, mode \in Modes :
      LET d == DivIntUnits(purse[i], n, mode) IN
      /\ d.tag = "Ok"
      /\ Spend(i, [kind |-> "division", of |-> purse[i], n |-> n,
                   quotient |-> d.value.quotient, residue |-> d.value.residue])

Shares(o) == [j \in 1 .. o.n |-> o.quotient]

Divisions == {k \in DOMAIN open : open[k].kind = "division"}
Residues  == {k \in DOMAIN open : open[k].kind = "residue"}
Splits    == {k \in DOMAIN open : open[k].kind = "split"}

TakeResidue ==
    /\ \E k \in Divisions :
         Resolve(k, Shares(open[k]), {[kind |-> "residue", units |-> open[k].residue]})
    /\ UNCHANGED <<posted, lost>>

DiscardDivision ==
    \E k \in Divisions :
      /\ Resolve(k, Shares(open[k]), {})
      /\ lost' = lost + open[k].residue /\ UNCHANGED posted

\* An undecided division handed nothing out: the caller still has the amount.
DropDivision ==
    /\ \E k \in Divisions : Resolve(k, <<open[k].of>>, {})
    /\ UNCHANGED <<posted, lost>>

PostResidue ==
    \E k \in Residues :
      /\ Resolve(k, <<>>, {})
      /\ posted' = posted + open[k].units /\ UNCHANGED lost

DiscardResidue ==
    \E k \in Residues :
      /\ Resolve(k, <<>>, {})
      /\ lost' = lost + open[k].units /\ UNCHANGED posted

-----------------------------------------------------------------------------
(* Splitting and allocation *)

OpenSplit ==
    \E i \in DOMAIN purse, n \in Counts :
      Spend(i, [kind |-> "split", of |-> purse[i], parts |-> Split(purse[i], n), next |-> 0,
                count |-> n])

NextPart ==
    /\ \E k \in Splits :
         LET o == open[k] IN
         /\ o.next < o.count
         /\ Resolve(k, <<PartAt(o.parts, o.next)>>, {[o EXCEPT !.next = o.next + 1]})
    /\ UNCHANGED <<posted, lost>>

\* The iterator answers None, and goes on answering None.
NoPart ==
    /\ \E k \in Splits : open[k].next >= open[k].count /\ Resolve(k, <<>>, {})
    /\ UNCHANGED <<posted, lost>>

\* Mutant: a clone starts over.
AheadFromStart(o) == [j \in 1 .. o.count |-> PartAt(o.parts, j - 1)]

\* What a clone of the cursor would still hand out.
Ahead(o) == [j \in 1 .. o.count - o.next |-> PartAt(o.parts, o.next + j - 1)]

\* The caller stops half-way and keeps what a clone of the cursor adds up to.
StopSplit ==
    /\ \E k \in Splits :
         LET rest == SumUnits(Ahead(open[k])) IN
         open[k].next < open[k].count /\ rest.tag = "Ok" /\ Resolve(k, <<rest.value>>, {})
    /\ UNCHANGED <<posted, lost>>

\* split_collect: the whole split at once, unless its memory is refused.
CollectSplit ==
    /\ \E k \in Splits : open[k].next = 0 /\ Resolve(k, Ahead(open[k]), {})
    /\ UNCHANGED <<posted, lost>>

Allocate ==
    \E i \in DOMAIN purse, w \in PurseWeights :
      LET parts == AllocateMoney(purse[i], w) IN
      /\ parts.tag = "Ok"
      /\ Len(purse) - 1 + Len(w) =< MaxPurse
      /\ opened < MaxOpened /\ opened' = opened + 1
      /\ purse' = RemoveAt(purse, i) \o parts.value
      /\ UNCHANGED <<args, result, open, posted, lost>>

-----------------------------------------------------------------------------
(* Adding up *)

\* + and +=: a sum that is no money panics and leaves both amounts.
AddAmounts ==
    \E i, j \in DOMAIN purse :
      LET sum == TryAdd(purse[i], purse[j]) IN
      /\ i < j /\ sum.tag = "Ok"
      /\ purse' = RemoveAt([purse EXCEPT ![i] = sum.value], j)
      /\ UNCHANGED <<args, result, open, opened, posted, lost>>

\* try_sum over everything held.
SumPurse ==
    LET total == SumUnits(purse) IN
    /\ Funded /\ total.tag = "Ok"
    /\ purse' = <<total.value>>
    /\ UNCHANGED <<args, result, open, opened, posted, lost>>

Obligations ==
    \/ Divide \/ TakeResidue \/ DiscardDivision \/ DropDivision \/ PostResidue \/ DiscardResidue
    \/ OpenSplit \/ NextPart \/ NoPart \/ StopSplit \/ CollectSplit \/ Allocate
    \/ AddAmounts \/ SumPurse

LedgerNext ==
    \/ Next /\ UNCHANGED ledger
    \/ Fund
    \/ Obligations

LedgerSpec == LedgerInit /\ [][LedgerNext]_ledgerVars

-----------------------------------------------------------------------------
(* Properties *)

\* What obligation o still owes its holder.
Owed(o) ==
    CASE o.kind = "division" -> o.of
      [] o.kind = "residue"  -> o.units
      [] o.kind = "split"    -> SumOf(Ahead(o))

\* No sequence of divisions, splits, allocations and sums makes or loses a unit:
\* the purse, what is owed, what was posted and what was given up by name add up to
\* the amount funded, and everything held is money (arithmetic/typed.rs:106-118,
\* allocation/split.rs:27-30, residue/obligation.rs:8-11).
Conserved ==
    Funded /\ (\E r \in result : r.tag = "Ok") =>
      /\ SumOf(purse) + SumOf([k \in DOMAIN open |-> Owed(open[k])]) + posted + lost = args.a
      /\ \A i \in DOMAIN purse : purse[i] \in Money
      /\ \A k \in Residues : open[k].units \in Money

=============================================================================
