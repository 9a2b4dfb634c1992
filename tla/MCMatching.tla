----------------------------- MODULE MCMatching -----------------------------
(***************************************************************************)
(* Instances of Matching for TLC.                                           *)
(***************************************************************************)
EXTENDS Matching, TLC

CONSTANTS r1, r2, r3, usd, eur

T(a, d, c, r) == [amount |-> a, date |-> d, currency |-> c, ref |-> r]

\* One transaction and its variations: amounts one, two, three and four cents
\* apart and dates one to four days apart, with and without a reference, and
\* another currency.
MCTxns == {T(10, 0, usd, r1), T(10, 0, usd, r2), T(11, 1, usd, r1), T(10, 3, usd, r2),
           T(10, 4, usd, Blank), T(13, 0, usd, Blank), T(10, 0, eur, r1),
           T(12, 4, usd, r3), T(9, 0, usd, Blank)}

\* Its counterparty reads like an instruction.
MCSuspicious == {T(9, 0, usd, Blank)}

\* Just under the floor, at it, and above it by less than the rounding.
MCRatio == [p \in Refs \X Refs |->
               CASE p[1] = p[2]     -> 100000
                 [] p = <<r2, r1>>  -> 79999
                 [] p = <<r1, r2>>  -> 80000
                 [] OTHER           -> 80001]
=============================================================================
