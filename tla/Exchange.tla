------------------------------ MODULE Exchange ------------------------------
(***************************************************************************)
(* The money arithmetic of wallets.service.ts and countries.service.ts.    *)
(*                                                                         *)
(* Amounts are integers of the lowest denomination, but for that of a BUY, *)
(* which need not be whole (trade-currency.dto.ts).  A rate is a positive  *)
(* ratio [num, den]: currencyapi values are decimals, and a cross rate is  *)
(* the quotient of two of them (countries.service.ts:131).  The code       *)
(* computes with IEEE doubles, so where the exact value lies on a boundary *)
(* (a half for toFixed and Math.round, an integer for Math.ceil) either    *)
(* neighbour can come out.  The operators therefore yield the SET of the   *)
(* results a double computation can give.                                  *)
(***************************************************************************)
EXTENDS Integers

\* A positive exchange rate; convertCurrency refuses the others.
IsRate(rate) == rate.num \in Nat \ {0} /\ rate.den \in Nat \ {0}

\* The amount of a BUY, a number from 0.01 that need not be whole, as a ratio.
IsAmount(amount) ==
    amount.num \in Nat \ {0} /\ amount.den \in Nat \ {0} /\ 100 * amount.num >= amount.den

\* The rate of a currency against itself.
Par == [num |-> 1, den |-> 1]

\* What amount units of the source currency are worth in the target currency:
\* Math.round(+(amount / 100 * rate).toFixed(2) * 100), the integers nearest to
\* amount * rate.
ConvertedAmounts(amount, rate) ==
    {k \in 0 .. amount * rate.num + 1 :
        /\ 2 * k * rate.den <= 2 * amount * rate.num + rate.den
        /\ 2 * k * rate.den >= 2 * amount * rate.num - rate.den}

\* What a BUY of amount, a ratio, of the base currency costs in the quote currency:
\* Math.ceil(amount / exchange_rate), so 1 for any amount worth less.
BuyCosts(amount, rate) ==
    {k \in 0 .. amount.num * rate.den + 1 :
        /\ k * (rate.num * amount.den) >= amount.num * rate.den
        /\ k * (rate.num * amount.den) <= amount.num * rate.den + rate.num * amount.den}

=============================================================================
