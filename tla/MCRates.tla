-------------------------------- MODULE MCRates --------------------------------
(* Small instances of Rates for TLC. *)
EXTENDS Rates

CONSTANTS us, ng, USD, NGN

\* Two countries, each with a currency of its own.
MCCurrency == [c \in {us, ng} |-> IF c = ng THEN NGN ELSE USD]

\* No quotes: instances and refreshes only.
NoPairs == {}

\* The pair of the Nigerian wallets.
OnePair == {<<NGN, USD>>}

=============================================================================
