-------------------------- MODULE MCProviderRestore --------------------------
\* Two restores with overlapping payloads, over every initial content of the files.
EXTENDS ProviderRestore
CONSTANTS a1, a2, f1, f2
MCPayload == [a \in Attempts |-> IF a = a1 THEN <<f1, f2>> ELSE <<f2>>]
MCOrder == <<"filesystem", "memory", "application">>
MCOffers == {1 .. 3}
==============================================================================
