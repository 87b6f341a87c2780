------------------------------ MODULE MCRelay ------------------------------
(* Instances of Relay for TLC, and the properties its runs check.           *)
EXTENDS RelayRefinement, TLC

CONSTANTS a1, a2

\* The details the app builds name the first account.
MCFrom == [d \in Details |-> a1]

Environment(ops, serial, reuse, faults) ==
  [ops |-> ops, serial |-> serial, reuse |-> reuse, faults |-> faults]

\* The methods that make the transaction for the wallet they find.
Made == {"claimRly", "transfer", "transferExact"}

\* Two calls at once, and anything may fail.
Concurrent ==
  {Environment({"claimRly", "transferExact"}, FALSE, FALSE,
               {"read", "reply", "poll", "switch"}),
   Environment({"transferExact", "relay"}, FALSE, TRUE, {"drop", "reject", "rotate"}),
   Environment({"transfer", "simpleTransfer"}, FALSE, FALSE, {"switch", "return"})}

\* Calls one at a time; what has become of a posted transaction is always told.
Awaited ==
  {Environment({"claimRly", "transferExact", "relay"}, TRUE, FALSE,
               {"read", "reject", "switch"})}

\* Calls one at a time, and nothing fails.
Untroubled == {Environment({"claimRly", "transfer"}, TRUE, FALSE, {})}

Serial == Awaited \cup Untroubled

Symmetry == Permutations(Calls) \cup Permutations(Workers) \cup Permutations(Details)

-----------------------------------------------------------------------------
\* Every call returns or throws, as long as each transaction is mined: the receipt is
\* polled for without end.
EveryCallEnds == \A c \in Calls : Active(c) ~> ~Active(c)

=============================================================================
