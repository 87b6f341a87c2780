-------------------------- MODULE RelayRefinement --------------------------
(***************************************************************************)
(* How Relay implements RelayContract: a call takes effect when the chain  *)
(* executes its transaction.                                               *)
(***************************************************************************)
EXTENDS Relay

\* How far a call has come, and what the contract sees of it.
Stage(s, t) ==
  IF s.pc \in Finished \cup {"none"} THEN s.pc
  ELSE IF t = "executed" THEN "applied" ELSE "open"

Request(s, t) == [op |-> s.op, amount |-> s.amount, stage |-> Stage(s, t)]

Contract ==
  INSTANCE RelayContract WITH req <- [c \in Calls |-> Request(call[c], tx[c])]

\* An app that awaits each call, in an installation where no answer about a posted
\* transaction is lost and each transaction is mined, sees the contract: in particular
\* no account is dusted twice and what returns has happened.
ContractHolds == Contract!Spec

=============================================================================
