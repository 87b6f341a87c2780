--------------------------- MODULE RelayContract ---------------------------
(***************************************************************************)
(* What an app that awaits each call may expect of NetworkImpl: a claim,   *)
(* transfer or relayed transaction takes effect at one point, after which  *)
(* the call returns, or the call throws and has had no effect.  A claim    *)
(* takes effect for an account without tokens, a transfer for one that has *)
(* enough of them.                                                         *)
(***************************************************************************)
EXTENDS Naturals

CONSTANTS Calls, Accounts, Dust

VARIABLES
  balance,  \* the tokens of each account
  req       \* each call: its method, its amount and how far it has come

cvars == <<balance, req>>

Init ==
  /\ balance \in [Accounts -> Nat]
  /\ \A c \in Calls : req[c].stage = "none"

Stage(c, from, to) ==
  /\ req[c].stage = from
  /\ req' = [req EXCEPT ![c].stage = to]

Call(c) ==
  /\ req[c].stage = "none"
  /\ \E r \in {req'[c]} :
       r.stage = "open" /\ req' = [req EXCEPT ![c] = r]
  /\ UNCHANGED balance

Claim(c) ==
  /\ Stage(c, "open", "applied")
  /\ req[c].op = "claimRly"
  /\ \E a \in Accounts : balance[a] = 0 /\ balance' = [balance EXCEPT ![a] = Dust]

Transfer(c) ==
  /\ Stage(c, "open", "applied")
  /\ req[c].op \in {"transfer", "transferExact"}
  /\ \E a \in Accounts :
       /\ req[c].amount <= balance[a]
       /\ balance' = [balance EXCEPT ![a] = @ - req[c].amount]

Relay(c) ==
  /\ Stage(c, "open", "applied")
  /\ req[c].op = "relay"
  /\ UNCHANGED balance

Return(c) == Stage(c, "applied", "returned") /\ UNCHANGED balance

Throw(c) == Stage(c, "open", "threw") /\ UNCHANGED balance

Next ==
  \E c \in Calls :
    Call(c) \/ Claim(c) \/ Transfer(c) \/ Relay(c) \/ Return(c) \/ Throw(c)

Spec == Init /\ [][Next]_cvars

=============================================================================
