--------------------------- MODULE WalletContract ---------------------------
(***************************************************************************)
(* What an app that awaits each call of WalletManager can count on: one    *)
(* wallet, or none, and calls that take effect at one point between their  *)
(* start and their end, or throw and have no effect.  It stands for the    *)
(* documentation of lib/src/wallet_manager.dart; WalletAndroid and         *)
(* WalletIos implement it under the conditions their runs name.            *)
(***************************************************************************)
CONSTANTS Calls, Phrases, NoMnemonic

VARIABLES
  wallet,  \* the wallet of this device
  req      \* the calls: operation, stage, overwrite flag, and result

contractVars == <<wallet, req>>

Saving == {"createWallet", "importExistingWallet"}
Reading == {"getWallet", "getAccountPhrase"}
ContractOps == Saving \cup Reading \cup
  {"updateWalletStorage", "permanentlyDeleteWallet", "walletEligibleForCloudSync"}

Over == {"returned", "threw"}

Init ==
  /\ wallet = NoMnemonic
  /\ req = [c \in Calls |-> [op |-> "none", stage |-> "returned",
                             overwrite |-> FALSE, val |-> NoMnemonic]]

\* The app awaits each call: c is free and no other call runs.
Free == \A c \in Calls : req[c].stage \in Over

Set(c, op, stage, overwrite, val) ==
  req' = [req EXCEPT ![c] = [op |-> op, stage |-> stage,
                             overwrite |-> overwrite, val |-> val]]

End(c, stage, val) == Set(c, req[c].op, stage, FALSE, val)

Invoke(c) ==
  /\ Free
  /\ \E op \in ContractOps, overwrite \in BOOLEAN : Set(c, op, "open", overwrite, NoMnemonic)
  /\ UNCHANGED wallet

Open(c, ops) == req[c].stage = "open" /\ req[c].op \in ops

\* A wallet is put in place of none, or of another when told to overwrite it.
Put(c) ==
  /\ Open(c, Saving)
  /\ wallet = NoMnemonic \/ req[c].overwrite
  /\ \E m \in Phrases :
       /\ wallet' = m
       /\ Set(c, req[c].op, "applied", req[c].overwrite, m)

Remove(c) ==
  /\ Open(c, {"permanentlyDeleteWallet"})
  /\ wallet' = NoMnemonic
  /\ Set(c, req[c].op, "applied", FALSE, NoMnemonic)

\* The wallet returned is the one put, nothing for a delete.
ReturnApplied(c) ==
  /\ req[c].stage = "applied"
  /\ End(c, "returned", req[c].val)
  /\ UNCHANGED wallet

ReturnRead(c) ==
  /\ Open(c, Reading)
  /\ End(c, "returned", wallet)
  /\ UNCHANGED wallet

ReturnEligible(c) ==
  /\ Open(c, {"walletEligibleForCloudSync"})
  /\ \E eligible \in BOOLEAN :
       /\ eligible => wallet # NoMnemonic
       /\ End(c, "returned", eligible)
  /\ UNCHANGED wallet

ReturnUpdated(c) ==
  /\ Open(c, {"updateWalletStorage"})
  /\ wallet # NoMnemonic
  /\ End(c, "returned", NoMnemonic)
  /\ UNCHANGED wallet

\* Only a call that stores a phrase may throw, and it has then stored nothing.
Throw(c) ==
  /\ Open(c, Saving \cup {"updateWalletStorage"})
  /\ End(c, "threw", NoMnemonic)
  /\ UNCHANGED wallet

\* A call that ends before it awaits anything: getWallet from the cache, an import
\* where a wallet exists.
AtOnce(c) ==
  /\ Free
  /\ \/ Set(c, "getWallet", "returned", FALSE, wallet)
     \/ wallet # NoMnemonic /\ Set(c, "importExistingWallet", "threw", FALSE, NoMnemonic)
  /\ UNCHANGED wallet

\* The process ends; what the calls under way have done is done.
Crash ==
  /\ req' = [c \in Calls |-> [op |-> "none", stage |-> "returned",
                              overwrite |-> FALSE, val |-> NoMnemonic]]
  /\ UNCHANGED wallet

Next ==
  \/ \E c \in Calls :
       \/ Invoke(c)
       \/ Put(c)
       \/ Remove(c)
       \/ ReturnApplied(c)
       \/ ReturnRead(c)
       \/ ReturnEligible(c)
       \/ ReturnUpdated(c)
       \/ Throw(c)
       \/ AtOnce(c)
  \/ Crash

Spec == Init /\ [][Next]_contractVars

=============================================================================
