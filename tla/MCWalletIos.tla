---------------------------- MODULE MCWalletIos ----------------------------
(* Instances of WalletIos for TLC, and the properties its runs check.       *)
EXTENDS WalletIos, TLC

\* rejectOnCloudSaveFailure is not looked at on iOS.
CloudOnly == {[saveToCloud |-> TRUE, rejectOnCloudSaveFailure |-> TRUE]}
DeviceOnly == {[saveToCloud |-> FALSE, rejectOnCloudSaveFailure |-> FALSE]}

Environment(ops, serial, configs, faults) ==
  [ops |-> ops, serial |-> serial, configs |-> configs, faults |-> faults]

\* Concurrent calls of any kind, and anything may fail but a write.
AnyFault ==
  {Environment(Operations, FALSE, CloudOnly \cup DeviceOnly,
               {"read", "delete", "random", "sync", "kill"})}

\* Concurrent calls and one item, with which the cache must agree.
OneItemDevices ==
  LET ops == {"createWallet", "importExistingWallet", "getWallet", "getAccountPhrase"} IN
  {Environment(ops, FALSE, configs, {"read", "kill"}) : configs \in {CloudOnly, DeviceOnly}}

\* Concurrent moves, and reads and deletes that fail.
ConcurrentMoves ==
  {Environment({"createWallet", "getWallet", "updateWalletStorage"}, FALSE,
               CloudOnly \cup DeviceOnly, {"read", "delete", "kill"})}

\* Moves one at a time, with restarts.
Moves ==
  {Environment({"createWallet", "importExistingWallet", "getWallet", "updateWalletStorage"},
               TRUE, CloudOnly \cup DeviceOnly, {"kill"})}

Installations == AnyFault \cup OneItemDevices \cup ConcurrentMoves \cup Moves

\* Where the contract holds: one item, and a keychain that works.
ContractDevices ==
  {Environment(Operations, TRUE, configs, {"kill"}) : configs \in {CloudOnly, DeviceOnly}}

\* Two calls at once, and nothing fails.
DoubleTap == {Environment({"createWallet"}, FALSE, CloudOnly, {})}

\* A keychain that may refuse an item.
WritesFail ==
  {Environment({"createWallet", "updateWalletStorage"}, TRUE, CloudOnly \cup DeviceOnly,
               {"write"})}

CallSymmetry == Permutations(Calls)

-----------------------------------------------------------------------------
\* A wallet that is the only one ever stored is in one of the two items at every
\* moment while nothing deletes it, even where the keychain may refuse an item.
NeverLost ==
  [][\A m \in Mnemonics :
       everStored' = {m} /\ m \in {icloud, device} => m \in {icloud', device'}]_vars

\* The documentation: a wallet is replaced only by a call told to overwrite
\* (wallet_manager.dart:23).
ReplacePromise == [][NoSilentReplace]_vars

-----------------------------------------------------------------------------
\* Every call returns or throws.
EveryCallEnds == \A c \in Calls : Active(c) ~> ~Active(c)

=============================================================================
