--------------------------- MODULE MCWalletAndroid ---------------------------
(* Instances of WalletAndroid for TLC, and the properties its runs check.     *)
EXTENDS WalletAndroid, TLC

CloudOnly == {[saveToCloud |-> TRUE, rejectOnCloudSaveFailure |-> TRUE]}
DeviceOnly == {[saveToCloud |-> FALSE, rejectOnCloudSaveFailure |-> FALSE]}

Environment(ops, serial, configs, faults) ==
  [ops |-> ops, serial |-> serial, configs |-> configs, faults |-> faults]

\* Concurrent moves, and anything may fail but the write of the preferences' file.
AnyFault ==
  {Environment({"createWallet", "getWallet", "updateWalletStorage"}, FALSE, StorageConfig,
               {"retrieve", "store", "delete", "reorder", "kill", "restore"})}

\* Concurrent calls and one store, with which the cache must agree.
OneStoreDevices ==
  LET ops == {"createWallet", "importExistingWallet", "getWallet", "getAccountPhrase"} IN
  {Environment(ops, FALSE, CloudOnly, {"retrieve", "store", "kill"}),
   Environment(ops, FALSE, DeviceOnly, {"retrieve", "reorder", "kill"})}

\* All storage settings in any order, one call at a time, and stores that fail.
Moves ==
  {Environment({"createWallet", "importExistingWallet", "getWallet", "updateWalletStorage"},
               TRUE, StorageConfig, {"store"})}

Installations == AnyFault \cup OneStoreDevices \cup Moves

\* Where the contract holds: Block Store answers, or is not used.
ContractDevices ==
  {Environment(Operations, TRUE, CloudOnly, {"store"}),
   Environment(Operations, TRUE, DeviceOnly, {"retrieve", "delete", "reorder", "kill"})}

Reliable(ops) == {Environment(ops, TRUE, CloudOnly \cup DeviceOnly, {})}
Creates == Reliable({"createWallet", "getWallet"})
Imports == Reliable({"importExistingWallet"})

CallSymmetry == Permutations(Calls)

-----------------------------------------------------------------------------
\* The documentation: an overwriting call leaves its wallet stored
\* (wallet_manager.dart:24).
OverwritePromise == [][OverwriteTakesEffect]_vars

\* Every call returns or throws.
EveryCallEnds == \A c \in Calls : Active(c) ~> ~Active(c)

=============================================================================
