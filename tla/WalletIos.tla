----------------------------- MODULE WalletIos -----------------------------
(***************************************************************************)
(* The wallet on iOS: WalletManager over FlutterSdkPlugin.swift,           *)
(* RlyNetworkMobileSdk.swift and KeyChainHelper.swift.                     *)
(*                                                                         *)
(* The keychain holds two items of the same name: the synchronizable one   *)
(* (icloud), which iCloud copies to the user's devices, and the one of     *)
(* this device (device).  A handler runs to its end on the main thread and *)
(* replies before it returns; the status of every keychain call but the    *)
(* duplicate-item one is ignored.                                          *)
(***************************************************************************)
EXTENDS WalletManager

CONSTANT
  Failure   \* the string "failure", which the handlers return as a phrase

\* What may go wrong in an environment.
FaultKinds ==
  {"write",   \* SecItemAdd or SecItemUpdate may fail
   "read",    \* SecItemCopyMatching may fail
   "delete",  \* SecItemDelete may fail
   "random",  \* SecRandomCopyBytes may fail
   "sync",    \* iCloud may bring another device's item, or its removal
   "kill"}    \* the app's process may end at any time

ASSUME PlatformAssumption ==
  /\ \A e \in Environments : e.faults \subseteq FaultKinds
  /\ (\E e \in Environments : "random" \in e.faults) => Failure \in Invalid

VARIABLES
  icloud,      \* the phrase of the synchronizable item
  device,      \* the phrase of the device's item
  everStored   \* history: the phrases either item has ever held

iosVars == <<icloud, device, everStored>>
vars == <<dartVars, iosVars>>

TypeOK ==
  /\ DartTypeOK
  /\ icloud \in Mnemonics \cup {NoMnemonic}
  /\ device \in Mnemonics \cup {NoMnemonic}
  /\ everStored \subseteq Mnemonics

Init ==
  /\ DartInit
  /\ icloud = NoMnemonic
  /\ device = NoMnemonic
  /\ everStored = {}

-----------------------------------------------------------------------------
(* KeychainHelper.                                                         *)

\* An item after a call that is to leave it at m, and that may fail.
Outcomes(item, m, fault) == IF fault \in env.faults THEN {m, item} ELSE {m}

saveToiCloudKeychain(m) == icloud' \in Outcomes(icloud, m, "write") /\ UNCHANGED device

saveToDeviceKeychain(m) == device' \in Outcomes(device, m, "write") /\ UNCHANGED icloud

deleteFromiCloudKeychain == icloud' \in Outcomes(icloud, NoMnemonic, "delete")

deleteFromDeviceKeychain == device' \in Outcomes(device, NoMnemonic, "delete")

\* What reading an item may find.
Found(item) == IF "read" \in env.faults THEN {item, NoMnemonic} ELSE {item}

\* The iCloud item has precedence.
Read == {IF c # NoMnemonic THEN c ELSE d : c \in Found(icloud), d \in Found(device)}

-----------------------------------------------------------------------------
(* The handlers of FlutterSdkPlugin.                                       *)

\* generateMnemonic returns the string "failure" when it gets no random bytes.
GenerateNewMnemonic(c) ==
  /\ Requested(c, "generateNewMnemonic")
  /\ \/ \E m \in fresh : Draw(c, m)
     \/ "random" \in env.faults /\ Reply(c, TRUE, Failure) /\ UNCHANGED fresh
  /\ UNCHANGED <<cachedWallet, iosVars>>

\* For an invalid phrase the reply is "failure" where Dart expects a list of
\* bytes: invokeMethod throws a type error, as for an error reply.
GetPrivateKeyFromMnemonic(c) ==
  /\ Requested(c, "getPrivateKeyFromMnemonic")
  /\ Reply(c, KeyPhrase(c) \notin Invalid, NoMnemonic)
  /\ UNCHANGED <<cachedWallet, fresh, iosVars>>

\* Mutant: getMnemonic answers as mnemonicBackedUpToCloud does.
AnswerPresence(c) ==
  /\ Requested(c, "getMnemonic")
  /\ \E m \in Read : Reply(c, TRUE, m # NoMnemonic)
  /\ UNCHANGED <<cachedWallet, fresh, iosVars>>

GetMnemonic(c) ==
  /\ Requested(c, "getMnemonic")
  /\ \E m \in Read : Reply(c, TRUE, m)
  /\ UNCHANGED <<cachedWallet, fresh, iosVars>>

MnemonicBackedUpToCloud(c) ==
  /\ Requested(c, "mnemonicBackedUpToCloud")
  /\ \E m \in Found(icloud) : Reply(c, TRUE, m # NoMnemonic)
  /\ UNCHANGED <<cachedWallet, fresh, iosVars>>

\* Mutant: a device-only save is reported and not made.
SaveMnemonicInCloudOnly(c) ==
  /\ Requested(c, "saveMnemonic")
  /\ IF call[c].cfg.saveToCloud
     THEN saveToiCloudKeychain(call[c].m)
     ELSE UNCHANGED <<icloud, device>>
  /\ everStored' = everStored \cup ({icloud', device'} \cap Mnemonics)
  /\ Reply(c, TRUE, TRUE)
  /\ UNCHANGED <<cachedWallet, fresh>>

\* Mutant: a device-only save gives no result.
SaveMnemonicSilent(c) ==
  /\ Requested(c, "saveMnemonic")
  /\ IF call[c].cfg.saveToCloud
     THEN saveToiCloudKeychain(call[c].m) /\ Reply(c, TRUE, TRUE)
     ELSE saveToDeviceKeychain(call[c].m) /\ Hold(c)
  /\ everStored' = everStored \cup ({icloud', device'} \cap Mnemonics)
  /\ UNCHANGED <<cachedWallet, fresh>>

\* Neither checks the phrase nor looks at rejectOnCloudSaveFailure: always true.
SaveMnemonic(c) ==
  /\ Requested(c, "saveMnemonic")
  /\ IF call[c].cfg.saveToCloud
     THEN saveToiCloudKeychain(call[c].m)
     ELSE saveToDeviceKeychain(call[c].m)
  /\ everStored' = everStored \cup ({icloud', device'} \cap Mnemonics)
  /\ Reply(c, TRUE, TRUE)
  /\ UNCHANGED <<cachedWallet, fresh>>

DeleteMnemonic(c) ==
  /\ Requested(c, "deleteMnemonic")
  /\ deleteFromDeviceKeychain
  /\ deleteFromiCloudKeychain
  /\ Reply(c, TRUE, TRUE)
  /\ UNCHANGED <<cachedWallet, fresh, everStored>>

\* Mutant: both items are deleted.
DeleteBothItems(c) ==
  /\ Requested(c, "deleteCloudMnemonic")
  /\ deleteFromDeviceKeychain
  /\ deleteFromiCloudKeychain
  /\ Reply(c, TRUE, TRUE)
  /\ UNCHANGED <<cachedWallet, fresh, everStored>>

DeleteCloudMnemonic(c) ==
  /\ Requested(c, "deleteCloudMnemonic")
  /\ deleteFromiCloudKeychain
  /\ Reply(c, TRUE, TRUE)
  /\ UNCHANGED <<cachedWallet, fresh, device, everStored>>

Handlers(c) ==
  \/ GenerateNewMnemonic(c)
  \/ GetPrivateKeyFromMnemonic(c)
  \/ GetMnemonic(c)
  \/ MnemonicBackedUpToCloud(c)
  \/ SaveMnemonic(c)
  \/ DeleteMnemonic(c)
  \/ DeleteCloudMnemonic(c)

-----------------------------------------------------------------------------
\* iCloud brings what another device stored there, or removes what it deleted.
CloudSynced ==
  /\ "sync" \in env.faults
  /\ icloud' \in External \cup {NoMnemonic}
  /\ everStored' = everStored \cup ({icloud'} \cap Mnemonics)
  /\ UNCHANGED <<dartVars, device>>

\* The keychain is durable: a killed app loses its Dart state only.
AppKilled ==
  /\ "kill" \in env.faults
  /\ DartKilled
  /\ UNCHANGED iosVars

Next ==
  \/ \E c \in Calls :
       \/ AppCalls(c) /\ UNCHANGED iosVars
       \/ Continuations(c) /\ UNCHANGED iosVars
       \/ Handlers(c)
  \/ CloudSynced
  \/ AppKilled

Spec == Init /\ [][Next]_vars

\* Dart's event loop and the main thread take what is queued for them.
Fairness ==
  \A c \in Calls :
    /\ WF_vars(Continuations(c) /\ UNCHANGED iosVars)
    /\ WF_vars(Handlers(c))

FairSpec == Spec /\ Fairness

-----------------------------------------------------------------------------
(* What is stored, and what the runs check of it.                          *)

\* The phrase a getMnemonic answers.
Stored == IF icloud # NoMnemonic THEN icloud ELSE device

INSTANCE WalletPromises WITH stored <- Stored, inCloud <- icloud, onDevice <- device

\* What is cached was stored, on this device, at some time: no call hands out a
\* wallet whose phrase never reached the keychain.
CachedWasStored == cachedWallet # NoMnemonic => cachedWallet \in everStored

\* One item is in use: an app that does not move or delete wallets, and one setting.
OneItem(e) ==
  /\ e.ops \subseteq {"createWallet", "importExistingWallet", "getWallet",
                      "getAccountPhrase", "walletEligibleForCloudSync"}
  /\ \A cfg1, cfg2 \in e.configs : cfg1.saveToCloud = cfg2.saveToCloud
  /\ e.faults \subseteq {"read", "random", "kill"}

\* With one item in use and concurrent calls, the cached wallet is the stored one
\* between calls (_cachedWallet against getMnemonic), unless an invalid phrase has
\* been stored: importExistingWallet stores it before it throws.
CacheStaysTrue == OneItem(env) /\ everStored \cap Invalid = {} => CacheAgrees

\* Nothing deletes the wallet, and the keychain accepts what it is given.
SafeMoves(e) ==
  /\ "permanentlyDeleteWallet" \notin e.ops
  /\ e.faults \cap {"write", "sync"} = {}

\* As long as one wallet only was ever stored, it is in one of the two items at every
\* moment of any sequence of concurrent moves (updateWalletStorage).
MovesNeverLose ==
  [][SafeMoves(env) =>
       \A m \in Mnemonics :
         everStored' = {m} /\ m \in {icloud, device} => m \in {icloud', device'}]_vars

\* An app that awaits each call, and a keychain that works.
Steady(e) == e.serial /\ e.faults \subseteq {"random", "kill"}

\* updateWalletStorage moves the wallet and never changes which wallet it is,
\* whatever copies earlier calls have left.
MovesKeepWallet == [][Steady(env) => UpdateKeepsStored]_vars

\* A move to the device has removed the iCloud copy.
MovesLeaveCloud == [][Steady(env) => LocalUpdateLeavesCloud]_vars

-----------------------------------------------------------------------------
(* How WalletIos implements WalletContract, where one storage location is  *)
(* in use: the wallet is the phrase getMnemonic answers, and a call takes  *)
(* effect when the plugin's handler writes or deletes its item.            *)

Contract ==
  INSTANCE WalletContract
  WITH Phrases <- Mnemonics, wallet <- Stored,
       req <- [c \in Calls |-> Seen(call[c])]

\* With one storage location and a keychain that works, an app that awaits each
\* call sees the contract, across restarts of the app.
ContractHolds == Contract!Spec

=============================================================================
