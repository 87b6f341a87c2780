--------------------------- MODULE WalletPromises ---------------------------
(***************************************************************************)
(* What the documentation of WalletManager promises of its calls, in terms *)
(* of the Dart state and of what is stored, for both platforms: WalletIos  *)
(* and WalletAndroid say what stored and inCloud are.                      *)
(***************************************************************************)
CONSTANTS Calls, NoMnemonic, Invalid

VARIABLES
  cachedWallet, call,  \* those of WalletManager
  stored,              \* the phrase the platform answers getMnemonic with
  inCloud,             \* the phrase in the cloud store
  onDevice             \* the phrase in the device's store

Running(c) == call[c].pc \notin {"returned", "threw"}

\* A call that is killed with the app does not end.
Ends(c, how) == Running(c) /\ call'[c].pc = how /\ call'[c].op = call[c].op

Saves(c) == call[c].op \in {"createWallet", "importExistingWallet"}

Updates(c) == call[c].op = "updateWalletStorage" /\ Running(c)

\* A createWallet or importExistingWallet that returns leaves its own wallet
\* stored: "the existing wallet will be overwritten with the new wallet"
\* (wallet_manager.dart:24).
OverwriteTakesEffect ==
  \A c \in Calls : Ends(c, "returned") /\ Saves(c) => stored' = call[c].m

\* One wallet replaces another only while a call that was told to overwrite
\* saves it: "it will throw an error unless the overwrite flag is set to true"
\* (wallet_manager.dart:23).
NoSilentReplace ==
  stored # NoMnemonic /\ stored' \notin {stored, NoMnemonic}
       => \E c \in Calls : Saves(c) /\ call[c].pc = "save" /\ call[c].overwrite

\* Between calls the cached wallet is the stored one, as long as only one of the
\* two stores is in use: getWallet and getPublicAddress answer from the cache,
\* getAccountPhrase from storage, and the app takes them for the same wallet.
CacheAgrees ==
  /\ \A c \in Calls : ~Running(c)
  /\ NoMnemonic \in {inCloud, onDevice}
  => cachedWallet \in {NoMnemonic, stored}

\* updateWalletStorage moves the wallet and never changes which wallet it is.
UpdateKeepsStored ==
  (\E c \in Calls : Updates(c)) => stored' = stored

\* A move to device-only storage that returns has removed the cloud copy
\* (wallet_manager.dart:79).
LocalUpdateLeavesCloud ==
  \A c \in Calls : Ends(c, "returned") /\ Updates(c) /\ ~call[c].cfg.saveToCloud
       => inCloud' = NoMnemonic

\* With rejectOnCloudSaveFailure, a call that was to save to the cloud returns
\* only when the wallet is there (wallet_manager.dart:28).
RejectOnCloudFailure ==
  \A c \in Calls :
       /\ Ends(c, "returned")
       /\ Saves(c)
       /\ call[c].cfg.saveToCloud
       /\ call[c].cfg.rejectOnCloudSaveFailure
       => inCloud' = call[c].m

\* A phrase that does not pass the BIP-39 check is not saved.
InvalidNeverStored == stored \notin Invalid

=============================================================================
