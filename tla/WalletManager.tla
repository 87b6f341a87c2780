--------------------------- MODULE WalletManager ---------------------------
(***************************************************************************)
(* The Dart half of the wallet: WalletManager and the KeyManager it sends  *)
(* its platform calls through (lib/src/wallet_manager.dart,                *)
(* lib/src/key_manager.dart).                                              *)
(*                                                                         *)
(* Dart code runs on one isolate: what a method does between two awaits of *)
(* a platform call is one action here, and the other calls of the app      *)
(* interleave at the awaits.  The method channel keeps the order of the    *)
(* requests and the order of the replies.  What the platform does between  *)
(* a request and its reply is in WalletAndroid and WalletIos, which extend *)
(* this module.                                                            *)
(*                                                                         *)
(* A wallet is identified with the recovery phrase it is derived from, so  *)
(* cachedWallet holds a phrase, and NoMnemonic stands for Dart's null.     *)
(***************************************************************************)
EXTENDS Naturals, Sequences, FiniteSets

CONSTANTS
  Calls,       \* slots for the calls the app has outstanding
  Generated,   \* the phrases the random generator will come up with
  External,    \* valid phrases the user brings to importExistingWallet
  Invalid,     \* phrases that do not pass the BIP-39 check
  NoMnemonic,  \* null
  Environments \* what an installation may be like: the operations its app uses
               \* (ops), whether it awaits each call before the next (serial), the
               \* KeyStorageConfig values it passes (configs), and what may go
               \* wrong (faults)

StorageConfig == [saveToCloud : BOOLEAN, rejectOnCloudSaveFailure : BOOLEAN]

Operations == {"createWallet", "importExistingWallet", "getWallet",
               "updateWalletStorage", "permanentlyDeleteWallet",
               "getAccountPhrase", "walletEligibleForCloudSync"}

Mnemonics == Generated \cup External \cup Invalid

ASSUME PhrasesAssumption ==
  /\ NoMnemonic \notin Mnemonics
  /\ Generated \cap (External \cup Invalid) = {}
  /\ External \cap Invalid = {}
ASSUME AppAssumption ==
  \A e \in Environments :
    /\ e.ops \subseteq Operations
    /\ e.serial \in BOOLEAN
    /\ e.configs \subseteq StorageConfig

VARIABLES
  env,           \* the environment, one of Environments; it never changes
  cachedWallet,  \* WalletManager._cachedWallet, static
  call,          \* the state of each call
  channel,       \* the calls whose request the platform has not taken yet
  replies,       \* the calls whose reply Dart has not taken yet
  fresh          \* the phrases not generated so far

dartVars == <<env, cachedWallet, call, channel, replies, fresh>>

Finished == {"returned", "threw"}

\* The platform method a call awaits at each point of its Dart method.
Awaited ==
  [generate |-> "generateNewMnemonic",
   checkRead |-> "getMnemonic", read |-> "getMnemonic",
   updRead |-> "getMnemonic", phrase |-> "getMnemonic",
   checkKey |-> "getPrivateKeyFromMnemonic", key |-> "getPrivateKeyFromMnemonic",
   makeKey |-> "getPrivateKeyFromMnemonic",
   save |-> "saveMnemonic", updSave |-> "saveMnemonic",
   updDelete |-> "deleteCloudMnemonic", delete |-> "deleteMnemonic",
   eligible |-> "mnemonicBackedUpToCloud"]

Points == DOMAIN Awaited

\* A finished call: how it ended and the value it returned.
Ended(op, how, val) ==
  [op |-> op, pc |-> how, at |-> "none", overwrite |-> FALSE,
   cfg |-> [saveToCloud |-> FALSE, rejectOnCloudSaveFailure |-> FALSE],
   m |-> NoMnemonic, r |-> NoMnemonic, ok |-> TRUE, val |-> val]

Idle == Ended("none", "returned", NoMnemonic)

CallState ==
  [op : Operations \cup {"none"},
   pc : Points \cup Finished,
   at : {"none", "channel", "platform", "reply"},  \* where the platform call is
   overwrite : BOOLEAN,
   cfg : StorageConfig,
   m : Mnemonics \cup {NoMnemonic},    \* the phrase the call saves
   r : Mnemonics \cup {NoMnemonic},    \* the phrase getWallet read
   ok : BOOLEAN,                       \* the reply is a success, not an error
   val : Mnemonics \cup {NoMnemonic} \cup BOOLEAN]  \* its value, then the result

DartTypeOK ==
  /\ env \in Environments
  /\ cachedWallet \in Mnemonics \cup {NoMnemonic}
  /\ call \in [Calls -> CallState]
  /\ channel \in Seq(Calls)
  /\ replies \in Seq(Calls)
  /\ fresh \subseteq Generated

DartInit ==
  /\ env \in Environments
  /\ cachedWallet = NoMnemonic
  /\ call = [c \in Calls |-> Idle]
  /\ channel = <<>>
  /\ replies = <<>>
  /\ fresh = Generated

-----------------------------------------------------------------------------
(* How a Dart method goes on.                                              *)

Active(c) == call[c].pc \notin Finished

\* Go to pc and invoke the platform method awaited there.
Ask(c, state, pc) ==
  /\ call' = [call EXCEPT ![c] = [state EXCEPT !.pc = pc, !.at = "channel",
                                               !.ok = TRUE, !.val = NoMnemonic]]
  /\ channel' = Append(channel, c)

Finish(c, op, how, val) ==
  /\ call' = [call EXCEPT ![c] = Ended(op, how, val)]
  /\ UNCHANGED channel

Return(c, val) == Finish(c, call[c].op, "returned", val)
Throw(c) == Finish(c, call[c].op, "threw", NoMnemonic)

\* Mutant: the overwrite flag is not looked at.
SaveAnyway(c, state, exists) == Ask(c, [state EXCEPT !.r = NoMnemonic], "save")

\* The end of _saveMnemonic, once getWallet has said whether a wallet exists.
SaveUnlessExisting(c, state, exists) ==
  IF exists /\ ~state.overwrite
  THEN Finish(c, state.op, "threw", NoMnemonic)
  ELSE Ask(c, [state EXCEPT !.r = NoMnemonic], "save")

\* _saveMnemonic from its start; getWallet answers from the cache when it can.
SaveMnemonicIn(c, state) ==
  IF cachedWallet = NoMnemonic
  THEN Ask(c, state, "checkRead")
  ELSE SaveUnlessExisting(c, state, TRUE)

CanStart(c, op) ==
  /\ op \in env.ops
  /\ ~Active(c)
  /\ env.serial => \A d \in Calls : ~Active(d)

Started(op) == [Idle EXCEPT !.op = op]

\* The reply at the head of the queue is for c, which awaits it at pc.
Replied(c, pc) ==
  /\ replies # <<>>
  /\ c = Head(replies)
  /\ call[c].pc = pc
  /\ replies' = Tail(replies)
  /\ UNCHANGED env

-----------------------------------------------------------------------------
(* The app calls WalletManager.                                            *)

\* Bound: no more generations in progress than phrases left to generate.
CreateWallet(c) ==
  /\ CanStart(c, "createWallet")
  /\ Cardinality({d \in Calls : call[d].pc = "generate"}) < Cardinality(fresh)
  /\ \E overwrite \in BOOLEAN, cfg \in env.configs :
       Ask(c, [Started("createWallet") EXCEPT !.overwrite = overwrite, !.cfg = cfg],
           "generate")
  /\ UNCHANGED <<env, cachedWallet, replies, fresh>>

ImportExistingWallet(c) ==
  /\ CanStart(c, "importExistingWallet")
  /\ \E m \in (Generated \ fresh) \cup External \cup Invalid,
        overwrite \in BOOLEAN, cfg \in env.configs :
       SaveMnemonicIn(c, [Started("importExistingWallet") EXCEPT
                            !.overwrite = overwrite, !.cfg = cfg, !.m = m])
  /\ UNCHANGED <<env, cachedWallet, replies, fresh>>

\* getWallet, and getPublicAddress, which only formats what getWallet returns.
\* A cached wallet is returned without a platform call.
GetWallet(c) ==
  /\ CanStart(c, "getWallet")
  /\ IF cachedWallet = NoMnemonic
     THEN Ask(c, Started("getWallet"), "read")
     ELSE Finish(c, "getWallet", "returned", cachedWallet)
  /\ UNCHANGED <<env, cachedWallet, replies, fresh>>

UpdateWalletStorage(c) ==
  /\ CanStart(c, "updateWalletStorage")
  /\ \E cfg \in env.configs :
       Ask(c, [Started("updateWalletStorage") EXCEPT !.cfg = cfg], "updRead")
  /\ UNCHANGED <<env, cachedWallet, replies, fresh>>

PermanentlyDeleteWallet(c) ==
  /\ CanStart(c, "permanentlyDeleteWallet")
  /\ Ask(c, Started("permanentlyDeleteWallet"), "delete")
  /\ UNCHANGED <<env, cachedWallet, replies, fresh>>

GetAccountPhrase(c) ==
  /\ CanStart(c, "getAccountPhrase")
  /\ Ask(c, Started("getAccountPhrase"), "phrase")
  /\ UNCHANGED <<env, cachedWallet, replies, fresh>>

WalletEligibleForCloudSync(c) ==
  /\ CanStart(c, "walletEligibleForCloudSync")
  /\ Ask(c, Started("walletEligibleForCloudSync"), "eligible")
  /\ UNCHANGED <<env, cachedWallet, replies, fresh>>

AppCalls(c) ==
  \/ CreateWallet(c)
  \/ ImportExistingWallet(c)
  \/ GetWallet(c)
  \/ UpdateWalletStorage(c)
  \/ PermanentlyDeleteWallet(c)
  \/ GetAccountPhrase(c)
  \/ WalletEligibleForCloudSync(c)

-----------------------------------------------------------------------------
(* A reply reaches the Dart method that awaits it.                         *)

\* The reply makes the awaiting KeyManager method throw: an error, null where a
\* phrase is needed, or anything but true from deleteCloudMnemonic.
Rejected(c) ==
  \/ ~call[c].ok
  \/ call[c].pc = "generate" /\ call[c].val = NoMnemonic
  \/ call[c].pc = "updDelete" /\ call[c].val # TRUE

Accepted(c, pc) == Replied(c, pc) /\ ~Rejected(c)

\* getAccountPhrase catches the error and returns null; no other method does.
CallThrows(c) ==
  /\ \E pc \in Points : Replied(c, pc)
  /\ Rejected(c)
  /\ IF call[c].pc = "phrase" THEN Return(c, NoMnemonic) ELSE Throw(c)
  /\ UNCHANGED <<cachedWallet, fresh>>

MnemonicGenerated(c) ==
  /\ Accepted(c, "generate")
  /\ SaveMnemonicIn(c, [call[c] EXCEPT !.m = call[c].val])
  /\ UNCHANGED <<cachedWallet, fresh>>

\* getWallet inside _saveMnemonic: no phrase, or one to derive a wallet from.
ExistingRead(c) ==
  /\ Accepted(c, "checkRead")
  /\ IF call[c].val = NoMnemonic
     THEN SaveUnlessExisting(c, call[c], FALSE)
     ELSE Ask(c, [call[c] EXCEPT !.r = call[c].val], "checkKey")
  /\ UNCHANGED <<cachedWallet, fresh>>

ExistingDerived(c) ==
  /\ Accepted(c, "checkKey")
  /\ cachedWallet' = call[c].r
  /\ SaveUnlessExisting(c, call[c], TRUE)
  /\ UNCHANGED fresh

MnemonicSaved(c) ==
  /\ Accepted(c, "save")
  /\ Ask(c, call[c], "makeKey")
  /\ UNCHANGED <<cachedWallet, fresh>>

\* Mutant: the new wallet is returned and not cached.
WalletMadeUncached(c) ==
  /\ Accepted(c, "makeKey")
  /\ Return(c, call[c].m)
  /\ UNCHANGED <<cachedWallet, fresh>>

WalletMade(c) ==
  /\ Accepted(c, "makeKey")
  /\ cachedWallet' = call[c].m
  /\ Return(c, call[c].m)
  /\ UNCHANGED fresh

WalletRead(c) ==
  /\ Accepted(c, "read")
  /\ IF call[c].val = NoMnemonic
     THEN Return(c, NoMnemonic)
     ELSE Ask(c, [call[c] EXCEPT !.r = call[c].val], "key")
  /\ UNCHANGED <<cachedWallet, fresh>>

WalletDerived(c) ==
  /\ Accepted(c, "key")
  /\ cachedWallet' = call[c].r
  /\ Return(c, call[c].r)
  /\ UNCHANGED fresh

UpdateRead(c) ==
  /\ Accepted(c, "updRead")
  /\ IF call[c].val = NoMnemonic
     THEN Throw(c)
     ELSE Ask(c, [call[c] EXCEPT !.m = call[c].val], "updSave")
  /\ UNCHANGED <<cachedWallet, fresh>>

\* Mutant: the cloud copy is not deleted.
UpdateSavedOnly(c) ==
  /\ Accepted(c, "updSave")
  /\ Return(c, NoMnemonic)
  /\ UNCHANGED <<cachedWallet, fresh>>

UpdateSaved(c) ==
  /\ Accepted(c, "updSave")
  /\ IF call[c].cfg.saveToCloud
     THEN Return(c, NoMnemonic)
     ELSE Ask(c, call[c], "updDelete")
  /\ UNCHANGED <<cachedWallet, fresh>>

CloudCopyDeleted(c) ==
  /\ Accepted(c, "updDelete")
  /\ Return(c, NoMnemonic)
  /\ UNCHANGED <<cachedWallet, fresh>>

WalletDeleted(c) ==
  /\ Accepted(c, "delete")
  /\ cachedWallet' = NoMnemonic
  /\ Return(c, NoMnemonic)
  /\ UNCHANGED fresh

\* getAccountPhrase and walletEligibleForCloudSync return what the platform says.
AnswerPassedOn(c) ==
  /\ \E pc \in {"phrase", "eligible"} : Accepted(c, pc)
  /\ Return(c, call[c].val)
  /\ UNCHANGED <<cachedWallet, fresh>>

Continuations(c) ==
  \/ CallThrows(c)
  \/ MnemonicGenerated(c)
  \/ ExistingRead(c)
  \/ ExistingDerived(c)
  \/ MnemonicSaved(c)
  \/ WalletMade(c)
  \/ WalletRead(c)
  \/ WalletDerived(c)
  \/ UpdateRead(c)
  \/ UpdateSaved(c)
  \/ CloudCopyDeleted(c)
  \/ WalletDeleted(c)
  \/ AnswerPassedOn(c)

\* The process ends: everything Dart holds is gone, the phrases already
\* generated are not generated again.
DartKilled ==
  /\ cachedWallet' = NoMnemonic
  /\ call' = [c \in Calls |-> Idle]
  /\ channel' = <<>>
  /\ replies' = <<>>
  /\ UNCHANGED <<env, fresh>>

-----------------------------------------------------------------------------
(* The platform's end of the method channel, for the two platforms.        *)

\* The platform takes the request of c, for the given method.
Requested(c, method) ==
  /\ channel # <<>>
  /\ c = Head(channel)
  /\ Awaited[call[c].pc] = method
  /\ channel' = Tail(channel)
  /\ UNCHANGED env

\* The platform replies to c.
Reply(c, ok, val) ==
  /\ call' = [call EXCEPT ![c].at = "reply", ![c].ok = ok, ![c].val = val]
  /\ replies' = Append(replies, c)

\* The platform keeps the request of c and will reply later.
Hold(c) ==
  /\ call' = [call EXCEPT ![c].at = "platform"]
  /\ UNCHANGED replies

\* The phrase a getPrivateKeyFromMnemonic request carries.
KeyPhrase(c) == IF call[c].pc = "makeKey" THEN call[c].m ELSE call[c].r

\* The phrases generateNewMnemonic may still come up with.
Draw(c, m) ==
  /\ m \in fresh
  /\ fresh' = fresh \ {m}
  /\ Reply(c, TRUE, m)

-----------------------------------------------------------------------------
(* How a call looks to WalletContract, which the platforms implement.      *)

\* Dart has had, or is about to get, the platform's word that the call has had its effect.
Confirmed(s) ==
  s.pc = "makeKey" \/ (s.pc \in {"save", "delete"} /\ s.at = "reply" /\ s.ok)

\* How far a call has come, done when it has had its effect and has not ended.
Stage(s, done) ==
  IF s.pc \in Finished THEN s.pc
  ELSE IF done THEN "applied" ELSE "open"

Request(s, done) ==
  [op |-> s.op, stage |-> Stage(s, done), overwrite |-> s.overwrite,
   val |-> IF s.pc \in Finished THEN s.val
           ELSE IF done THEN s.m ELSE NoMnemonic]

Seen(s) == Request(s, Confirmed(s))

=============================================================================
