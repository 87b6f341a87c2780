--------------------------- MODULE WalletAndroid ---------------------------
(***************************************************************************)
(* The wallet on Android: WalletManager over FlutterSdkPlugin.kt and       *)
(* MnemonicStorageHelper.kt.                                               *)
(*                                                                         *)
(* The phrase lives in two places: in Google's Block Store, which Play     *)
(* services keeps and backs up (cloud), and in EncryptedSharedPreferences, *)
(* a map in memory (prefs) written to a file (disk).  Handlers and         *)
(* listeners run on the main thread, one at a time.  A Block Store call    *)
(* returns a Task at once: Play services executes it later, and only then  *)
(* the main thread runs its listener, if it has one.                       *)
(*                                                                         *)
(* A Flutter Result takes one reply.  saveMnemonic and                     *)
(* getPrivateKeyFromMnemonic reply an error for an invalid phrase and go   *)
(* on to reply again; that second reply is dropped here (on a device it    *)
(* raises an exception, and the app may stop: see AppKilled).              *)
(***************************************************************************)
EXTENDS WalletManager, SequencesExt

CONSTANTS
  MaxTasks,  \* bound: Block Store calls under way
  Garbage,   \* preferences that cannot be decrypted
  NoCall     \* a Block Store call nobody waits for

\* What may go wrong in an environment.
FaultKinds ==
  {"retrieve", "store", "delete",  \* a Block Store call of that kind may fail
   "commit",   \* SharedPreferences.commit() may fail to write the file
   "reorder",  \* Play services may execute calls, or report, out of order
   "kill",     \* the app's process may end at any time
   "restore"}  \* the app may be restored to a device without its master key

ASSUME PlatformAssumption ==
  /\ \A e \in Environments : e.faults \subseteq FaultKinds
  /\ MaxTasks \in Nat
  /\ Garbage \notin Mnemonics \cup {NoMnemonic}
  /\ NoCall \notin Calls

VARIABLES
  cloud,       \* the phrase in Block Store
  prefs,       \* the phrase in the preferences' map
  disk,        \* the phrase in the preferences' file
  tasks,       \* the Block Store calls whose listeners have not run
  e2ee,        \* isEndToEndEncryptionAvailable
  everStored   \* history: the phrases Block Store or the file has ever held

androidVars == <<cloud, prefs, disk, tasks, e2ee, everStored>>
vars == <<dartVars, androidVars>>

Task == [kind : {"retrieve", "store", "delete"},
         call : Calls \cup {NoCall},          \* whose reply the listener sends
         m : Mnemonics \cup {NoMnemonic},     \* stored, or retrieved
         force : BOOLEAN,                     \* forceBlockStore
         st : {"pending", "ok", "failed"},
         live : BOOLEAN]                      \* the process that made it lives

TypeOK ==
  /\ DartTypeOK
  /\ cloud \in Mnemonics \cup {NoMnemonic}
  /\ prefs \in Mnemonics \cup {NoMnemonic, Garbage}
  /\ disk \in Mnemonics \cup {NoMnemonic, Garbage}
  /\ tasks \in Seq(Task)
  /\ e2ee \in BOOLEAN
  /\ everStored \subseteq Mnemonics

Init ==
  /\ DartInit
  /\ cloud = NoMnemonic
  /\ prefs = NoMnemonic
  /\ disk = NoMnemonic
  /\ tasks = <<>>
  /\ e2ee = FALSE
  /\ everStored = {}

-----------------------------------------------------------------------------
(* EncryptedSharedPreferences.                                             *)

\* edit() ... commit(), whose result the code ignores: the map changes, and the
\* file unless the write fails.
Commit(m) ==
  /\ prefs' = m
  /\ disk' \in {m} \cup (IF "commit" \in env.faults THEN {disk} ELSE {})

saveToSharedPref(m) ==
  /\ Commit(m)
  /\ everStored' = everStored \cup ({disk'} \cap Mnemonics)

deleteFromSharedPref == Commit(NoMnemonic) /\ UNCHANGED everStored

\* getSharedPreferences clears a file it cannot decrypt, with apply(), which
\* writes in the background.
readFromSharedPref ==
  IF prefs = Garbage
  THEN Commit(NoMnemonic)
  ELSE UNCHANGED <<prefs, disk>>

\* Mutant: preferences that cannot be decrypted are handed out as they are.
PrefsPhraseUnchecked == prefs

\* What getString then returns.
PrefsPhrase == IF prefs = Garbage THEN NoMnemonic ELSE prefs

-----------------------------------------------------------------------------
(* MnemonicStorageHelper and the handlers of FlutterSdkPlugin.             *)

NewTask(kind, c, m, force) ==
  [kind |-> kind, call |-> c, m |-> m, force |-> force,
   st |-> "pending", live |-> TRUE]

\* Bound: no Block Store call is made while MaxTasks are under way.
Submit(task) ==
  /\ Len(tasks) < MaxTasks
  /\ tasks' = Append(tasks, task)

GenerateNewMnemonic(c) ==
  /\ Requested(c, "generateNewMnemonic")
  /\ \E m \in fresh : Draw(c, m)
  /\ UNCHANGED <<cachedWallet, androidVars>>

GetPrivateKeyFromMnemonic(c) ==
  /\ Requested(c, "getPrivateKeyFromMnemonic")
  /\ Reply(c, KeyPhrase(c) \notin Invalid, NoMnemonic)
  /\ UNCHANGED <<cachedWallet, fresh, androidVars>>

\* getMnemonic and isBackedUpToCloud both start with read().
ReadMnemonic(c) ==
  /\ \E method \in {"getMnemonic", "mnemonicBackedUpToCloud"} : Requested(c, method)
  /\ Submit(NewTask("retrieve", c, NoMnemonic, FALSE))
  /\ Hold(c)
  /\ UNCHANGED <<cachedWallet, fresh, cloud, prefs, disk, e2ee, everStored>>

UsesBlockStore(c) == call[c].cfg.saveToCloud /\ e2ee

Valid(c) == call[c].m \notin Invalid

\* Mutant: success is replied before Block Store has stored the phrase.
SaveToCloudAtOnce(c) ==
  /\ Requested(c, "saveMnemonic")
  /\ UsesBlockStore(c)
  /\ Submit(NewTask("store", NoCall, call[c].m, call[c].cfg.rejectOnCloudSaveFailure))
  /\ Reply(c, Valid(c), TRUE)
  /\ UNCHANGED <<cachedWallet, fresh, cloud, prefs, disk, e2ee, everStored>>

\* save() with Block Store.  An invalid phrase is stored as well, its error has
\* been replied already and the listener's own reply is lost.
SaveToCloud(c) ==
  /\ Requested(c, "saveMnemonic")
  /\ UsesBlockStore(c)
  /\ IF Valid(c)
     THEN /\ Submit(NewTask("store", c, call[c].m, call[c].cfg.rejectOnCloudSaveFailure))
          /\ Hold(c)
     ELSE /\ Submit(NewTask("store", NoCall, call[c].m, call[c].cfg.rejectOnCloudSaveFailure))
          /\ Reply(c, FALSE, NoMnemonic)
  /\ UNCHANGED <<cachedWallet, fresh, cloud, prefs, disk, e2ee, everStored>>

\* save() without it: fails when Block Store is forced, and otherwise writes the
\* preferences, for an invalid phrase too.
SaveToDevice(c) ==
  /\ Requested(c, "saveMnemonic")
  /\ ~UsesBlockStore(c)
  /\ IF call[c].cfg.rejectOnCloudSaveFailure
     THEN /\ Reply(c, FALSE, NoMnemonic)
          /\ UNCHANGED <<prefs, disk, everStored>>
     ELSE /\ saveToSharedPref(call[c].m)
          /\ Reply(c, Valid(c), TRUE)
  /\ UNCHANGED <<cachedWallet, fresh, cloud, tasks, e2ee>>

\* Mutant: the handler calls delete() where it should call deleteFromCloudKeystore().
DeleteBothCopies(c) ==
  /\ Requested(c, "deleteCloudMnemonic")
  /\ Submit(NewTask("delete", NoCall, NoMnemonic, FALSE))
  /\ deleteFromSharedPref
  /\ Reply(c, TRUE, TRUE)
  /\ UNCHANGED <<cachedWallet, fresh, cloud, e2ee>>

\* Fire and forget: the reply does not wait for Block Store.
DeleteCloudMnemonic(c) ==
  /\ Requested(c, "deleteCloudMnemonic")
  /\ Submit(NewTask("delete", NoCall, NoMnemonic, FALSE))
  /\ Reply(c, TRUE, TRUE)
  /\ UNCHANGED <<cachedWallet, fresh, cloud, prefs, disk, e2ee, everStored>>

\* Mutant: delete() forgets the preferences.
DeleteFromCloudOnly(c) ==
  /\ Requested(c, "deleteMnemonic")
  /\ Submit(NewTask("delete", NoCall, NoMnemonic, FALSE))
  /\ Reply(c, TRUE, TRUE)
  /\ UNCHANGED <<cachedWallet, fresh, cloud, prefs, disk, e2ee, everStored>>

DeleteMnemonic(c) ==
  /\ Requested(c, "deleteMnemonic")
  /\ Submit(NewTask("delete", NoCall, NoMnemonic, FALSE))
  /\ deleteFromSharedPref
  /\ Reply(c, TRUE, TRUE)
  /\ UNCHANGED <<cachedWallet, fresh, cloud, e2ee>>

Handlers(c) ==
  \/ GenerateNewMnemonic(c)
  \/ GetPrivateKeyFromMnemonic(c)
  \/ ReadMnemonic(c)
  \/ SaveToCloud(c)
  \/ SaveToDevice(c)
  \/ DeleteCloudMnemonic(c)
  \/ DeleteMnemonic(c)

-----------------------------------------------------------------------------
(* Play services, and the listeners it runs.                               *)

HasListener(task) == task.live /\ task.kind # "delete"

\* Without "reorder", calls are executed, and report, in the order they were made.
InTurn(i, before(_)) ==
  \/ "reorder" \in env.faults
  \/ \A j \in 1..(i - 1) : before(tasks[j])

Executed(task) == task.st # "pending"
NotExecuted(task) == task.st = "pending"

\* The task leaves the list when there is no listener left to run.
Settle(i, task) ==
  tasks' = IF HasListener(task) THEN [tasks EXCEPT ![i] = task] ELSE RemoveAt(tasks, i)

\* A retrieval finds what is there, a store or a delete (of NoMnemonic) changes it.
ExecuteTask(i) ==
  /\ tasks[i].st = "pending"
  /\ InTurn(i, Executed)
  /\ IF tasks[i].kind = "retrieve"
     THEN /\ Settle(i, [tasks[i] EXCEPT !.st = "ok", !.m = cloud])
          /\ UNCHANGED <<cloud, everStored>>
     ELSE /\ Settle(i, [tasks[i] EXCEPT !.st = "ok"])
          /\ cloud' = tasks[i].m
          /\ everStored' = everStored \cup ({tasks[i].m} \cap Mnemonics)
  /\ UNCHANGED <<dartVars, prefs, disk, e2ee>>

TaskFails(i) ==
  /\ tasks[i].kind \in env.faults
  /\ tasks[i].st = "pending"
  /\ InTurn(i, Executed)
  /\ Settle(i, [tasks[i] EXCEPT !.st = "failed"])
  /\ UNCHANGED <<dartVars, cloud, prefs, disk, e2ee, everStored>>

CanReport(i, kind) ==
  /\ tasks[i].kind = kind
  /\ tasks[i].live
  /\ Executed(tasks[i])
  /\ InTurn(i, NotExecuted)
  /\ tasks' = RemoveAt(tasks, i)
  /\ UNCHANGED env

\* What read() hands to the caller's closure, and what the closure replies:
\* getMnemonic the phrase, isBackedUpToCloud whether Block Store has one.
Answer(c, m, fromBlockstore) ==
  Reply(c, TRUE, IF Awaited[call[c].pc] = "getMnemonic"
                 THEN m
                 ELSE m # NoMnemonic /\ fromBlockstore)

\* A failed retrieval and an empty Block Store are answered from the preferences.
RetrieveListener(i) ==
  LET task == tasks[i] IN
  /\ CanReport(i, "retrieve")
  /\ IF task.st = "ok" /\ task.m # NoMnemonic
     THEN /\ Answer(task.call, task.m, TRUE)
          /\ UNCHANGED <<prefs, disk>>
     ELSE /\ Answer(task.call, PrefsPhrase, FALSE)
          /\ readFromSharedPref
  /\ UNCHANGED <<cachedWallet, channel, fresh, cloud, e2ee, everStored>>

\* Mutant: the failure listener reports success.
SaveReplySuccess(c, ok) ==
  IF c = NoCall THEN UNCHANGED <<call, replies>> ELSE Reply(c, TRUE, TRUE)

\* Mutant: the failure listener reports nothing.
SaveReplyLost(c, ok) ==
  IF c = NoCall \/ ~ok THEN UNCHANGED <<call, replies>> ELSE Reply(c, TRUE, TRUE)

\* onSuccess or onFailure of saveMnemonic, unless it has replied already.
SaveReply(c, ok) ==
  IF c = NoCall THEN UNCHANGED <<call, replies>> ELSE Reply(c, ok, TRUE)

\* Mutant: a failed store falls back to the preferences even when it was forced.
StoreListenerUnforced(i) ==
  LET task == tasks[i] IN
  /\ CanReport(i, "store")
  /\ IF task.st = "failed"
     THEN saveToSharedPref(task.m)
     ELSE UNCHANGED <<prefs, disk, everStored>>
  /\ SaveReply(task.call, TRUE)
  /\ UNCHANGED <<cachedWallet, channel, fresh, cloud, e2ee>>

StoreListener(i) ==
  LET task == tasks[i]
      fallsBack == task.st = "failed" /\ ~task.force
  IN
  /\ CanReport(i, "store")
  /\ IF fallsBack
     THEN saveToSharedPref(task.m)
     ELSE UNCHANGED <<prefs, disk, everStored>>
  /\ SaveReply(task.call, task.st = "ok" \/ fallsBack)
  /\ UNCHANGED <<cachedWallet, channel, fresh, cloud, e2ee>>

\* A task the process made before it was killed has nobody to report to.
ListenerGone(i) ==
  /\ ~tasks[i].live
  /\ Executed(tasks[i])
  /\ tasks' = RemoveAt(tasks, i)
  /\ UNCHANGED <<dartVars, cloud, prefs, disk, e2ee, everStored>>

Listeners(i) == RetrieveListener(i) \/ StoreListener(i) \/ ListenerGone(i)

\* The listener set up when the helper is made.  On a device without end-to-end
\* encryption it never reports TRUE: the step is owed to nobody.
EndToEndEncryptionAvailable ==
  /\ ~e2ee
  /\ e2ee' = TRUE
  /\ UNCHANGED <<dartVars, cloud, prefs, disk, tasks, everStored>>

-----------------------------------------------------------------------------
(* The process ends and the app starts again.                              *)

\* Play services still executes the calls it has received.
OrphanedTasks(n) == [i \in 1..n |-> [tasks[i] EXCEPT !.live = FALSE, !.call = NoCall]]

AppKilled ==
  /\ "kill" \in env.faults
  /\ DartKilled
  /\ \E n \in 0..Len(tasks) : tasks' = OrphanedTasks(n)
  /\ prefs' = disk
  /\ e2ee' = FALSE
  /\ UNCHANGED <<cloud, disk, everStored>>

\* The app restored from a backup: the preferences' file comes without the key
\* that decrypts it, Block Store may have been restored or not.
DeviceRestored ==
  /\ "restore" \in env.faults
  /\ DartKilled
  /\ tasks' = <<>>
  /\ cloud' \in {cloud, NoMnemonic}
  /\ disk' = IF disk = NoMnemonic THEN NoMnemonic ELSE Garbage
  /\ prefs' = disk'
  /\ e2ee' = FALSE
  /\ UNCHANGED everStored

-----------------------------------------------------------------------------
Next ==
  \/ \E c \in Calls :
       \/ AppCalls(c) /\ UNCHANGED androidVars
       \/ Continuations(c) /\ UNCHANGED androidVars
       \/ Handlers(c)
  \/ \E i \in 1..Len(tasks) : ExecuteTask(i) \/ TaskFails(i) \/ Listeners(i)
  \/ EndToEndEncryptionAvailable
  \/ AppKilled
  \/ DeviceRestored

Spec == Init /\ [][Next]_vars

\* What Dart's event loop, the platform's main thread and Play services owe: to
\* take what is queued for them.  The app owes no call.
Fairness ==
  /\ \A c \in Calls :
       /\ WF_vars(Continuations(c) /\ UNCHANGED androidVars)
       /\ WF_vars(Handlers(c))
  /\ \A i \in 1..MaxTasks :
       /\ WF_vars(i \in DOMAIN tasks /\ (ExecuteTask(i) \/ TaskFails(i)))
       /\ WF_vars(i \in DOMAIN tasks /\ Listeners(i))

FairSpec == Spec /\ Fairness

-----------------------------------------------------------------------------
(* What is stored, for the properties.                                     *)

\* Block Store once the deletes that nobody waits for are executed.
SettledCloud ==
  IF \E i \in DOMAIN tasks : tasks[i].kind = "delete" /\ tasks[i].st = "pending"
  THEN NoMnemonic
  ELSE cloud

\* The phrase a getMnemonic made now will answer: Block Store has precedence.
Stored == IF SettledCloud # NoMnemonic THEN SettledCloud ELSE PrefsPhrase

\* What is cached was stored, on this device, at some time: no call hands out a
\* wallet whose phrase never reached Block Store or the preferences' file.
CachedWasStored == cachedWallet # NoMnemonic => cachedWallet \in everStored

INSTANCE WalletPromises WITH stored <- Stored, inCloud <- SettledCloud, onDevice <- PrefsPhrase

\* Nothing deletes the wallet, and the preferences' file is written when it should be.
SafeMoves(e) == "permanentlyDeleteWallet" \notin e.ops /\ "commit" \notin e.faults

\* While no second wallet is made and none deleted, the wallet is in Block Store or
\* in the preferences' file at every moment of any sequence of concurrent moves
\* between the two (updateWalletStorage): only the restore of a backup may lose it.
NeverLost ==
  [][SafeMoves(env) =>
       \/ DeviceRestored
       \/ \A m \in Mnemonics :
            everStored' = {m} /\ m \in {cloud, disk} => m \in {cloud', disk'}]_vars

\* An app that awaits each call; stores may fail.
Steady(e) == e.serial /\ e.faults \subseteq {"store"}

\* updateWalletStorage moves the wallet and never changes which wallet it is,
\* whatever copies earlier calls have left and whether or not a store fails.  The
\* store of an invalid phrase, though its call has thrown, may still come then.
MovesKeepWallet ==
  [][Steady(env) /\ everStored' \cap Invalid = {} => UpdateKeepsStored]_vars

\* A move to the device has removed the cloud copy, or has asked Play services to.
MovesLeaveCloud == [][Steady(env) => LocalUpdateLeavesCloud]_vars

\* A create or import told to reject when the cloud save fails returns only when
\* Block Store has the wallet.
RejectHonoured == [][Steady(env) => RejectOnCloudFailure]_vars

\* One store is in use: an app that does not move or delete wallets, and keeps them on
\* the device, or in the cloud only.
OneStore(e) ==
  /\ e.ops \subseteq {"createWallet", "importExistingWallet", "getWallet",
                      "getAccountPhrase", "walletEligibleForCloudSync"}
  /\ "commit" \notin e.faults
  /\ \/ \A cfg \in e.configs : ~cfg.saveToCloud
     \/ /\ \A cfg \in e.configs : cfg.saveToCloud /\ cfg.rejectOnCloudSaveFailure
        /\ "reorder" \notin e.faults

\* With one store in use and concurrent calls, the cached wallet is the stored one
\* between calls (_cachedWallet against getMnemonic), unless an invalid phrase has
\* been stored: saveMnemonic stores it and reports an error.
CacheStaysTrue == OneStore(env) /\ everStored \cap Invalid = {} => CacheAgrees

-----------------------------------------------------------------------------
(* How WalletAndroid implements WalletContract, where one storage location *)
(* is in use: the wallet is the phrase a getMnemonic answers, and a save   *)
(* takes effect when Play services executes its store, or when the handler *)
(* writes the preferences.                                                 *)

\* The call has had its effect: Dart may know only later.
Acted(c) ==
  \/ Confirmed(call[c])
  \/ /\ call[c].pc = "save"
     /\ \E i \in DOMAIN tasks : tasks[i].call = c /\ tasks[i].st = "ok"

Contract ==
  INSTANCE WalletContract
  WITH Phrases <- Mnemonics, wallet <- Stored,
       req <- [c \in Calls |-> Request(call[c], Acted(c))]

\* With one storage location, an app that awaits each call sees the contract: calls
\* that read agree with the wallet stored whether they answer from the cache, from
\* Block Store or from the preferences, and a call that throws has stored nothing.
ContractHolds == Contract!Spec

=============================================================================
