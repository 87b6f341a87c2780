-------------------------- MODULE WalletIos_proofs --------------------------
(***************************************************************************)
(* Proofs about WalletIos, for any calls, phrases and environments: its    *)
(* type invariant, and that a cached wallet was stored (where the keychain *)
(* accepts what it is given), what a move leaves, that the cache stays     *)
(* true, and that the SDK implements its contract.  What the Dart half     *)
(* keeps true is in WalletManager_proofs; here is that the handlers tell   *)
(* of nothing but phrases an item holds or has held.                       *)
(***************************************************************************)
EXTENDS WalletIos, WalletManager_proofs

\* The phrases a call may be trusted to have stored: those that were, unless the
\* keychain may have refused one unnoticed.
Trusted == IF "write" \in env.faults THEN Mnemonics ELSE everStored

\* What the two items hold has been stored.
ItemsOK ==
  /\ everStored \subseteq Mnemonics
  /\ icloud \in everStored \cup {NoMnemonic}
  /\ device \in everStored \cup {NoMnemonic}

IInv == Dart(Trusted) /\ ItemsOK

-----------------------------------------------------------------------------
(* Steps.                                                                  *)

\* A step that stores nothing leaves the trusted phrases as they are.
LEMMA TrustedKept ==
  ASSUME UNCHANGED <<env, everStored>>
  PROVE  Trusted' = Trusted
BY DEF Trusted

\* A step that stores adds to them.
LEMMA TrustedGrows ==
  ASSUME IInv, env' = env, everStored \subseteq everStored', everStored' \subseteq Mnemonics
  PROVE  /\ Trusted \subseteq Trusted' /\ Trusted' \subseteq Mnemonics
         /\ everStored' \subseteq Trusted'
BY DEF Trusted, IInv, Dart, DartOK

\* A step of Dart does not touch the keychain.
LEMMA DartMoves ==
  ASSUME IInv, NEW c \in Calls, AppCalls(c) \/ Continuations(c), UNCHANGED iosVars
  PROVE  IInv'
<1>1. Dart(Trusted) /\ ItemsOK
  BY DEF IInv
<1>2. Moves(Trusted, c)
  BY <1>1, AppCallsStep, ContinuationsStep
<1>3. Trusted' = Trusted
  BY <1>2, TrustedKept DEF Moves, iosVars
<1>4. Dart(Trusted)'
  BY <1>1, <1>2, <1>3 DEF Moves, Dart
<1>5. ItemsOK'
  BY <1>1 DEF ItemsOK, iosVars
<1> QED BY <1>4, <1>5 DEF IInv

\* What a read may find has been stored.
LEMMA FoundIs ==
  ASSUME IInv
  PROVE  /\ Found(icloud) \subseteq Trusted \cup {NoMnemonic}
         /\ Found(device) \subseteq Trusted \cup {NoMnemonic}
         /\ Read \subseteq Trusted \cup {NoMnemonic}
         /\ Trusted \subseteq Mnemonics
<1>1. /\ icloud \in Trusted \cup {NoMnemonic} /\ device \in Trusted \cup {NoMnemonic}
      /\ Trusted \subseteq Mnemonics
  BY DEF IInv, ItemsOK, Trusted
<1>2. /\ Found(icloud) \subseteq Trusted \cup {NoMnemonic}
      /\ Found(device) \subseteq Trusted \cup {NoMnemonic}
  BY <1>1 DEF Found
<1> QED BY <1>1, <1>2 DEF Read

\* A handler that leaves the keychain at most poorer, and answers.
LEMMA HandlerKeeps ==
  ASSUME IInv, NEW c \in Calls, NEW method, Requested(c, method),
         NEW ok \in BOOLEAN, NEW val \in Mnemonics \cup {NoMnemonic} \cup BOOLEAN,
         Reply(c, ok, val), UNCHANGED <<cachedWallet, everStored>>,
         fresh' \subseteq Generated,
         icloud' \in {icloud, NoMnemonic}, device' \in {device, NoMnemonic},
         call[c].pc \in {"save", "updSave"} /\ ok => call[c].m \in Trusted,
         call[c].pc = "generate" => val \in Mnemonics \cup {NoMnemonic},
         call[c].pc \in Reading => val \in Trusted \cup {NoMnemonic}
  PROVE  IInv'
<1>1. /\ Dart(Trusted) /\ ItemsOK /\ Trusted \subseteq Mnemonics
      /\ env' = env /\ env \in Environments
  BY RequestIs DEF IInv, Dart, DartOK
<1>2. Trusted' = Trusted
  BY <1>1, TrustedKept
<1>3. DartOK(Trusted, call', channel', replies', cachedWallet')
  BY <1>1, HandlerAnswers
<1>4. ItemsOK'
  BY <1>1 DEF ItemsOK
<1>5. Dart(Trusted)'
  BY <1>1, <1>2, <1>3 DEF Dart
<1> QED BY <1>4, <1>5 DEF IInv

\* The plugin's handlers.
LEMMA HandlersStep ==
  ASSUME IInv, NEW c \in Calls, Handlers(c)
  PROVE  IInv'
<1>1. /\ Dart(Trusted) /\ ItemsOK /\ Trusted \subseteq Mnemonics /\ fresh \subseteq Generated
      /\ TRUE \in BOOLEAN /\ NoMnemonic \in Mnemonics \cup {NoMnemonic} \cup BOOLEAN
  BY DEF IInv, Dart, DartOK
<1>2. CASE GenerateNewMnemonic(c)
  <2>1. Requested(c, "generateNewMnemonic") /\ UNCHANGED <<cachedWallet, icloud, device, everStored>>
    BY <1>2 DEF GenerateNewMnemonic, iosVars
  <2>2. call[c].pc = "generate" /\ call[c].pc \notin Reading \cup {"save", "updSave"}
    BY <1>1, <2>1, RequestIs, AwaitedIs DEF Reading
  <2>3. CASE \E m \in fresh : Draw(c, m)
    <3>1. PICK m \in fresh : Draw(c, m)
      BY <2>3
    <3>2. /\ m \in Mnemonics /\ fresh' \subseteq Generated /\ Reply(c, TRUE, m)
          /\ m \in Mnemonics \cup {NoMnemonic} \cup BOOLEAN
      BY <1>1, <3>1 DEF Draw, Mnemonics
    <3> QED BY <1>1, <2>1, <2>2, <3>2, HandlerKeeps
  <2>4. CASE "random" \in env.faults /\ Reply(c, TRUE, Failure) /\ UNCHANGED fresh
    <3>1. Failure \in Mnemonics /\ Failure \in Mnemonics \cup {NoMnemonic} \cup BOOLEAN
      BY <1>1, <2>4, PlatformAssumption DEF Dart, Mnemonics
    <3> QED BY <1>1, <2>1, <2>2, <2>4, <3>1, HandlerKeeps
  <2> QED BY <1>2, <2>3, <2>4 DEF GenerateNewMnemonic
<1>3. CASE GetPrivateKeyFromMnemonic(c)
  <2> DEFINE ok == KeyPhrase(c) \notin Invalid
  <2>1. /\ Requested(c, "getPrivateKeyFromMnemonic") /\ ok \in BOOLEAN
        /\ Reply(c, ok, NoMnemonic) /\ UNCHANGED <<cachedWallet, fresh, icloud, device, everStored>>
    BY <1>3 DEF GetPrivateKeyFromMnemonic, iosVars
  <2>2. call[c].pc \notin Reading \cup {"save", "updSave", "generate"}
    BY <1>1, <2>1, RequestIs, AwaitedIs DEF Reading
  <2> HIDE DEF ok
  <2> QED BY <1>1, <2>1, <2>2, HandlerKeeps
<1>4. CASE GetMnemonic(c)
  <2>1. PICK m \in Read : Reply(c, TRUE, m)
    BY <1>4 DEF GetMnemonic
  <2>2. /\ Requested(c, "getMnemonic") /\ UNCHANGED <<cachedWallet, fresh, icloud, device, everStored>>
        /\ m \in Trusted \cup {NoMnemonic} /\ m \in Mnemonics \cup {NoMnemonic} \cup BOOLEAN
    BY <1>1, <1>4, <2>1, FoundIs DEF GetMnemonic, iosVars
  <2>3. call[c].pc \notin {"save", "updSave", "generate"}
    BY <1>1, <2>2, RequestIs, AwaitedIs
  <2> QED BY <1>1, <2>1, <2>2, <2>3, HandlerKeeps
<1>5. CASE MnemonicBackedUpToCloud(c)
  <2>1. PICK m \in Found(icloud) : Reply(c, TRUE, m # NoMnemonic)
    BY <1>5 DEF MnemonicBackedUpToCloud
  <2> DEFINE val == m # NoMnemonic
  <2>2. /\ Requested(c, "mnemonicBackedUpToCloud") /\ Reply(c, TRUE, val)
        /\ UNCHANGED <<cachedWallet, fresh, icloud, device, everStored>>
        /\ val \in Mnemonics \cup {NoMnemonic} \cup BOOLEAN
    BY <1>5, <2>1 DEF MnemonicBackedUpToCloud, iosVars
  <2>3. call[c].pc \notin Reading \cup {"save", "updSave", "generate"}
    BY <1>1, <2>2, RequestIs, AwaitedIs DEF Reading
  <2> HIDE DEF val
  <2> QED BY <1>1, <2>2, <2>3, HandlerKeeps
<1>6. CASE SaveMnemonic(c)
  <2>1. /\ Requested(c, "saveMnemonic") /\ Reply(c, TRUE, TRUE) /\ UNCHANGED <<cachedWallet, fresh>>
        /\ everStored' = everStored \cup ({icloud', device'} \cap Mnemonics)
        /\ TRUE \in Mnemonics \cup {NoMnemonic} \cup BOOLEAN
    BY <1>6 DEF SaveMnemonic
  <2>2. /\ call[c].pc \in {"save", "updSave"} /\ call[c].pc \notin Reading \cup {"generate"}
        /\ call[c] \in CallState /\ env' = env
    BY <1>1, <2>1, RequestIs, AwaitedIs DEF Reading
  <2>3. /\ icloud' \in {icloud, call[c].m} /\ device' \in {device, call[c].m}
        /\ "write" \notin env.faults => call[c].m \in {icloud', device'}
    BY <1>6 DEF SaveMnemonic, saveToiCloudKeychain, saveToDeviceKeychain, Outcomes
  <2>4. call[c].m \in Mnemonics
    BY <1>1, <2>1, <2>2, RequestIs DEF CallOK, Carrying
  <2>5. ItemsOK' /\ everStored \subseteq everStored'
    BY <1>1, <2>1, <2>3, <2>4 DEF ItemsOK
  <2>6. /\ Trusted \subseteq Trusted' /\ Trusted' \subseteq Mnemonics
        /\ everStored' \subseteq Trusted'
    BY <2>2, <2>5, TrustedGrows DEF ItemsOK
  <2>7. call[c].m \in Trusted'
    BY <2>1, <2>2, <2>3, <2>4 DEF Trusted
  <2> DEFINE more == Trusted'
  <2> HIDE DEF more
  <2>8. Trusted \subseteq more /\ more \subseteq Mnemonics /\ call[c].m \in more
    BY <2>6, <2>7 DEF more
  <2>9. DartOK(more, call', channel', replies', cachedWallet')
    BY <1>1, <2>1, <2>2, <2>8, HandlerAnswers
  <2>10. Dart(Trusted)'
    BY <1>1, <2>1, <2>2, <2>9 DEF Dart, more
  <2> QED BY <2>5, <2>10 DEF IInv
<1>7. CASE DeleteMnemonic(c)
  <2>1. /\ Requested(c, "deleteMnemonic") /\ Reply(c, TRUE, TRUE)
        /\ UNCHANGED <<cachedWallet, fresh, everStored>>
        /\ icloud' \in {icloud, NoMnemonic} /\ device' \in {device, NoMnemonic}
        /\ TRUE \in Mnemonics \cup {NoMnemonic} \cup BOOLEAN
    BY <1>7 DEF DeleteMnemonic, deleteFromDeviceKeychain, deleteFromiCloudKeychain, Outcomes
  <2>2. call[c].pc \notin Reading \cup {"save", "updSave", "generate"}
    BY <1>1, <2>1, RequestIs, AwaitedIs DEF Reading
  <2> QED BY <1>1, <2>1, <2>2, HandlerKeeps
<1>8. CASE DeleteCloudMnemonic(c)
  <2>1. /\ Requested(c, "deleteCloudMnemonic") /\ Reply(c, TRUE, TRUE)
        /\ UNCHANGED <<cachedWallet, fresh, device, everStored>>
        /\ icloud' \in {icloud, NoMnemonic}
        /\ TRUE \in Mnemonics \cup {NoMnemonic} \cup BOOLEAN
    BY <1>8 DEF DeleteCloudMnemonic, deleteFromiCloudKeychain, Outcomes
  <2>2. call[c].pc \notin Reading \cup {"save", "updSave", "generate"}
    BY <1>1, <2>1, RequestIs, AwaitedIs DEF Reading
  <2> QED BY <1>1, <2>1, <2>2, HandlerKeeps
<1> QED BY <1>2, <1>3, <1>4, <1>5, <1>6, <1>7, <1>8 DEF Handlers

\* iCloud brings a phrase or takes one away.
LEMMA CloudStep ==
  ASSUME IInv, CloudSynced
  PROVE  IInv'
<1>1. /\ Dart(Trusted) /\ ItemsOK /\ UNCHANGED <<env, call, channel, replies, cachedWallet, fresh>>
      /\ everStored' = everStored \cup ({icloud'} \cap Mnemonics)
      /\ icloud' \in Mnemonics \cup {NoMnemonic} /\ device' = device
  BY DEF IInv, CloudSynced, dartVars, Mnemonics
<1>2. ItemsOK' /\ everStored \subseteq everStored'
  BY <1>1 DEF ItemsOK
<1> DEFINE more == Trusted'
<1>3. Trusted \subseteq more /\ more \subseteq Mnemonics
  BY <1>1, <1>2, TrustedGrows DEF ItemsOK
<1> HIDE DEF more
<1>4. \A c \in Calls : CallOK(call[c], more)
  BY <1>1, <1>3, CallsKnowMore DEF Dart, DartOK
<1>5. DartOK(more, call', channel', replies', cachedWallet')
  BY <1>1, <1>3, <1>4 DEF Dart, DartOK
<1>6. Dart(Trusted)'
  BY <1>1, <1>5 DEF Dart, more
<1> QED BY <1>2, <1>6 DEF IInv

\* The process ends: the items stay.
LEMMA KilledStep ==
  ASSUME IInv, AppKilled
  PROVE  IInv'
<1>1. /\ Dart(Trusted) /\ ItemsOK /\ DartKilled /\ UNCHANGED <<icloud, device, everStored>>
  BY DEF IInv, AppKilled, iosVars
<1>2. Trusted' = Trusted
  BY <1>1, TrustedKept DEF DartKilled
<1>3. DartOK(Trusted, call', channel', replies', cachedWallet')
  BY <1>1, AllIdle DEF DartKilled, Dart, DartOK
<1>4. Dart(Trusted)' /\ ItemsOK'
  BY <1>1, <1>2, <1>3 DEF Dart, DartKilled, ItemsOK
<1> QED BY <1>4 DEF IInv

LEMMA Initially ==
  Init => IInv
<1> SUFFICES ASSUME Init PROVE IInv
  OBVIOUS
<1>1. Trusted \subseteq Mnemonics /\ ItemsOK
  BY DEF Init, Trusted, ItemsOK
<1>2. Dart(Trusted)
  BY <1>1, AllIdle DEF Init, DartInit, Dart
<1> QED BY <1>1, <1>2 DEF IInv

\* Every step preserves the invariant.
LEMMA Inductive ==
  IInv /\ [Next]_vars => IInv'
<1> SUFFICES ASSUME IInv, [Next]_vars PROVE IInv'
  OBVIOUS
<1>1. CASE UNCHANGED vars
  BY <1>1 DEF vars, dartVars, iosVars, IInv, Dart, DartOK, ItemsOK, Trusted, QueueOK
<1>2. ASSUME NEW c \in Calls, (AppCalls(c) \/ Continuations(c)) /\ UNCHANGED iosVars
      PROVE  IInv'
  BY <1>2, DartMoves
<1>3. ASSUME NEW c \in Calls, Handlers(c)
      PROVE  IInv'
  BY <1>3, HandlersStep
<1>4. CASE CloudSynced
  BY <1>4, CloudStep
<1>5. CASE AppKilled
  BY <1>5, KilledStep
<1> QED BY <1>1, <1>2, <1>3, <1>4, <1>5 DEF Next

-----------------------------------------------------------------------------
(* What a handler does, in detail.                                         *)

\* The item of the setting of s is written, or keeps what it held.
Written(s) ==
  /\ IF s.cfg.saveToCloud THEN saveToiCloudKeychain(s.m) ELSE saveToDeviceKeychain(s.m)
  /\ everStored' = everStored \cup ({icloud', device'} \cap Mnemonics)

Handled(c, ok, val) ==
  /\ call[c] \in CallState /\ call[c].at = "channel" /\ call[c].pc \in Points
  /\ channel # <<>> /\ c = Head(channel) /\ channel' = Tail(channel)
  /\ call' = [call EXCEPT ![c] = Answered(call[c], ok, val)]
  /\ replies' = Append(replies, c)
  /\ UNCHANGED <<env, cachedWallet>>
  /\ call[c].pc \in Reading => ok /\ val \in Read
  /\ call[c].pc \in {"checkKey", "key", "makeKey"} => (ok <=> KeyPhrase(c) \notin Invalid)
  /\ call[c].pc \in {"save", "updSave"} => ok /\ Written(call[c])
  /\ call[c].pc = "updDelete" => deleteFromiCloudKeychain /\ UNCHANGED <<device, everStored>>
  /\ call[c].pc = "delete" => /\ deleteFromDeviceKeychain /\ deleteFromiCloudKeychain
                              /\ UNCHANGED everStored
  /\ call[c].pc \notin {"save", "updSave", "updDelete", "delete"} => UNCHANGED iosVars

Values == Mnemonics \cup {NoMnemonic} \cup BOOLEAN

LEMMA HandlersDo ==
  ASSUME IInv, NEW c \in Calls, Handlers(c)
  PROVE  \E ok \in BOOLEAN, val \in Values : Handled(c, ok, val)
<1>1. Dart(Trusted) /\ TRUE \in BOOLEAN /\ TRUE \in Values /\ NoMnemonic \in Values
      /\ fresh \subseteq Generated
  BY DEF IInv, Dart, Values
<1>2. ASSUME NEW method, Requested(c, method)
      PROVE  /\ call[c] \in CallState /\ call[c].at = "channel" /\ call[c].pc \in Points
             /\ Awaited[call[c].pc] = method
             /\ channel # <<>> /\ c = Head(channel) /\ channel' = Tail(channel) /\ env' = env
  BY <1>1, <1>2, RequestIs DEF Requested
<1>3. CASE GenerateNewMnemonic(c)
  <2>1. /\ Requested(c, "generateNewMnemonic") /\ UNCHANGED cachedWallet /\ UNCHANGED iosVars
    BY <1>3 DEF GenerateNewMnemonic
  <2>2. call[c].pc = "generate"
    BY <1>2, <2>1, AwaitedIs
  <2>3. PICK val \in Values : Reply(c, TRUE, val)
    <3>1. CASE \E m \in fresh : Draw(c, m)
      BY <1>1, <3>1 DEF Draw, Values, Mnemonics
    <3>2. CASE "random" \in env.faults /\ Reply(c, TRUE, Failure) /\ UNCHANGED fresh
      BY <1>1, <3>2, PlatformAssumption DEF Dart, Values, Mnemonics
    <3> QED BY <1>3, <3>1, <3>2 DEF GenerateNewMnemonic
  <2> QED BY <1>1, <1>2, <2>1, <2>2, <2>3, ReplySends DEF Handled, Reading
<1>4. CASE GetPrivateKeyFromMnemonic(c)
  <2> DEFINE ok == KeyPhrase(c) \notin Invalid
  <2>1. /\ Requested(c, "getPrivateKeyFromMnemonic") /\ UNCHANGED cachedWallet /\ UNCHANGED iosVars
        /\ Reply(c, ok, NoMnemonic) /\ ok \in BOOLEAN
    BY <1>4 DEF GetPrivateKeyFromMnemonic
  <2>2. call[c].pc \in {"checkKey", "key", "makeKey"}
    BY <1>2, <2>1, AwaitedIs
  <2>3. Handled(c, ok, NoMnemonic)
    BY <1>1, <1>2, <2>1, <2>2, ReplySends DEF Handled, Reading
  <2> QED BY <1>1, <2>1, <2>3
<1>5. CASE GetMnemonic(c)
  <2>1. PICK m \in Read : Reply(c, TRUE, m)
    BY <1>5 DEF GetMnemonic
  <2>2. /\ Requested(c, "getMnemonic") /\ UNCHANGED cachedWallet /\ UNCHANGED iosVars
        /\ m \in Values
    BY <1>5, <2>1, FoundIs DEF GetMnemonic, Values
  <2>3. call[c].pc \in Reading
    BY <1>2, <2>2, AwaitedIs
  <2>4. Handled(c, TRUE, m)
    BY <1>1, <1>2, <2>1, <2>2, <2>3, ReplySends DEF Handled, Reading
  <2> QED BY <1>1, <2>2, <2>4
<1>6. CASE MnemonicBackedUpToCloud(c)
  <2>1. PICK m \in Found(icloud) : Reply(c, TRUE, m # NoMnemonic)
    BY <1>6 DEF MnemonicBackedUpToCloud
  <2> DEFINE val == m # NoMnemonic
  <2>2. /\ Requested(c, "mnemonicBackedUpToCloud") /\ UNCHANGED cachedWallet /\ UNCHANGED iosVars
        /\ val \in Values /\ Reply(c, TRUE, val)
    BY <1>6, <2>1 DEF MnemonicBackedUpToCloud, Values
  <2> HIDE DEF val
  <2>3. call[c].pc = "eligible"
    BY <1>2, <2>2, AwaitedIs
  <2>4. Handled(c, TRUE, val)
    BY <1>1, <1>2, <2>2, <2>3, ReplySends DEF Handled, Reading
  <2> QED BY <1>1, <2>2, <2>4
<1>7. CASE SaveMnemonic(c)
  <2>1. /\ Requested(c, "saveMnemonic") /\ UNCHANGED cachedWallet
        /\ Reply(c, TRUE, TRUE) /\ Written(call[c])
    BY <1>7 DEF SaveMnemonic, Written
  <2>2. call[c].pc \in {"save", "updSave"}
    BY <1>2, <2>1, AwaitedIs
  <2>3. Handled(c, TRUE, TRUE)
    BY <1>1, <1>2, <2>1, <2>2, ReplySends DEF Handled, Reading
  <2> QED BY <1>1, <2>3
<1>8. CASE DeleteMnemonic(c)
  <2>1. /\ Requested(c, "deleteMnemonic") /\ UNCHANGED cachedWallet
        /\ Reply(c, TRUE, TRUE) /\ deleteFromDeviceKeychain /\ deleteFromiCloudKeychain
        /\ UNCHANGED everStored
    BY <1>8 DEF DeleteMnemonic
  <2>2. call[c].pc = "delete"
    BY <1>2, <2>1, AwaitedIs
  <2>3. Handled(c, TRUE, TRUE)
    BY <1>1, <1>2, <2>1, <2>2, ReplySends DEF Handled, Reading
  <2> QED BY <1>1, <2>3
<1>9. CASE DeleteCloudMnemonic(c)
  <2>1. /\ Requested(c, "deleteCloudMnemonic") /\ UNCHANGED cachedWallet
        /\ Reply(c, TRUE, TRUE) /\ deleteFromiCloudKeychain /\ UNCHANGED <<device, everStored>>
    BY <1>9 DEF DeleteCloudMnemonic
  <2>2. call[c].pc = "updDelete"
    BY <1>2, <2>1, AwaitedIs
  <2>3. Handled(c, TRUE, TRUE)
    BY <1>1, <1>2, <2>1, <2>2, ReplySends DEF Handled, Reading
  <2> QED BY <1>1, <2>3
<1> QED BY <1>3, <1>4, <1>5, <1>6, <1>7, <1>8, <1>9 DEF Handlers

-----------------------------------------------------------------------------
(* Moves between the items.                                                *)

\* What is suspended is what the app of the environment calls.
AppOK == \A c \in Calls : Runs(call[c], env)

\* A call that is to delete the iCloud item, or is about to be, has seen to it that
\* the device's item is there.
DeviceHeld ==
  SafeMoves(env) =>
    \A c \in Calls :
      \/ call[c].pc = "updDelete"
      \/ call[c].pc = "updSave" /\ call[c].at = "reply" /\ ~call[c].cfg.saveToCloud
      => device # NoMnemonic

\* How far a move has come: it has read the stored phrase, it has written it to the
\* device's item, it has deleted the iCloud item.
MoveTracks(s) ==
  /\ s.pc = "updRead" /\ s.at = "reply" /\ s.ok => s.val = Stored
  /\ s.pc \in {"updSave", "updDelete"} => Stored # NoMnemonic
  /\ s.pc = "updSave" => s.m = Stored
  /\ s.pc = "updSave" /\ s.at = "reply" /\ ~s.cfg.saveToCloud => device = Stored
  /\ s.pc = "updDelete" => device = Stored
  /\ s.pc = "updDelete" /\ s.at = "reply" => icloud = NoMnemonic

MovesOK == Steady(env) => Alone /\ \A c \in Calls : MoveTracks(call[c])

MInv == IInv /\ AppOK /\ DeviceHeld /\ MovesOK

\* What can go wrong under the two assumptions.
LEMMA SafeOnes ==
  ASSUME SafeMoves(env)
  PROVE  /\ "write" \notin env.faults /\ "sync" \notin env.faults
         /\ "permanentlyDeleteWallet" \notin env.ops
         /\ \A item, m : Outcomes(item, m, "write") = {m}
BY DEF SafeMoves, Outcomes

LEMMA SteadyOnes ==
  ASSUME Steady(env)
  PROVE  /\ env.serial /\ "sync" \notin env.faults
         /\ \A item, m : /\ Outcomes(item, m, "write") = {m}
                         /\ Outcomes(item, m, "delete") = {m}
         /\ Read = {Stored}
<1>1. /\ "sync" \notin env.faults /\ "write" \notin env.faults
      /\ "delete" \notin env.faults /\ "read" \notin env.faults /\ env.serial
  BY DEF Steady
<1>2. Found(icloud) = {icloud} /\ Found(device) = {device}
  BY <1>1 DEF Found
<1>3. Read = {Stored}
  BY <1>2 DEF Read, Stored
<1> QED BY <1>1, <1>3 DEF Outcomes

\* Facts about every state.
LEMMA MKnown ==
  ASSUME MInv
  PROVE  /\ Dart(Trusted) /\ call \in [Calls -> CallState]
         /\ \A c \in Calls : CallOK(call[c], Trusted) /\ Runs(call[c], env)
         /\ NoMnemonic \notin Mnemonics
         /\ icloud \in Mnemonics \cup {NoMnemonic} /\ device \in Mnemonics \cup {NoMnemonic}
         /\ Stored \in Mnemonics \cup {NoMnemonic}
<1>1. Dart(Trusted) /\ ItemsOK /\ AppOK
  BY DEF MInv, IInv
<1>2. /\ icloud \in Mnemonics \cup {NoMnemonic} /\ device \in Mnemonics \cup {NoMnemonic}
  BY <1>1 DEF ItemsOK
<1> QED BY <1>1, <1>2, PhrasesAssumption DEF Dart, DartOK, AppOK, Stored

\* No move is suspended where nothing is.
LEMMA RestMoves ==
  ASSUME NEW s, s.pc \in Finished
  PROVE  MoveTracks(s)
BY DEF MoveTracks, Finished

LEMMA MovesDart ==
  ASSUME MInv, NEW c \in Calls, AppCalls(c) \/ Continuations(c), UNCHANGED iosVars
  PROVE  AppOK' /\ DeviceHeld' /\ MovesOK'
<1>1. /\ Dart(Trusted) /\ call \in [Calls -> CallState]
      /\ \A d \in Calls : Runs(call[d], env)
  BY MKnown
<1>2. Moves(Trusted, c)
  BY <1>1, AppCallsStep, ContinuationsStep
<1>3. PICK s \in CallState : Sends(c, s) /\ Goes(call[c], s, env)
  BY <1>1, AppCallsGo, ContinuationsGo DEF DartGoes
<1>4. /\ env' = env /\ UNCHANGED <<icloud, device, everStored>> /\ Stored' = Stored
      /\ call'[c] = s /\ \A d \in Calls \ {c} : call'[d] = call[d]
      /\ s.at # "reply"
  BY <1>1, <1>2, <1>3 DEF Moves, iosVars, Stored, Sends
<1>5. AppOK'
  BY <1>1, <1>3, <1>4 DEF AppOK, Goes
<1>6. DeviceHeld'
  <2> SUFFICES ASSUME SafeMoves(env), NEW d \in Calls,
                      \/ call'[d].pc = "updDelete"
                      \/ call'[d].pc = "updSave" /\ call'[d].at = "reply" /\ ~call'[d].cfg.saveToCloud
               PROVE  device # NoMnemonic
    BY <1>4 DEF DeviceHeld
  <2>1. CASE d # c
    BY <1>4, <2>1 DEF MInv, DeviceHeld
  <2>2. CASE d = c
    <3>1. Heard(call[c], "updSave") /\ ~call[c].cfg.saveToCloud
      BY <1>3, <1>4, <2>2 DEF Goes
    <3> QED BY <3>1 DEF Heard, MInv, DeviceHeld
  <2> QED BY <2>1, <2>2
<1>7. MovesOK'
  <2> SUFFICES ASSUME Steady(env) PROVE Alone' /\ \A d \in Calls : MoveTracks(call[d])'
    BY <1>4 DEF MovesOK
  <2>1. Alone /\ \A d \in Calls : MoveTracks(call[d])
    BY DEF MInv, MovesOK
  <2>2. Alone'
    BY <1>1, <2>1, SteadyOnes, StaysAlone
  <2>3. ASSUME NEW d \in Calls, d # c PROVE MoveTracks(call[d])'
    BY <1>4, <2>1, <2>3 DEF MoveTracks
  <2>4. MoveTracks(call[c])'
    <3> DEFINE t == call[c]
    <3>1. /\ s.pc = "updSave" => Heard(t, "updRead") /\ s.m = t.val /\ t.val # NoMnemonic
          /\ s.pc = "updDelete" => Heard(t, "updSave") /\ ~t.cfg.saveToCloud
      BY <1>3 DEF Goes
    <3>2. MoveTracks(t)
      BY <2>1
    <3>3. s.pc = "updSave" => s.m = Stored /\ Stored # NoMnemonic
      BY <3>1, <3>2 DEF MoveTracks, Heard
    <3>4. s.pc = "updDelete" => device = Stored /\ Stored # NoMnemonic
      BY <3>1, <3>2 DEF MoveTracks, Heard
    <3> QED BY <1>4, <3>3, <3>4 DEF MoveTracks
  <2> QED BY <2>2, <2>3, <2>4
<1> QED BY <1>5, <1>6, <1>7

\* A handler of a call the app does not make, or that cannot be running.
LEMMA Waiting ==
  ASSUME NEW s, NEW e, Runs(s, e), s.pc \in Points
  PROVE  /\ s.pc = "delete" => "permanentlyDeleteWallet" \in e.ops
         /\ s.op = "updateWalletStorage" => s.pc \in {"updRead", "updSave", "updDelete"}
BY PointsAre DEF Runs, Waits, Savers

LEMMA MovesHandled ==
  ASSUME MInv, NEW c \in Calls, Handlers(c)
  PROVE  AppOK' /\ DeviceHeld' /\ MovesOK'
<1>1. /\ Dart(Trusted) /\ call \in [Calls -> CallState]
      /\ NoMnemonic \notin Mnemonics
      /\ \A d \in Calls : CallOK(call[d], Trusted) /\ Runs(call[d], env)
  BY MKnown
<1>2. PICK ok \in BOOLEAN, val \in Values : Handled(c, ok, val)
  BY HandlersDo DEF MInv
<1> DEFINE t == call[c]
           u == Answered(t, ok, val)
<1>3. /\ t \in CallState /\ t.pc \in Points /\ t.at = "channel"
      /\ call' = [call EXCEPT ![c] = u] /\ env' = env
  BY <1>2 DEF Handled
<1>4. /\ u.pc = t.pc /\ u.m = t.m /\ u.cfg = t.cfg /\ u.op = t.op /\ u.at = "reply"
      /\ u.ok = ok /\ u.val = val
  BY <1>3, AnsweredType, AnsweredKeeps DEF Values
<1>5. t.pc \in {"save", "updSave"} => t.m \in Mnemonics
  BY <1>1 DEF CallOK, Carrying
<1> HIDE DEF u
<1>6. call'[c] = u /\ \A d \in Calls \ {c} : call'[d] = call[d]
  BY <1>1, <1>3
<1>7. AppOK'
  BY <1>1, <1>3, <1>4, <1>6 DEF AppOK, Runs
<1>8. DeviceHeld'
  <2> SUFFICES ASSUME SafeMoves(env), NEW d \in Calls,
                      \/ call'[d].pc = "updDelete"
                      \/ call'[d].pc = "updSave" /\ call'[d].at = "reply" /\ ~call'[d].cfg.saveToCloud
               PROVE  device' # NoMnemonic
    BY <1>3 DEF DeviceHeld
  <2>1. t.pc # "delete" /\ \A item, m : Outcomes(item, m, "write") = {m}
    BY <1>1, <1>3, SafeOnes, Waiting
  <2>2. device # NoMnemonic => device' # NoMnemonic
    BY <1>1, <1>2, <1>5, <2>1
       DEF Handled, Written, saveToiCloudKeychain, saveToDeviceKeychain, iosVars
  <2>3. CASE t.pc = "updSave" /\ ~t.cfg.saveToCloud
    BY <1>1, <1>2, <1>5, <2>1, <2>3 DEF Handled, Written, saveToDeviceKeychain
  <2>4. CASE ~(t.pc = "updSave" /\ ~t.cfg.saveToCloud)
    <3>1. \/ call[d].pc = "updDelete"
          \/ call[d].pc = "updSave" /\ call[d].at = "reply" /\ ~call[d].cfg.saveToCloud
      BY <1>4, <1>6, <2>4
    <3> QED BY <2>2, <3>1 DEF MInv, DeviceHeld
  <2> QED BY <2>3, <2>4
<1>9. MovesOK'
  <2> SUFFICES ASSUME Steady(env) PROVE Alone' /\ \A d \in Calls : MoveTracks(call[d])'
    BY <1>3 DEF MovesOK
  <2>1. Alone /\ \A d \in Calls : MoveTracks(call[d])
    BY DEF MInv, MovesOK
  <2>2. Alone'
    BY <1>1, <1>4, <1>6, <2>1 DEF Alone, Active
  <2>3. Active(c)
    BY <1>3, PointsAre DEF Active, Finished
  <2>4. ASSUME NEW d \in Calls, d # c PROVE MoveTracks(call[d])'
    <3>1. call'[d].pc \in Finished
      BY <1>6, <2>1, <2>3, <2>4 DEF Alone, Active
    <3> QED BY <3>1 DEF MoveTracks, Finished
  <2>5. /\ \A item, m : /\ Outcomes(item, m, "write") = {m}
                        /\ Outcomes(item, m, "delete") = {m}
        /\ Read = {Stored}
    BY SteadyOnes
  <2>6. t.pc \in Reading => ok /\ val = Stored /\ UNCHANGED <<icloud, device>>
    BY <1>2, <2>5 DEF Handled, Reading, iosVars
  <2>7. t.pc = "updSave" => /\ t.m = Stored /\ Stored # NoMnemonic
                            /\ Stored' = Stored
                            /\ ~t.cfg.saveToCloud => device' = Stored
    <3> SUFFICES ASSUME t.pc = "updSave"
                 PROVE  /\ t.m = Stored /\ Stored # NoMnemonic
                        /\ Stored' = Stored
                        /\ ~t.cfg.saveToCloud => device' = Stored
      OBVIOUS
    <3>1. t.m = Stored /\ Stored # NoMnemonic
      BY <2>1 DEF MoveTracks
    <3>2. /\ t.cfg.saveToCloud => icloud' = t.m /\ device' = device
          /\ ~t.cfg.saveToCloud => device' = t.m /\ icloud' = icloud
      BY <1>2, <2>5 DEF Handled, Written, saveToiCloudKeychain, saveToDeviceKeychain
    <3> QED BY <3>1, <3>2 DEF Stored
  <2>8. t.pc = "updDelete" => /\ device' = device /\ icloud' = NoMnemonic
                              /\ device = Stored /\ Stored # NoMnemonic
    BY <1>2, <2>1, <2>5 DEF Handled, deleteFromiCloudKeychain, MoveTracks
  <2>9. t.pc = "updDelete" => device' = Stored' /\ Stored' # NoMnemonic
    BY <2>8 DEF Stored
  <2>10. t.pc = "updRead" => Stored' = Stored
    BY <2>6 DEF Reading, Stored
  <2>11. MoveTracks(call[c])'
    BY <1>4, <1>6, <2>6, <2>7, <2>8, <2>9, <2>10 DEF MoveTracks, Reading
  <2> QED BY <2>2, <2>4, <2>11
<1> QED BY <1>7, <1>8, <1>9

LEMMA MovesElse ==
  ASSUME MInv, CloudSynced \/ AppKilled \/ UNCHANGED vars
  PROVE  AppOK' /\ DeviceHeld' /\ MovesOK'
<1>1. CASE CloudSynced
  <2>1. /\ ~SafeMoves(env) /\ ~Steady(env) /\ env' = env /\ call' = call
    BY <1>1, SafeOnes, SteadyOnes DEF CloudSynced, dartVars
  <2> QED BY <2>1 DEF MInv, AppOK, DeviceHeld, MovesOK
<1>2. CASE AppKilled
  <2>1. /\ env' = env /\ \A c \in Calls : call'[c] = Idle
    BY <1>2 DEF AppKilled, DartKilled
  <2>2. Idle.pc = "returned" /\ Idle.pc \notin Points /\ Idle.pc \in Finished
    BY PointsAre DEF Idle, Ended, Finished
  <2>3. AppOK' /\ DeviceHeld'
    BY <2>1, <2>2 DEF AppOK, Runs, DeviceHeld
  <2>4. Alone'
    BY <2>1, <2>2 DEF Alone, Active
  <2>5. ASSUME NEW c \in Calls PROVE MoveTracks(call[c])'
    BY <2>1, <2>2 DEF MoveTracks
  <2> QED BY <2>3, <2>4, <2>5 DEF MovesOK
<1>3. CASE UNCHANGED vars
  <2>1. UNCHANGED <<env, call, icloud, device>>
    BY <1>3 DEF vars, dartVars, iosVars
  <2> QED BY <2>1 DEF MInv, AppOK, DeviceHeld, MovesOK, Alone, Active, MoveTracks, Stored
<1> QED BY <1>1, <1>2, <1>3

LEMMA MovesInitially ==
  Init => MInv
<1> SUFFICES ASSUME Init PROVE MInv
  OBVIOUS
<1>1. \A c \in Calls : call[c].pc = "returned"
  BY DEF Init, DartInit, Idle, Ended
<1>2. "returned" \notin Points /\ "returned" \in Finished
  BY PointsAre DEF Finished
<1>3. AppOK /\ DeviceHeld /\ Alone
  BY <1>1, <1>2 DEF AppOK, Runs, DeviceHeld, Alone, Active
<1>4. \A c \in Calls : MoveTracks(call[c])
  BY <1>1, <1>2, RestMoves
<1> QED BY <1>3, <1>4, Initially DEF MInv, MovesOK

LEMMA MovesInductive ==
  MInv /\ [Next]_vars => MInv'
<1> SUFFICES ASSUME MInv, [Next]_vars PROVE MInv'
  OBVIOUS
<1>1. IInv'
  BY Inductive DEF MInv
<1>2. ASSUME NEW c \in Calls, (AppCalls(c) \/ Continuations(c)) /\ UNCHANGED iosVars
      PROVE  AppOK' /\ DeviceHeld' /\ MovesOK'
  BY <1>2, MovesDart
<1>3. ASSUME NEW c \in Calls, Handlers(c)
      PROVE  AppOK' /\ DeviceHeld' /\ MovesOK'
  BY <1>3, MovesHandled
<1>4. CASE CloudSynced \/ AppKilled
  BY <1>1, <1>4, MovesElse DEF MInv
<1>5. CASE UNCHANGED vars
  BY <1>1, <1>5, MovesElse DEF MInv
<1> QED BY <1>1, <1>2, <1>3, <1>4, <1>5 DEF Next, MInv

-----------------------------------------------------------------------------
(* The theorems.                                                           *)

\* The invariant holds in every state: each call is in one place, and what it
\* carries, reads or caches was stored.
THEOREM Invariant ==
  Spec => []IInv
<1> QED BY Initially, Inductive, PTL DEF Spec

\* Type correctness: no Boolean reply of the plugin is taken for a phrase, and what
\* the items hold are phrases, the string "failure" being one that is not valid.
THEOREM TypeCorrect ==
  Spec => []TypeOK
<1>1. IInv => TypeOK
  BY DEF IInv, Dart, DartOK, ItemsOK, Trusted, TypeOK, DartTypeOK
<1> QED BY <1>1, Invariant, PTL

\* Where the keychain accepts what it is given, whatever else fails, is synchronized
\* or is killed: a cached wallet was stored before.
THEOREM CachedStored ==
  ASSUME \A e \in Environments : "write" \notin e.faults
  PROVE  Spec => []CachedWasStored
<1>1. IInv => CachedWasStored
  BY DEF IInv, Dart, DartOK, Trusted, CachedWasStored
<1> QED BY <1>1, Invariant, PTL

\* The invariant of moves holds in every state.
THEOREM MoveInvariant ==
  Spec => []MInv
<1> QED BY MovesInitially, MovesInductive, PTL DEF Spec

\* While nothing deletes the wallet and the keychain accepts what it is given: any
\* number of concurrent moves, whose reads and deletes may fail, and restarts leave the
\* only wallet ever stored in one of the items.  The handler that deletes the iCloud
\* item runs only when the device's item is there.
THEOREM NeverLostByMoves ==
  Spec => MovesNeverLose
<1> DEFINE Kept(m) == everStored' = {m} /\ m \in {icloud, device} => m \in {icloud', device'}
<1>1. ASSUME MInv, MInv', [Next]_vars, SafeMoves(env), NEW m \in Mnemonics
      PROVE  Kept(m)
  <2> SUFFICES ASSUME everStored' = {m}, m \in {icloud, device} PROVE m \in {icloud', device'}
    OBVIOUS
  <2>1. icloud' \in {m, NoMnemonic} /\ device' \in {m, NoMnemonic}
    BY <1>1 DEF MInv, IInv, ItemsOK
  <2>2. CASE UNCHANGED <<icloud, device>>
    BY <2>2
  <2>3. ASSUME NEW c \in Calls, Handlers(c)
        PROVE  m \in {icloud', device'}
    <3>1. PICK ok \in BOOLEAN, val \in Values : Handled(c, ok, val)
      BY <1>1, <2>3, HandlersDo DEF MInv
    <3>2. /\ call[c].pc \in Points /\ call[c].pc # "delete"
          /\ \A item, n : Outcomes(item, n, "write") = {n}
      BY <1>1, <3>1, MKnown, SafeOnes, Waiting DEF Handled
    <3>3. call[c].pc \in {"save", "updSave"} => call[c].m \in Mnemonics
      BY <1>1, MKnown DEF CallOK, Carrying
    <3>4. CASE call[c].pc \in {"save", "updSave"}
      <4>1. call[c].m # NoMnemonic /\ call[c].m \in {icloud', device'}
        BY <1>1, <3>1, <3>2, <3>3, <3>4, MKnown
           DEF Handled, Written, saveToiCloudKeychain, saveToDeviceKeychain
      <4> QED BY <2>1, <4>1
    <3>5. CASE call[c].pc = "updDelete"
      <4>1. device # NoMnemonic /\ device' = device
        BY <1>1, <3>1, <3>5 DEF Handled, MInv, DeviceHeld
      <4> QED BY <2>1, <4>1
    <3>6. CASE call[c].pc \notin {"save", "updSave", "updDelete"}
      BY <2>2, <3>1, <3>2, <3>6 DEF Handled, iosVars
    <3> QED BY <3>4, <3>5, <3>6
  <2>4. CASE UNCHANGED vars
    BY <2>2, <2>4 DEF vars, iosVars
  <2> QED BY <1>1, <2>2, <2>3, <2>4, SafeOnes DEF Next, CloudSynced, AppKilled, iosVars
<1>2. MInv /\ MInv' /\ [Next]_vars => (SafeMoves(env) => \A m \in Mnemonics : Kept(m))
  BY <1>1
<1>3. Spec => [][SafeMoves(env) => \A m \in Mnemonics : Kept(m)]_vars
  BY <1>2, MoveInvariant, PTL DEF Spec
<1> QED BY <1>3 DEF MovesNeverLose

\* What the calls do while a move runs that is the only call.
LEMMA MovingAlone ==
  ASSUME MInv, Steady(env), NEW c \in Calls, Updates(c)
  PROVE  /\ call[c].pc \in {"updRead", "updSave", "updDelete"}
         /\ MoveTracks(call[c])
         /\ \A d \in Calls : call[d].pc \notin Finished => d = c
<1>1. call[c] \in CallState /\ call[c].pc \notin Finished /\ call[c].op = "updateWalletStorage"
  BY MKnown DEF Updates, Running, Finished
<1>2. call[c].pc \in Points
  BY <1>1 DEF CallState
<1> QED BY <1>1, <1>2, MKnown, Waiting DEF MInv, MovesOK, Alone, Active

\* An app that awaits each call, and a keychain that works: whatever copies there are, the
\* phrase that updateWalletStorage moves is the one that getMnemonic answers, before, in
\* every state between, and after.
THEOREM KeptByMoves ==
  Spec => MovesKeepWallet
<1>1. ASSUME MInv, [Next]_vars, Steady(env), NEW c \in Calls, Updates(c)
      PROVE  Stored' = Stored
  <2>1. /\ call[c].pc \in {"updRead", "updSave", "updDelete"} /\ MoveTracks(call[c])
        /\ \A d \in Calls : call[d].pc \notin Finished => d = c
    BY <1>1, MovingAlone
  <2>2. CASE UNCHANGED <<icloud, device>>
    BY <2>2 DEF Stored
  <2>3. ASSUME NEW d \in Calls, Handlers(d)
        PROVE  Stored' = Stored
    <3>1. PICK ok \in BOOLEAN, val \in Values : Handled(d, ok, val)
      BY <1>1, <2>3, HandlersDo DEF MInv
    <3>2. d = c
      BY <2>1, <3>1, PointsAre DEF Handled, Finished
    <3>3. \A item, m : /\ Outcomes(item, m, "write") = {m}
                       /\ Outcomes(item, m, "delete") = {m}
      BY <1>1, SteadyOnes
    <3>4. CASE call[c].pc = "updRead"
      BY <2>2, <3>1, <3>2, <3>4 DEF Handled, iosVars
    <3>5. CASE call[c].pc = "updSave"
      <4>1. call[c].m = Stored /\ Stored # NoMnemonic
        BY <2>1, <3>5 DEF MoveTracks
      <4>2. \/ icloud' = call[c].m
            \/ device' = call[c].m /\ icloud' = icloud
        BY <3>1, <3>2, <3>3, <3>5 DEF Handled, Written, saveToiCloudKeychain, saveToDeviceKeychain
      <4> QED BY <4>1, <4>2 DEF Stored
    <3>6. CASE call[c].pc = "updDelete"
      BY <2>1, <3>1, <3>2, <3>3, <3>6 DEF Handled, MoveTracks, deleteFromiCloudKeychain, Stored
    <3> QED BY <2>1, <3>4, <3>5, <3>6
  <2>4. CASE UNCHANGED vars
    BY <2>2, <2>4 DEF vars, iosVars
  <2> QED BY <1>1, <2>2, <2>3, <2>4, SteadyOnes DEF Next, CloudSynced, AppKilled, iosVars
<1>2. MInv /\ [Next]_vars => (Steady(env) => UpdateKeepsStored)
  BY <1>1 DEF UpdateKeepsStored
<1>3. Spec => [][Steady(env) => UpdateKeepsStored]_vars
  BY <1>2, MoveInvariant, PTL DEF Spec
<1> QED BY <1>3 DEF MovesKeepWallet

\* There too, a move to the device that returns has left nothing in iCloud, so that no
\* other device of the user gets the phrase any more.
THEOREM CloudLeftByMoves ==
  Spec => MovesLeaveCloud
<1>1. ASSUME MInv, [Next]_vars, Steady(env), NEW c \in Calls, Ends(c, "returned"), Updates(c),
             ~call[c].cfg.saveToCloud
      PROVE  icloud' = NoMnemonic
  <2>1. /\ call[c].pc \in {"updRead", "updSave", "updDelete"} /\ MoveTracks(call[c])
        /\ call[c].op = "updateWalletStorage"
        /\ call'[c].pc = "returned" /\ call'[c].op = call[c].op
    BY <1>1, MovingAlone DEF Ends, Updates
  <2>2. ASSUME NEW d \in Calls, AppCalls(d) \/ Continuations(d), UNCHANGED iosVars
        PROVE  icloud' = NoMnemonic
    <3>1. PICK s \in CallState : Sends(d, s) /\ Goes(call[d], s, env)
      BY <1>1, <2>2, MKnown, AppCallsGo, ContinuationsGo DEF DartGoes
    <3>2. d = c /\ s.pc = "returned"
      BY <1>1, <2>1, <3>1, MKnown DEF Sends
    <3>3. call[c].pc = "updDelete" /\ call[c].at = "reply"
      BY <1>1, <2>1, <3>1, <3>2 DEF Goes, Finished
    <3> QED BY <2>1, <2>2, <3>3 DEF MoveTracks, iosVars
  <2>3. ASSUME NEW d \in Calls, Handlers(d)
        PROVE  FALSE
    <3>1. PICK ok \in BOOLEAN, val \in Values : Handled(d, ok, val)
      BY <1>1, <2>3, HandlersDo DEF MInv
    <3>2. Answered(call[d], ok, val).pc = call[d].pc
      BY <3>1, AnsweredType DEF Handled, Values
    <3>3. call'[c].pc = call[c].pc
      BY <1>1, <3>1, <3>2, MKnown DEF Handled
    <3> QED BY <2>1, <3>3
  <2>4. CASE CloudSynced
    BY <2>1, <2>4 DEF CloudSynced, dartVars
  <2>5. CASE AppKilled
    BY <2>1, <2>5 DEF AppKilled, DartKilled, Idle, Ended
  <2>6. CASE UNCHANGED vars
    BY <2>1, <2>6 DEF vars, dartVars
  <2> QED BY <1>1, <2>2, <2>3, <2>4, <2>5, <2>6 DEF Next
<1>2. MInv /\ [Next]_vars => (Steady(env) => LocalUpdateLeavesCloud)
  BY <1>1 DEF LocalUpdateLeavesCloud
<1>3. Spec => [][Steady(env) => LocalUpdateLeavesCloud]_vars
  BY <1>2, MoveInvariant, PTL DEF Spec
<1> QED BY <1>3 DEF MovesLeaveCloud

-----------------------------------------------------------------------------
(* What the cache will hold, with one item in use.                         *)

\* The other item is empty.
OneItemOK ==
  /\ NoMnemonic \in {icloud, device}
  /\ device # NoMnemonic => \A cfg \in env.configs : ~cfg.saveToCloud
  /\ icloud # NoMnemonic => \A cfg \in env.configs : cfg.saveToCloud

\* No call that derives a wallet will be refused, and the last wallet that will be
\* cached is the stored one.
CacheOK ==
  /\ Queued(channel, "channel", call) /\ Queued(replies, "reply", call)
  /\ OneItem(env) =>
       /\ OneItemOK
       /\ everStored \cap Invalid = {} =>
            /\ \A c \in Calls : DerivesOK(call[c])
            /\ Latest(call, channel, replies, cachedWallet, Stored)

CacheInv == MInv /\ CacheOK

LEMMA OneItemOnes ==
  ASSUME OneItem(env)
  PROVE  /\ "permanentlyDeleteWallet" \notin env.ops /\ "updateWalletStorage" \notin env.ops
         /\ "write" \notin env.faults /\ "sync" \notin env.faults
         /\ \A item, m : Outcomes(item, m, "write") = {m}
         /\ \A cfg1, cfg2 \in env.configs : cfg1.saveToCloud = cfg2.saveToCloud
BY DEF OneItem, Outcomes

LEMMA CacheDart ==
  ASSUME CacheInv, NEW c \in Calls, AppCalls(c) \/ Continuations(c), UNCHANGED iosVars
  PROVE  CacheOK'
<1>1. Dart(Trusted) /\ Runs(call[c], env) /\ CacheOK
  BY MKnown DEF CacheInv
<1>2. Queued(channel', "channel", call') /\ Queued(replies', "reply", call')
  BY <1>1, QueuedGo DEF CacheOK
<1>3. env' = env /\ UNCHANGED <<icloud, device, everStored>> /\ Stored' = Stored
  BY <1>1, AppCallsStep, ContinuationsStep DEF Moves, iosVars, Stored
<1>4. ASSUME OneItem(env), everStored \cap Invalid = {}
      PROVE  /\ \A d \in Calls : DerivesOK(call'[d])
             /\ Latest(call', channel', replies', cachedWallet', Stored)
  BY <1>1, <1>4, OneItemOnes, LatestGoes DEF CacheOK
<1> QED BY <1>1, <1>2, <1>3, <1>4 DEF CacheOK, OneItemOK

\* A handler that tells a call a phrase tells it the stored one.
LEMMA CacheHandled ==
  ASSUME CacheInv, NEW c \in Calls, Handlers(c)
  PROVE  CacheOK'
<1>1. /\ MInv /\ CacheOK /\ Dart(Trusted) /\ call \in [Calls -> CallState]
      /\ NoMnemonic \notin Mnemonics
      /\ CallOK(call[c], Trusted) /\ Runs(call[c], env)
      /\ replies \in Seq(Calls) /\ channel \in Seq(Calls)
      /\ QueueOK(channel, "channel", call)
  BY MKnown DEF CacheInv, Dart, DartOK
<1>2. PICK ok \in BOOLEAN, val \in Values : Handled(c, ok, val)
  BY <1>1, HandlersDo DEF MInv
<1> DEFINE t == call[c]
           u == Answered(t, ok, val)
<1>3. /\ t \in CallState /\ t.pc \in Points /\ t.at = "channel"
      /\ channel # <<>> /\ c = Head(channel) /\ channel' = Tail(channel)
      /\ call' = [call EXCEPT ![c] = u] /\ replies' = Append(replies, c)
      /\ env' = env /\ cachedWallet' = cachedWallet
  BY <1>2 DEF Handled
<1>4. /\ u \in CallState /\ u.pc = t.pc /\ u.m = t.m /\ u.r = t.r /\ u.at = "reply"
      /\ u.ok = ok /\ u.val = val
  BY <1>3, AnsweredType DEF Values
<1>5. /\ Queued(channel', "channel", call') /\ Queued(replies', "reply", call')
  <2>1. Queued(Tail(channel), "channel", [call EXCEPT ![Head(channel)] = u])
    BY <1>1, <1>3, <1>4, QueuedPopped DEF CacheOK
  <2>2. Queued(Append(replies, c), "reply", [call EXCEPT ![c] = u])
    BY <1>1, <1>4, QueuedPushed DEF CacheOK
  <2> QED BY <1>3, <2>1, <2>2
<1>6. SUFFICES ASSUME OneItem(env)
               PROVE  /\ OneItemOK'
                      /\ everStored' \cap Invalid = {} =>
                           /\ \A d \in Calls : DerivesOK(call'[d])
                           /\ Latest(call', channel', replies', cachedWallet', Stored')
  BY <1>3, <1>5 DEF CacheOK
<1>7. OneItemOK /\ t.pc \notin {"updRead", "updSave", "updDelete", "delete"}
  BY <1>1, <1>3, <1>6, OneItemOnes DEF CacheOK, Runs, Waits
<1>8. ASSUME t.pc = "save"
      PROVE  OneItemOK' /\ Stored' = t.m /\ everStored \subseteq everStored'
  <2>1. t.m \in Mnemonics /\ t.cfg \in env.configs
    BY <1>1, <1>3, <1>8 DEF CallOK, Carrying, Runs, Waits
  <2>2. /\ t.cfg.saveToCloud => icloud' = t.m /\ device' = device
        /\ ~t.cfg.saveToCloud => device' = t.m /\ icloud' = icloud
        /\ everStored \subseteq everStored'
    BY <1>2, <1>6, <1>8, OneItemOnes
       DEF Handled, Written, saveToiCloudKeychain, saveToDeviceKeychain
  <2>3. \A cfg \in env.configs : cfg.saveToCloud = t.cfg.saveToCloud
    BY <1>6, <2>1, OneItemOnes
  <2>4. CASE t.cfg.saveToCloud
    BY <1>1, <1>3, <1>7, <2>1, <2>2, <2>3, <2>4 DEF OneItemOK, Stored
  <2>5. CASE ~t.cfg.saveToCloud
    BY <1>1, <1>3, <1>7, <2>1, <2>2, <2>3, <2>5 DEF OneItemOK, Stored
  <2> QED BY <2>2, <2>4, <2>5
<1>9. t.pc # "save" => UNCHANGED iosVars
  BY <1>2, <1>7 DEF Handled
<1>10. t.pc # "save" => OneItemOK' /\ Stored' = Stored /\ everStored' = everStored
  BY <1>3, <1>7, <1>9 DEF OneItemOK, Stored, iosVars
<1>11. OneItemOK' /\ everStored \subseteq everStored'
  BY <1>8, <1>10
<1> SUFFICES ASSUME everStored' \cap Invalid = {}
             PROVE  /\ \A d \in Calls : DerivesOK(call'[d])
                    /\ Latest(call', channel', replies', cachedWallet, Stored')
  BY <1>3, <1>11
<1>12. /\ everStored \cap Invalid = {} /\ \A d \in Calls : DerivesOK(call[d])
       /\ Latest(call, channel, replies, cachedWallet, Stored)
  BY <1>1, <1>6, <1>11 DEF CacheOK
<1>13. t.pc \in Deriving => ok = TRUE /\ KeyPhrase(c) \notin Invalid
  <2>1. Trusted = everStored
    BY <1>6, OneItemOnes DEF Trusted
  <2>2. t.pc \in Deriving => KeyPhrase(c) \in everStored
    BY <1>1, <2>1 DEF CallOK, KeyPhrase, Deriving
  <2> QED BY <1>2, <1>12, <2>2 DEF Handled, Deriving
<1>14. \A d \in Calls : DerivesOK(call'[d])
  <2>1. DerivesOK(u)
    BY <1>4, <1>13 DEF DerivesOK
  <2> QED BY <1>1, <1>3, <1>12, <2>1
<1>15. CASE t.pc \in Deriving
  <2>1. t.pc # "save"
    BY <1>15 DEF Deriving
  <2>2. Latest([call EXCEPT ![c] = Answered(call[c], ok, val)], Tail(channel),
               Append(replies, c), cachedWallet, Stored)
    BY <1>1, <1>3, <1>12, <1>15, LatestDerived DEF CacheOK, Values
  <2> QED BY <1>3, <1>10, <1>14, <2>1, <2>2
<1> HIDE DEF u
<1>16. CASE t.pc = "save"
  <2>1. Told(u) /\ u.pc \notin Deriving /\ Learned(u) = t.m
    BY <1>2, <1>4, <1>16 DEF Handled, Told, Deriving, Learned
  <2>2. Distance(u) = 3 /\ Learned(u) = Stored'
    BY <1>8, <1>16, <2>1 DEF Distance
  <2>3. Latest([call EXCEPT ![c] = u], channel', Append(replies, c), cachedWallet, Learned(u))
    BY <1>1, <1>4, <2>2, LatestTold DEF CacheOK
  <2> QED BY <1>3, <1>14, <2>2, <2>3
<1>17. CASE t.pc \in {"read", "checkRead"} /\ val # NoMnemonic
  <2>1. ok /\ val \in Read
    BY <1>2, <1>17 DEF Handled, Reading
  <2>2. val = Stored
    <3>1. NoMnemonic \in {icloud, device}
      BY <1>7 DEF OneItemOK
    <3> QED BY <1>17, <2>1, <3>1 DEF Read, Found, Stored
  <2>3. Told(u) /\ u.pc \notin Deriving /\ Learned(u) = val
    BY <1>4, <1>17, <2>1 DEF Told, Deriving, Learned
  <2>4. Distance(u) = 3 /\ Learned(u) = Stored'
    BY <1>10, <1>17, <2>2, <2>3 DEF Distance
  <2>5. Latest([call EXCEPT ![c] = u], channel', Append(replies, c), cachedWallet, Learned(u))
    BY <1>1, <1>4, <2>4, LatestTold DEF CacheOK
  <2> QED BY <1>3, <1>14, <2>4, <2>5
<1>18. CASE /\ t.pc \notin Deriving /\ t.pc # "save"
            /\ ~(t.pc \in {"read", "checkRead"} /\ val # NoMnemonic)
  <2>1. Distance(t) = 0 /\ Distance(u) = 0
    BY <1>3, <1>4, <1>18 DEF Distance, Told
  <2>2. Follows(channel, channel', c) /\ Follows(replies, replies', c)
    BY <1>1, <1>3, FollowsPopped, FollowsPushed
  <2>3. Latest([call EXCEPT ![c] = u], channel', replies', cachedWallet, Stored)
    BY <1>1, <1>4, <1>12, <2>1, <2>2, LatestAside
  <2> QED BY <1>3, <1>10, <1>14, <1>18, <2>3
<1> QED BY <1>15, <1>16, <1>17, <1>18

LEMMA CacheElse ==
  ASSUME CacheInv, CloudSynced \/ AppKilled \/ UNCHANGED vars
  PROVE  CacheOK'
<1>1. CacheOK
  BY DEF CacheInv
<1>2. CASE CloudSynced
  <2>1. ~OneItem(env) /\ UNCHANGED <<env, call, channel, replies>>
    BY <1>2, OneItemOnes DEF CloudSynced, dartVars
  <2> QED BY <1>1, <2>1 DEF CacheOK
<1>3. CASE AppKilled
  <2>1. /\ UNCHANGED <<env, icloud, device, everStored>> /\ Stored' = Stored
        /\ cachedWallet' = NoMnemonic
        /\ \A c \in Calls : call'[c] = Idle
    BY <1>3 DEF AppKilled, DartKilled, iosVars, Stored
  <2>2. /\ \A d \in Calls : call'[d].at = "none" /\ call'[d].pc \notin Deriving
    BY <2>1 DEF Idle, Ended, Deriving
  <2>3. /\ \A d \in Calls : DerivesOK(call'[d]) /\ Distance(call'[d]) = 0
    BY <2>2 DEF DerivesOK, Distance, Told
  <2>4. Queued(channel', "channel", call') /\ Queued(replies', "reply", call')
    BY <2>2 DEF Queued
  <2>5. Latest(call', channel', replies', cachedWallet', Stored)
    BY <2>1, <2>3 DEF Latest
  <2> QED BY <1>1, <2>1, <2>3, <2>4, <2>5 DEF CacheOK, OneItemOK
<1>4. CASE UNCHANGED vars
  <2>1. UNCHANGED <<env, call, channel, replies, cachedWallet, icloud, device, everStored>>
    BY <1>4 DEF vars, dartVars, iosVars
  <2> QED BY <1>1, <2>1 DEF CacheOK, OneItemOK, Stored
<1> QED BY <1>2, <1>3, <1>4

LEMMA CacheInitially ==
  Init => CacheInv
<1> SUFFICES ASSUME Init PROVE CacheInv
  OBVIOUS
<1>1. \A c \in Calls : call[c].pc = "returned" /\ call[c].at = "none"
  BY DEF Init, DartInit, Idle, Ended
<1>2. \A c \in Calls : DerivesOK(call[c]) /\ Distance(call[c]) = 0
  BY <1>1 DEF DerivesOK, Distance, Told, Deriving
<1>3. Queued(channel, "channel", call) /\ Queued(replies, "reply", call)
  BY <1>1 DEF Queued
<1>4. cachedWallet = NoMnemonic /\ OneItemOK
  BY DEF Init, DartInit, OneItemOK
<1>5. Latest(call, channel, replies, cachedWallet, Stored)
  BY <1>2, <1>4 DEF Latest
<1> QED BY <1>2, <1>3, <1>4, <1>5, MovesInitially DEF CacheInv, CacheOK

LEMMA CacheInductive ==
  CacheInv /\ [Next]_vars => CacheInv'
<1> SUFFICES ASSUME CacheInv, [Next]_vars PROVE CacheInv'
  OBVIOUS
<1>1. MInv'
  BY MovesInductive DEF CacheInv
<1>2. CacheOK'
  <2>1. ASSUME NEW c \in Calls, (AppCalls(c) \/ Continuations(c)) /\ UNCHANGED iosVars
        PROVE  CacheOK'
    BY <2>1, CacheDart
  <2>2. ASSUME NEW c \in Calls, Handlers(c)
        PROVE  CacheOK'
    BY <2>2, CacheHandled
  <2>3. CASE CloudSynced \/ AppKilled \/ UNCHANGED vars
    BY <2>3, CacheElse
  <2> QED BY <2>1, <2>2, <2>3 DEF Next
<1> QED BY <1>1, <1>2 DEF CacheInv

\* What the cache will hold: the invariant in every state.
THEOREM CacheInvariant ==
  Spec => []CacheInv
<1> QED BY CacheInitially, CacheInductive, PTL DEF Spec

\* With one item in use, concurrent calls, reads that fail and restarts: between calls
\* the cached wallet is the stored one.  The two queues of the method channel keep the
\* order, so the call that was told the stored phrase last caches it last.
THEOREM CacheAgreesWithStored ==
  Spec => []CacheStaysTrue
<1>1. CacheInv => CacheStaysTrue
  <2> SUFFICES ASSUME CacheInv, OneItem(env), everStored \cap Invalid = {},
                      \A c \in Calls : ~Running(c)
               PROVE  cachedWallet \in {NoMnemonic, Stored}
    BY DEF CacheStaysTrue, CacheAgrees
  <2>1. Latest(call, channel, replies, cachedWallet, Stored)
    BY DEF CacheInv, CacheOK
  <2>2. \A c \in Calls : call[c].pc \in {"returned", "threw"}
    BY DEF Running
  <2>3. \A c \in Calls : Distance(call[c]) = 0
    BY <2>2 DEF Distance, Told, Deriving
  <2> QED BY <2>1, <2>3 DEF Latest
<1> QED BY <1>1, CacheInvariant, PTL

-----------------------------------------------------------------------------
(* WalletIos implements WalletContract, for any phrases and environments   *)
(* with one storage location, an app that awaits each call, and a keychain *)
(* that does what it is told; the app may be killed at any moment.         *)
(*                                                                         *)
(* A call is a chain of up to six platform calls, of which one writes.     *)
(* What it has read is still what is stored when it uses it, since no      *)
(* other call runs: Agrees (WalletManager_proofs) says so for each point.   *)

\* The phrases pass the check, and the environments are those of the contract.
OneLocation(e) ==
  /\ e.serial
  /\ e.faults \subseteq {"kill"}
  /\ \/ \A cfg \in e.configs : cfg.saveToCloud
     \/ \A cfg \in e.configs : ~cfg.saveToCloud

ContractAssumption ==
  /\ Invalid = {}
  /\ \A e \in Environments : OneLocation(e)

\* The item that is not in use is empty.
LocationOK ==
  \/ device = NoMnemonic /\ \A cfg \in env.configs : cfg.saveToCloud
  \/ icloud = NoMnemonic /\ \A cfg \in env.configs : ~cfg.saveToCloud

CInv ==
  /\ IInv
  /\ LocationOK
  /\ Alone
  /\ \A c \in Calls : Active(c) => Agrees(call[c], Stored, env.configs)
  /\ cachedWallet \in {NoMnemonic, Stored} \/ \E c \in Calls : Confirmed(call[c])

\* A step of the contract, or none.
ContractStep == [Contract!Next]_(Contract!contractVars)

\* What is known in every state.
LEMMA Known ==
  ASSUME CInv
  PROVE  /\ call \in [Calls -> CallState]
         /\ Dart(Trusted)
         /\ Stored \in Mnemonics \cup {NoMnemonic}
         /\ cachedWallet \in Mnemonics \cup {NoMnemonic}
         /\ \A c \in Calls : call[c] \in CallState /\ (Active(c) => call[c].pc \in Points)
<1>1. Dart(Trusted) /\ ItemsOK /\ Trusted \subseteq Mnemonics
  BY DEF CInv, IInv, Dart, DartOK
<1>2. call \in [Calls -> CallState] /\ cachedWallet \in Mnemonics \cup {NoMnemonic}
  BY <1>1 DEF Dart, DartOK
<1>3. Stored \in Mnemonics \cup {NoMnemonic}
  BY <1>1 DEF ItemsOK, Stored
<1>4. \A c \in Calls : call[c] \in CallState /\ (Active(c) => call[c].pc \in Points)
  BY <1>2 DEF CallState, Active
<1> QED BY <1>1, <1>2, <1>3, <1>4

\* While c runs, no other call does, and the cache is right until c has its effect.
LEMMA RunsAlone ==
  ASSUME CInv, NEW c \in Calls, Active(c)
  PROVE  /\ \A d \in Calls : Active(d) => d = c
         /\ ~Confirmed(call[c]) => cachedWallet \in {NoMnemonic, Stored}
         /\ Agrees(call[c], Stored, env.configs)
<1>1. \A d \in Calls : Active(d) => d = c
  BY DEF CInv, Alone
<1>2. \A d \in Calls : Confirmed(call[d]) => Active(d)
  BY DEF Confirmed, Active, Finished
<1> QED BY <1>1, <1>2 DEF CInv

-----------------------------------------------------------------------------
(* Steps.                                                                  *)

\* A step of one call, seen by the contract.
LEMMA Sets ==
  ASSUME CInv, NEW c \in Calls, NEW s, call' = [call EXCEPT ![c] = s],
         NEW op, NEW stage, NEW overwrite, NEW val,
         Seen(s) = [op |-> op, stage |-> stage, overwrite |-> overwrite, val |-> val]
  PROVE  Contract!Set(c, op, stage, overwrite, val)
<1> DEFINE r == [op |-> op, stage |-> stage, overwrite |-> overwrite, val |-> val]
<1>1. \A d \in Calls : call'[d] = IF d = c THEN s ELSE call[d]
  BY Known
<1>2. Seen(s) = r
  OBVIOUS
<1> HIDE DEF r
<1> DEFINE before == [d \in Calls |-> Seen(call[d])]
           after == [d \in Calls |-> Seen(call'[d])]
<1>3. \A d \in Calls : after[d] = IF d = c THEN r ELSE before[d]
  BY <1>1, <1>2
<1>4. /\ after = [d \in Calls |-> after[d]]
      /\ before = [d \in Calls |-> before[d]]
  OBVIOUS
<1> HIDE DEF before, after
<1>5. after = [before EXCEPT ![c] = r]
  BY <1>3, <1>4
<1> QED BY <1>5 DEF r, before, after, Contract!Set

\* A step the contract does not see.
LEMMA Unseen ==
  ASSUME CInv, NEW c \in Calls, NEW s, call' = [call EXCEPT ![c] = s],
         Seen(s) = Seen(call[c]), Stored' = Stored
  PROVE  ContractStep
<1>1. \A d \in Calls : Seen(call'[d]) = Seen(call[d])
  BY Known
<1>2. [d \in Calls |-> Seen(call'[d])] = [d \in Calls |-> Seen(call[d])]
  BY <1>1
<1> QED BY <1>2 DEF ContractStep, Contract!contractVars

\* A step of one call keeps the invariant, when it tracks what is stored then.
LEMMA Keeps ==
  ASSUME CInv, IInv', NEW c \in Calls, NEW s \in CallState, call' = [call EXCEPT ![c] = s],
         env' = env, \A d \in Calls : Active(d) => d = c, LocationOK',
         s.pc \notin Finished => Agrees(s, Stored', env.configs),
         cachedWallet' \in {NoMnemonic, Stored'} \/ Confirmed(s)
  PROVE  CInv'
<1>1. \A d \in Calls : call'[d] = IF d = c THEN s ELSE call[d]
  BY Known
<1>2. \A d \in Calls : Active(d)' => d = c
  BY <1>1 DEF Active
<1>3. Alone'
  BY <1>2 DEF Alone
<1>4. \A d \in Calls : Active(d)' => Agrees(call'[d], Stored', env'.configs)
  BY <1>1, <1>2 DEF Active
<1>5. cachedWallet' \in {NoMnemonic, Stored'} \/ \E d \in Calls : Confirmed(call'[d])
  BY <1>1
<1> QED BY <1>3, <1>4, <1>5 DEF CInv

\* The stores stay as they are, and with them where the wallet is.
LEMMA StoresStay ==
  ASSUME CInv, env' = env, UNCHANGED <<icloud, device>>
  PROVE  LocationOK' /\ Stored' = Stored
BY DEF CInv, LocationOK, Stored

\* What the Dart half does in a step is a step of the contract, or none.
LEMMA ContractServed ==
  ASSUME CInv, IInv', NEW c \in Calls, Served(c, Stored),
         \A d \in Calls : Active(d) => d = c, UNCHANGED <<icloud, device>>
  PROVE  CInv' /\ ContractStep
<1> DEFINE r == Seen(call[c])
<1>1. PICK s \in CallState :
        /\ call' = [call EXCEPT ![c] = s] /\ env' = env
        /\ s.pc \notin Finished => Agrees(s, Stored, env.configs)
        /\ cachedWallet' \in {NoMnemonic, Stored} \/ (s.pc \notin Finished /\ Confirmed(s))
        /\ Serves(r, Seen(s), Stored)
  BY DEF Served
<1>2. LocationOK' /\ Stored' = Stored
  BY <1>1, StoresStay
<1>3. CInv'
  BY <1>1, <1>2, Keeps
<1>4. ASSUME NEW op, NEW stage, NEW overwrite, NEW val, Seen(s) = Req(op, stage, overwrite, val)
      PROVE  Contract!Set(c, op, stage, overwrite, val)
  <2>1. Seen(s) = [op |-> op, stage |-> stage, overwrite |-> overwrite, val |-> val]
    BY <1>4 DEF Req
  <2> QED BY <1>1, <2>1, Sets
<1>5. [d \in Calls |-> Seen(call[d])][c] = r
  OBVIOUS
<1>6. ASSUME NEW how, NEW val, Seen(s) = Result(r.op, how, val)
      PROVE  Contract!End(c, how, val)
  <2>1. Contract!Set(c, r.op, how, FALSE, val)
    BY <1>4, <1>6 DEF Result
  <2> QED BY <1>5, <2>1 DEF Contract!End
<1>7. ASSUME NEW ops, r.stage = "open", r.op \in ops
      PROVE  Contract!Open(c, ops)
  BY <1>5, <1>7 DEF Contract!Open
<1> HIDE DEF r
<1>8. CASE Seen(s) = r
  BY <1>1, <1>2, <1>3, <1>8, Unseen DEF r
<1>9. CASE /\ NoneActive
           /\ \/ \E op \in Operations, overwrite \in BOOLEAN :
                   Seen(s) = Req(op, "open", overwrite, NoMnemonic)
              \/ Seen(s) = Result("getWallet", "returned", Stored)
              \/ Stored # NoMnemonic /\ Seen(s) = Result("importExistingWallet", "threw", NoMnemonic)
  <2>1. Contract!Free
    <3>1. \A d \in Calls : Seen(call[d]).stage \in Finished
      BY <1>9 DEF NoneActive, Active, Seen, Request, Stage
    <3> QED BY <3>1 DEF Contract!Free, Contract!Over, Finished
  <2>2. ASSUME NEW op \in Operations, NEW overwrite \in BOOLEAN,
               Seen(s) = Req(op, "open", overwrite, NoMnemonic)
        PROVE  Contract!Invoke(c)
    <3>1. op \in Contract!ContractOps
      BY DEF Operations, Contract!ContractOps, Contract!Saving, Contract!Reading
    <3>2. Contract!Set(c, op, "open", overwrite, NoMnemonic)
      BY <1>4, <2>2
    <3> QED BY <1>2, <2>1, <3>1, <3>2 DEF Contract!Invoke
  <2>3. ASSUME \/ Seen(s) = Result("getWallet", "returned", Stored)
               \/ Stored # NoMnemonic /\ Seen(s) = Result("importExistingWallet", "threw", NoMnemonic)
        PROVE  Contract!AtOnce(c)
    <3>1. \/ Contract!Set(c, "getWallet", "returned", FALSE, Stored)
          \/ Stored # NoMnemonic /\ Contract!Set(c, "importExistingWallet", "threw", FALSE, NoMnemonic)
      BY <1>4, <2>3 DEF Result
    <3> QED BY <1>2, <2>1, <3>1 DEF Contract!AtOnce
  <2> QED BY <1>3, <1>9, <2>2, <2>3 DEF ContractStep, Contract!Next
<1>10. CASE r.stage = "applied" /\ Seen(s) = Result(r.op, "returned", r.val)
  <2>1. Contract!End(c, "returned", r.val)
    BY <1>6, <1>10
  <2>2. Contract!ReturnApplied(c)
    BY <1>2, <1>5, <1>10, <2>1 DEF Contract!ReturnApplied
  <2> QED BY <1>3, <2>2 DEF ContractStep, Contract!Next
<1>11. CASE r.stage = "open" /\ r.op \in {"getWallet", "getAccountPhrase"} /\ Seen(s) = Result(r.op, "returned", Stored)
  <2>1. Contract!End(c, "returned", Stored) /\ Contract!Open(c, Contract!Reading)
    BY <1>6, <1>7, <1>11 DEF Contract!Reading
  <2>2. Contract!ReturnRead(c)
    BY <1>2, <2>1 DEF Contract!ReturnRead
  <2> QED BY <1>3, <2>2 DEF ContractStep, Contract!Next
<1>12. ASSUME r.stage = "open", r.op = "walletEligibleForCloudSync",
              NEW eligible \in BOOLEAN, eligible => Stored # NoMnemonic,
              Seen(s) = Result(r.op, "returned", eligible)
       PROVE  ContractStep
  <2>1. Contract!End(c, "returned", eligible) /\ Contract!Open(c, {"walletEligibleForCloudSync"})
    BY <1>6, <1>7, <1>12
  <2>2. Contract!ReturnEligible(c)
    BY <1>2, <1>12, <2>1 DEF Contract!ReturnEligible
  <2> QED BY <2>2 DEF ContractStep, Contract!Next
<1>13. CASE r.stage = "open" /\ r.op = "updateWalletStorage" /\ Stored # NoMnemonic /\ Seen(s) = Result(r.op, "returned", NoMnemonic)
  <2>1. Contract!End(c, "returned", NoMnemonic) /\ Contract!Open(c, {"updateWalletStorage"})
    BY <1>6, <1>7, <1>13
  <2>2. Contract!ReturnUpdated(c)
    BY <1>2, <1>13, <2>1 DEF Contract!ReturnUpdated
  <2> QED BY <1>3, <2>2 DEF ContractStep, Contract!Next
<1>14. CASE r.stage = "open" /\ r.op \in Savers \cup {"updateWalletStorage"} /\ Seen(s) = Result(r.op, "threw", NoMnemonic)
  <2>1. Contract!End(c, "threw", NoMnemonic) /\ Contract!Open(c, Contract!Saving \cup {"updateWalletStorage"})
    BY <1>6, <1>7, <1>14 DEF Contract!Saving, Savers
  <2>2. Contract!Throw(c)
    BY <1>2, <2>1 DEF Contract!Throw
  <2> QED BY <1>3, <2>2 DEF ContractStep, Contract!Next
<1> QED BY <1>1, <1>3, <1>8, <1>9, <1>10, <1>11, <1>12, <1>13, <1>14 DEF Serves

\* A step of the Dart half.
LEMMA ContractDart ==
  ASSUME ContractAssumption, CInv, IInv', NEW c \in Calls,
         AppCalls(c) \/ Continuations(c), UNCHANGED iosVars
  PROVE  CInv' /\ ContractStep
<1>1. /\ UNCHANGED <<icloud, device>> /\ Dart(Trusted) /\ env.serial
      /\ Stored \in Mnemonics \cup {NoMnemonic}
  BY Known DEF iosVars, Dart, ContractAssumption, OneLocation
<1>2. \A d \in Calls : Active(d) => d = c
  BY <1>1, OnlyOneRuns DEF CInv
<1>3. Serving(c, Stored)
  <2>1. \A d \in Calls : Confirmed(call[d]) => Active(d)
    BY DEF Confirmed, Active, Finished
  <2> QED BY <1>2, <2>1 DEF CInv, Serving
<1>4. Served(c, Stored)
  BY <1>1, <1>3, DartServes
<1> QED BY <1>1, <1>2, <1>4, ContractServed

-----------------------------------------------------------------------------
(* The plugin's handlers.                                                  *)

\* What a handler finds: the call that waits, alone.
LEMMA HandlerRuns ==
  ASSUME CInv, NEW c \in Calls, NEW method, Requested(c, method)
  PROVE  /\ call[c] \in CallState /\ call[c].at = "channel" /\ call[c].pc \in Points
         /\ Awaited[call[c].pc] = method /\ env' = env /\ Active(c)
         /\ CallOK(call[c], Trusted)
         /\ \A d \in Calls : Active(d) => d = c
         /\ ~Confirmed(call[c]) => cachedWallet \in {NoMnemonic, Stored}
         /\ Agrees(call[c], Stored, env.configs)
<1>1. /\ call[c] \in CallState /\ call[c].at = "channel" /\ call[c].pc \in Points
      /\ Awaited[call[c].pc] = method /\ env' = env /\ CallOK(call[c], Trusted)
  BY Known, RequestIs
<1>2. Active(c)
  BY <1>1, PointsAre DEF Active, Finished
<1> QED BY <1>1, <1>2, RunsAlone

\* A handler answers.
LEMMA Handles ==
  ASSUME CInv, IInv', NEW c \in Calls, NEW method, Requested(c, method),
         NEW val \in Mnemonics \cup {NoMnemonic} \cup BOOLEAN, Reply(c, TRUE, val),
         LocationOK', UNCHANGED cachedWallet,
         Agrees(Answered(call[c], TRUE, val), Stored', env.configs),
         Stored' = Stored \/ call[c].pc \in {"save", "delete"}
  PROVE  /\ CInv'
         /\ call[c].pc \notin {"save", "delete"} => ContractStep
         /\ call[c].pc \in {"save", "delete"} =>
              Contract!Set(c, call[c].op, "applied", call[c].overwrite, call[c].m)
<1> DEFINE s == Answered(call[c], TRUE, val)
<1>1. call' = [call EXCEPT ![c] = s]
  BY ReplySends
<1>2. /\ call[c] \in CallState /\ call[c].at = "channel" /\ call[c].pc \in Points
      /\ env' = env /\ \A d \in Calls : Active(d) => d = c
      /\ ~Confirmed(call[c]) => cachedWallet \in {NoMnemonic, Stored}
  BY HandlerRuns
<1>3. /\ s \in CallState /\ s.at = "reply" /\ s.ok = TRUE /\ s.pc = call[c].pc
      /\ s.m = call[c].m /\ s.op = call[c].op /\ s.overwrite = call[c].overwrite
  BY <1>2, AnsweredType, AnsweredIs
<1>4. /\ Confirmed(call[c]) <=> call[c].pc = "makeKey"
      /\ Confirmed(s) <=> call[c].pc \in {"makeKey", "save", "delete"}
  BY <1>2, <1>3 DEF Confirmed
<1> HIDE DEF s
<1>5. CInv'
  BY <1>1, <1>2, <1>3, <1>4, Keeps DEF s
<1>6. ASSUME call[c].pc \notin {"save", "delete"} PROVE ContractStep
  <2>1. Seen(s) = Seen(call[c]) /\ Stored' = Stored
    BY <1>2, <1>3, <1>4, <1>6, SeenIs
  <2> QED BY <1>1, <2>1, Unseen
<1>7. ASSUME call[c].pc \in {"save", "delete"}
      PROVE  Contract!Set(c, call[c].op, "applied", call[c].overwrite, call[c].m)
  <2>1. Seen(s) = [op |-> call[c].op, stage |-> "applied",
                      overwrite |-> call[c].overwrite, val |-> call[c].m]
    BY <1>2, <1>3, <1>4, <1>7, SeenIs DEF Req
  <2> QED BY <1>1, <2>1, Sets
<1> QED BY <1>5, <1>6, <1>7

\* The keychain does what it is told.
LEMMA Works ==
  ASSUME ContractAssumption, CInv
  PROVE  /\ \A item, m : Outcomes(item, m, "write") = {m} /\ Outcomes(item, m, "delete") = {m}
         /\ \A item : Found(item) = {item}
         /\ Read = {Stored}
         /\ env.faults \subseteq {"kill"}
         /\ Invalid = {}
<1>1. env \in Environments /\ env.faults \subseteq {"kill"} /\ Invalid = {}
  BY Known DEF Dart, ContractAssumption, OneLocation
<1>2. \A item, m : Outcomes(item, m, "write") = {m} /\ Outcomes(item, m, "delete") = {m}
  BY <1>1 DEF Outcomes
<1>3. \A item : Found(item) = {item}
  BY <1>1 DEF Found
<1>4. Read = {Stored}
  BY <1>3 DEF Read, Stored
<1> QED BY <1>1, <1>2, <1>3, <1>4

\* An answer of a handler that only reads, or derives.
LEMMA ReadersStep ==
  ASSUME ContractAssumption, CInv, IInv', NEW c \in Calls,
         \/ GenerateNewMnemonic(c) \/ GetPrivateKeyFromMnemonic(c)
         \/ GetMnemonic(c) \/ MnemonicBackedUpToCloud(c)
  PROVE  CInv' /\ ContractStep
<1>1. /\ Read = {Stored} /\ Found(icloud) = {icloud} /\ Invalid = {} /\ "random" \notin env.faults
      /\ Stored \in Mnemonics \cup {NoMnemonic} /\ NoMnemonic \notin Mnemonics
  BY Works, Known, PhrasesAssumption
<1>2. CASE GenerateNewMnemonic(c)
  <2>1. PICK m \in fresh : Draw(c, m)
    BY <1>1, <1>2 DEF GenerateNewMnemonic
  <2>2. Requested(c, "generateNewMnemonic") /\ Reply(c, TRUE, m)
        /\ UNCHANGED <<cachedWallet, icloud, device>>
    BY <1>2, <2>1 DEF GenerateNewMnemonic, Draw, iosVars
  <2>3. m \in Mnemonics
    BY <2>1, Known DEF Dart, Mnemonics
  <2>4. call[c] \in CallState /\ call[c].pc = "generate" /\ Agrees(call[c], Stored, env.configs)
        /\ env' = env
    BY <2>2, HandlerRuns, AwaitedIs
  <2>5. LocationOK' /\ Stored' = Stored
    BY <2>2, <2>4, StoresStay
  <2>6. Agrees(Answered(call[c], TRUE, m), Stored, env.configs)
    BY <2>3, <2>4, AgreesAnswered DEF Reading
  <2> QED BY <2>2, <2>3, <2>4, <2>5, <2>6, Handles
<1>3. CASE GetPrivateKeyFromMnemonic(c)
  <2>1. Requested(c, "getPrivateKeyFromMnemonic") /\ Reply(c, TRUE, NoMnemonic)
        /\ UNCHANGED <<cachedWallet, icloud, device>>
    <3>1. (KeyPhrase(c) \notin Invalid) = TRUE
      BY <1>1
    <3> QED BY <1>3, <3>1 DEF GetPrivateKeyFromMnemonic, iosVars
  <2>2. /\ call[c] \in CallState /\ call[c].pc \in {"checkKey", "key", "makeKey"}
        /\ Agrees(call[c], Stored, env.configs) /\ env' = env
    BY <2>1, HandlerRuns, AwaitedIs
  <2>3. LocationOK' /\ Stored' = Stored
    BY <2>1, <2>2, StoresStay
  <2>4. Agrees(Answered(call[c], TRUE, NoMnemonic), Stored, env.configs)
    BY <2>2, AgreesAnswered DEF Reading
  <2> QED BY <2>1, <2>2, <2>3, <2>4, Handles
<1>4. CASE GetMnemonic(c)
  <2>1. Requested(c, "getMnemonic") /\ Reply(c, TRUE, Stored)
        /\ UNCHANGED <<cachedWallet, icloud, device>>
    BY <1>1, <1>4 DEF GetMnemonic, iosVars
  <2>2. /\ call[c] \in CallState /\ call[c].pc \in Reading
        /\ Agrees(call[c], Stored, env.configs) /\ env' = env
    BY <2>1, HandlerRuns, AwaitedIs
  <2>3. LocationOK' /\ Stored' = Stored
    BY <2>1, <2>2, StoresStay
  <2>4. Agrees(Answered(call[c], TRUE, Stored), Stored, env.configs)
    BY <1>1, <2>2, AgreesAnswered DEF Reading
  <2> QED BY <1>1, <2>1, <2>2, <2>3, <2>4, Handles DEF Reading
<1>5. CASE MnemonicBackedUpToCloud(c)
  <2> DEFINE val == icloud # NoMnemonic
  <2>1. Requested(c, "mnemonicBackedUpToCloud") /\ Reply(c, TRUE, val)
        /\ UNCHANGED <<cachedWallet, icloud, device>>
    BY <1>1, <1>5 DEF MnemonicBackedUpToCloud, iosVars
  <2>2. /\ call[c] \in CallState /\ call[c].pc = "eligible"
        /\ Agrees(call[c], Stored, env.configs) /\ env' = env
    BY <2>1, HandlerRuns, AwaitedIs
  <2>3. LocationOK' /\ Stored' = Stored
    BY <2>1, <2>2, StoresStay
  <2>4. val \in BOOLEAN /\ (val = TRUE => Stored # NoMnemonic)
    BY DEF Stored
  <2> HIDE DEF val
  <2>5. Agrees(Answered(call[c], TRUE, val), Stored, env.configs)
    BY <2>2, <2>4, AgreesAnswered DEF Reading
  <2> QED BY <2>1, <2>2, <2>3, <2>4, <2>5, Handles
<1> QED BY <1>2, <1>3, <1>4, <1>5

\* saveMnemonic puts the wallet where there was none, or another was to be overwritten;
\* a move puts it where it was.
LEMMA SaveStep ==
  ASSUME ContractAssumption, CInv, IInv', NEW c \in Calls, SaveMnemonic(c)
  PROVE  CInv' /\ ContractStep
<1>1. Requested(c, "saveMnemonic") /\ Reply(c, TRUE, TRUE) /\ UNCHANGED cachedWallet
  BY DEF SaveMnemonic
<1>2. /\ call[c] \in CallState /\ call[c].at = "channel" /\ call[c].pc \in {"save", "updSave"}
      /\ CallOK(call[c], Trusted) /\ Agrees(call[c], Stored, env.configs) /\ env' = env
      /\ call[c].pc \in Points
  BY <1>1, HandlerRuns, AwaitedIs
<1> DEFINE m == call[c].m
<1>3. m \in Mnemonics /\ m # NoMnemonic /\ TRUE \in Mnemonics \cup {NoMnemonic} \cup BOOLEAN
  BY <1>2, PhrasesAssumption DEF CallOK, Carrying
<1>4. call[c].cfg \in env.configs
  BY <1>2 DEF Agrees, Waits, Savers
<1>5. LocationOK' /\ Stored' = m
  <2>1. CASE call[c].cfg.saveToCloud
    <3>1. icloud' = m /\ device' = device
      BY <2>1, Works DEF SaveMnemonic, saveToiCloudKeychain
    <3> QED BY <1>2, <1>3, <1>4, <2>1, <3>1 DEF CInv, LocationOK, Stored
  <2>2. CASE ~call[c].cfg.saveToCloud
    <3>1. device' = m /\ icloud' = icloud
      BY <2>2, Works DEF SaveMnemonic, saveToDeviceKeychain
    <3> QED BY <1>2, <1>3, <1>4, <2>2, <3>1 DEF CInv, LocationOK, Stored
  <2> QED BY <2>1, <2>2
<1> DEFINE t == Answered(call[c], TRUE, TRUE)
<1>6. /\ t.at = "reply" /\ t.ok = TRUE /\ t.val = TRUE /\ t.pc = call[c].pc /\ t.m = m
      /\ t.op = call[c].op /\ t.cfg = call[c].cfg
  BY <1>2, <1>3, AnsweredIs
<1> HIDE DEF t
<1>7. Agrees(t, m, env.configs)
  <2>1. Waits(t.op, t.pc)
    BY <1>2, <1>6 DEF Agrees
  <2> QED BY <1>2, <1>4, <1>6, <2>1 DEF Agrees, Reading
<1>8. CASE call[c].pc = "updSave"
  <2>1. Stored' = Stored
    BY <1>2, <1>5, <1>8 DEF Agrees
  <2> QED BY <1>1, <1>3, <1>5, <1>7, <1>8, <2>1, Handles DEF t
<1>9. CASE call[c].pc = "save"
  <2>1. CInv' /\ Contract!Set(c, call[c].op, "applied", call[c].overwrite, m)
    BY <1>1, <1>3, <1>5, <1>7, <1>9, Handles DEF t
  <2>2. Seen(call[c]) = [op |-> call[c].op, stage |-> "open",
                            overwrite |-> call[c].overwrite, val |-> NoMnemonic]
    BY <1>2, <1>9, SeenIs DEF Confirmed, Req
  <2>3. /\ call[c].op \in Savers
        /\ call[c].overwrite \/ Stored = NoMnemonic
    BY <1>2, <1>9 DEF Agrees, Waits
  <2>4. Contract!Put(c)
    BY <1>3, <1>5, <2>1, <2>2, <2>3
       DEF Contract!Put, Contract!Open, Contract!Saving, Savers
  <2> QED BY <2>1, <2>4 DEF ContractStep, Contract!Next
<1> QED BY <1>2, <1>8, <1>9

\* deleteMnemonic removes the wallet.
LEMMA DeleteStep ==
  ASSUME ContractAssumption, CInv, IInv', NEW c \in Calls, DeleteMnemonic(c)
  PROVE  CInv' /\ ContractStep
<1>1. Requested(c, "deleteMnemonic") /\ Reply(c, TRUE, TRUE) /\ UNCHANGED cachedWallet
  BY DEF DeleteMnemonic
<1>2. /\ call[c] \in CallState /\ call[c].at = "channel" /\ call[c].pc = "delete"
      /\ Agrees(call[c], Stored, env.configs) /\ env' = env /\ call[c].pc \in Points
  BY <1>1, HandlerRuns, AwaitedIs
<1>3. icloud' = NoMnemonic /\ device' = NoMnemonic
  BY Works DEF DeleteMnemonic, deleteFromDeviceKeychain, deleteFromiCloudKeychain
<1>4. LocationOK' /\ Stored' = NoMnemonic
  BY <1>2, <1>3 DEF CInv, LocationOK, Stored
<1>5. /\ call[c].m = NoMnemonic /\ ~call[c].overwrite /\ call[c].overwrite \in BOOLEAN
      /\ call[c].op = "permanentlyDeleteWallet"
      /\ TRUE \in Mnemonics \cup {NoMnemonic} \cup BOOLEAN
  BY <1>2 DEF Agrees, Waits, CallState
<1> DEFINE t == Answered(call[c], TRUE, TRUE)
<1>6. /\ t.at = "reply" /\ t.ok = TRUE /\ t.val = TRUE /\ t.pc = call[c].pc /\ t.m = NoMnemonic
      /\ t.op = call[c].op /\ t.cfg = call[c].cfg /\ t.overwrite = call[c].overwrite
  BY <1>2, <1>5, AnsweredIs
<1> HIDE DEF t
<1>7. Agrees(t, NoMnemonic, env.configs)
  <2>1. Waits(t.op, t.pc)
    BY <1>2, <1>6 DEF Agrees
  <2> QED BY <1>2, <1>5, <1>6, <2>1 DEF Agrees, Reading
<1>8. CInv' /\ Contract!Set(c, call[c].op, "applied", call[c].overwrite, call[c].m)
  BY <1>1, <1>2, <1>4, <1>5, <1>7, Handles DEF t
<1>9. Contract!Set(c, call[c].op, "applied", FALSE, NoMnemonic)
  BY <1>5, <1>8
<1>10. Seen(call[c]) = [op |-> call[c].op, stage |-> "open",
                           overwrite |-> call[c].overwrite, val |-> NoMnemonic]
  BY <1>2, SeenIs DEF Confirmed, Req
<1>11. Contract!Remove(c)
  <2>1. /\ Seen(call[c]).op = "permanentlyDeleteWallet"
        /\ Seen(call[c]).stage = "open"
    BY <1>5, <1>10
  <2>2. Contract!Open(c, {"permanentlyDeleteWallet"})
    BY <2>1 DEF Contract!Open
  <2>3. [d \in Calls |-> Seen(call[d])][c].op = call[c].op
    BY <1>5, <2>1
  <2> QED BY <1>4, <1>9, <2>2, <2>3 DEF Contract!Remove
<1> QED BY <1>8, <1>11 DEF ContractStep, Contract!Next

\* deleteCloudMnemonic finds nothing to delete: the wallet is on the device.
LEMMA DeleteCloudStep ==
  ASSUME ContractAssumption, CInv, IInv', NEW c \in Calls, DeleteCloudMnemonic(c)
  PROVE  CInv' /\ ContractStep
<1>1. Requested(c, "deleteCloudMnemonic") /\ Reply(c, TRUE, TRUE) /\ UNCHANGED <<cachedWallet, device>>
  BY DEF DeleteCloudMnemonic
<1>2. /\ call[c] \in CallState /\ call[c].pc = "updDelete"
      /\ Agrees(call[c], Stored, env.configs) /\ env' = env
  BY <1>1, HandlerRuns, AwaitedIs
<1>3. icloud' = NoMnemonic
  BY Works DEF DeleteCloudMnemonic, deleteFromiCloudKeychain
<1>4. call[c].cfg \in env.configs /\ ~call[c].cfg.saveToCloud /\ Stored # NoMnemonic
  BY <1>2 DEF Agrees, Waits, Savers
<1>5. icloud = NoMnemonic
  BY <1>4 DEF CInv, LocationOK
<1>6. LocationOK' /\ Stored' = Stored
  BY <1>1, <1>2, <1>3, <1>5, StoresStay
<1>7. TRUE \in Mnemonics \cup {NoMnemonic} \cup BOOLEAN
  OBVIOUS
<1> DEFINE t == Answered(call[c], TRUE, TRUE)
<1>8. /\ t.at = "reply" /\ t.ok = TRUE /\ t.val = TRUE /\ t.pc = call[c].pc
      /\ t.op = call[c].op /\ t.cfg = call[c].cfg
  BY <1>2, <1>7, AnsweredIs
<1> HIDE DEF t
<1>9. Agrees(t, Stored, env.configs)
  <2>1. Waits(t.op, t.pc)
    BY <1>2, <1>8 DEF Agrees
  <2> QED BY <1>2, <1>4, <1>8, <2>1 DEF Agrees, Reading
<1> QED BY <1>1, <1>2, <1>6, <1>7, <1>9, Handles DEF t

\* All of them.
LEMMA ContractHandlers ==
  ASSUME ContractAssumption, CInv, IInv', NEW c \in Calls, Handlers(c)
  PROVE  CInv' /\ ContractStep
BY ReadersStep, SaveStep, DeleteStep, DeleteCloudStep DEF Handlers

-----------------------------------------------------------------------------
(* The theorem.                                                            *)

\* A killed app leaves what is stored.
LEMMA ContractKilled ==
  ASSUME ContractAssumption, CInv, IInv', AppKilled
  PROVE  CInv' /\ ContractStep
<1>1. /\ call' = [c \in Calls |-> Idle] /\ cachedWallet' = NoMnemonic /\ env' = env
      /\ UNCHANGED <<icloud, device>>
  BY DEF AppKilled, DartKilled, iosVars
<1>2. /\ Idle.pc = "returned" /\ Idle.op = "none" /\ Idle.overwrite = FALSE
      /\ Idle.val = NoMnemonic
  BY DEF Idle, Ended
<1>3. Seen(Idle) = [op |-> "none", stage |-> "returned", overwrite |-> FALSE, val |-> NoMnemonic]
  BY <1>2 DEF Seen, Request, Stage, Finished
<1>4. \A c \in Calls : ~Active(c)'
  BY <1>1, <1>2 DEF Active, Finished
<1>5. LocationOK' /\ Stored' = Stored
  BY <1>1, StoresStay
<1>6. CInv'
  BY <1>1, <1>4, <1>5 DEF CInv, Alone
<1>7. [c \in Calls |-> Seen(call'[c])]
        = [c \in Calls |-> [op |-> "none", stage |-> "returned", overwrite |-> FALSE,
                            val |-> NoMnemonic]]
  BY <1>1, <1>3
<1>8. Contract!Crash
  BY <1>5, <1>7 DEF Contract!Crash
<1> QED BY <1>6, <1>8 DEF ContractStep, Contract!Next

LEMMA ContractInit ==
  ASSUME ContractAssumption, Init
  PROVE  CInv /\ Contract!Init
<1>1. /\ call = [c \in Calls |-> Idle] /\ cachedWallet = NoMnemonic /\ env \in Environments
      /\ icloud = NoMnemonic /\ device = NoMnemonic
  BY DEF Init, DartInit
<1>2. /\ Idle.pc = "returned" /\ Idle.op = "none" /\ Idle.overwrite = FALSE
      /\ Idle.val = NoMnemonic
  BY DEF Idle, Ended
<1>3. Seen(Idle) = [op |-> "none", stage |-> "returned", overwrite |-> FALSE, val |-> NoMnemonic]
  BY <1>2 DEF Seen, Request, Stage, Finished
<1>4. \A c \in Calls : ~Active(c)
  BY <1>1, <1>2 DEF Active, Finished
<1>5. LocationOK
  BY <1>1 DEF ContractAssumption, OneLocation, LocationOK
<1>6. CInv
  BY <1>1, <1>4, <1>5, Initially DEF CInv, Alone
<1>7. [c \in Calls |-> Seen(call[c])]
        = [c \in Calls |-> [op |-> "none", stage |-> "returned", overwrite |-> FALSE,
                            val |-> NoMnemonic]]
  BY <1>1, <1>3
<1>8. Stored = NoMnemonic
  BY <1>1 DEF Stored
<1> QED BY <1>6, <1>7, <1>8 DEF Contract!Init

\* Every step is a step of the contract, or one it does not see.
LEMMA ContractSteps ==
  ASSUME ContractAssumption, CInv, [Next]_vars
  PROVE  CInv' /\ ContractStep
<1>1. IInv'
  BY Inductive DEF CInv
<1>2. CASE UNCHANGED vars
  <2>1. UNCHANGED <<env, cachedWallet, call, icloud, device>>
    BY <1>2 DEF vars, dartVars, iosVars
  <2>2. LocationOK' /\ Stored' = Stored
    BY <2>1, StoresStay
  <2>3. CInv'
    BY <1>1, <2>1, <2>2 DEF CInv, Alone, Active
  <2> QED BY <2>1, <2>2, <2>3 DEF ContractStep, Contract!contractVars
<1>3. ASSUME NEW c \in Calls, AppCalls(c) \/ Continuations(c), UNCHANGED iosVars
      PROVE  CInv' /\ ContractStep
  BY <1>1, <1>3, ContractDart
<1>4. ASSUME NEW c \in Calls, Handlers(c) PROVE CInv' /\ ContractStep
  BY <1>1, <1>4, ContractHandlers
<1>5. CASE CloudSynced
  BY <1>5, Works DEF CloudSynced
<1>6. CASE AppKilled
  BY <1>1, <1>6, ContractKilled
<1> QED BY <1>2, <1>3, <1>4, <1>5, <1>6 DEF Next

\* WalletIos implements WalletContract: for any phrases, whichever calls the app
\* makes one after the other and whenever it is killed, a wallet is replaced only by a
\* call told to, what a call returns is stored, and a call that throws has no effect.
THEOREM ContractImplemented ==
  ASSUME ContractAssumption
  PROVE  Spec => ContractHolds
<1>1. Init => CInv /\ Contract!Init
  BY ContractInit
<1>2. CInv /\ [Next]_vars => CInv' /\ [Contract!Next]_(Contract!contractVars)
  BY ContractSteps DEF ContractStep
<1> QED BY <1>1, <1>2, PTL DEF Spec, ContractHolds, Contract!Spec

=============================================================================
