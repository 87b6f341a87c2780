------------------------ MODULE WalletManager_proofs ------------------------
(***************************************************************************)
(* What the Dart half of the wallet keeps true whatever the platform       *)
(* does: lemmas for the proofs of the two platforms.                       *)
(*                                                                         *)
(* They are about a set of phrases that are known to be stored.  A reply   *)
(* that tells of a phrase tells of a known one; then every phrase a call   *)
(* derives a wallet from is known, and so is the cached one.  Each call is *)
(* in one place at a time, so that a reply is an answer to what the call   *)
(* asked last.                                                             *)
(***************************************************************************)
EXTENDS WalletManager, SequenceTheorems, TLAPS

Carrying == {"checkRead", "checkKey", "save", "updSave", "makeKey"}
Reading == {"checkRead", "read", "updRead", "phrase"}

\* What the state of a call says, given the phrases known to have been stored.
CallOK(s, known) ==
  /\ s.pc \in Finished => s.at = "none"
  /\ s.pc \in Carrying => s.m \in Mnemonics
  /\ s.pc \in {"checkKey", "key"} => s.r \in known
  /\ s.pc = "makeKey" => s.m \in known
  /\ s.pc \in {"save", "updSave"} /\ s.at = "reply" /\ s.ok => s.m \in known
  /\ s.pc = "generate" => s.val \in Mnemonics \cup {NoMnemonic}
  /\ s.pc \in Reading => s.val \in known \cup {NoMnemonic}

\* A queue holds each call once, and only calls that are there.
QueueOK(queue, place, state) ==
  /\ \A i \in 1..Len(queue) : state[queue[i]].at = place
  /\ \A i, j \in 1..Len(queue) : queue[i] = queue[j] => i = j

\* What is kept of the calls, their queues and the cache.
DartOK(known, calls, queue, answers, cached) ==
  /\ known \subseteq Mnemonics
  /\ calls \in [Calls -> CallState]
  /\ \A c \in Calls : CallOK(calls[c], known)
  /\ queue \in Seq(Calls) /\ QueueOK(queue, "channel", calls)
  /\ answers \in Seq(Calls) /\ QueueOK(answers, "reply", calls)
  /\ cached \in known \cup {NoMnemonic}

Dart(known) ==
  /\ DartOK(known, call, channel, replies, cachedWallet)
  /\ env \in Environments
  /\ fresh \subseteq Generated

\* A step of c alone, which the platform has nothing of.
Moves(known, c) ==
  /\ DartOK(known, call', channel', replies', cachedWallet')
  /\ call[c].at # "platform"
  /\ \E s \in CallState : call' = [call EXCEPT ![c] = s]
  /\ UNCHANGED <<env, fresh>>

-----------------------------------------------------------------------------
(* Queues.                                                                 *)

\* A queue none of whose calls is touched.
LEMMA QueueKept ==
  ASSUME NEW f \in [Calls -> CallState], NEW q \in Seq(Calls), NEW place,
         QueueOK(q, place, f), NEW c \in Calls, f[c].at # place, NEW s \in CallState
  PROVE  QueueOK(q, place, [f EXCEPT ![c] = s])
<1>1. \A i \in 1..Len(q) : q[i] \in Calls /\ q[i] # c
  BY ElementOfSeq DEF QueueOK
<1> QED BY <1>1 DEF QueueOK

\* A call sent to the end of a queue.
LEMMA QueuePushed ==
  ASSUME NEW f \in [Calls -> CallState], NEW q \in Seq(Calls), NEW place,
         QueueOK(q, place, f), NEW c \in Calls, f[c].at # place, NEW s \in CallState,
         s.at = place
  PROVE  /\ Append(q, c) \in Seq(Calls)
         /\ QueueOK(Append(q, c), place, [f EXCEPT ![c] = s])
<1>1. \A i \in 1..Len(q) : q[i] \in Calls /\ q[i] # c
  BY ElementOfSeq DEF QueueOK
<1>2. /\ Append(q, c) \in Seq(Calls)
      /\ Len(Append(q, c)) = Len(q) + 1
      /\ \A i \in 1..Len(q) : Append(q, c)[i] = q[i]
      /\ Append(q, c)[Len(q) + 1] = c
      /\ Len(q) \in Nat
  BY AppendProperties, LenProperties
<1>3. \A i \in 1..(Len(q) + 1) : i \in 1..Len(q) \/ i = Len(q) + 1
  BY <1>2
<1> QED BY <1>1, <1>2, <1>3 DEF QueueOK

\* The call at the head of a queue taken from it.
LEMMA QueuePopped ==
  ASSUME NEW f \in [Calls -> CallState], NEW q \in Seq(Calls), NEW place,
         QueueOK(q, place, f), q # <<>>, NEW s \in CallState
  PROVE  /\ Head(q) \in Calls
         /\ f[Head(q)].at = place
         /\ Tail(q) \in Seq(Calls)
         /\ QueueOK(Tail(q), place, [f EXCEPT ![Head(q)] = s])
<1>1. /\ Head(q) \in Calls /\ Head(q) = q[1] /\ Len(q) \in Nat /\ Len(q) >= 1
      /\ Tail(q) \in Seq(Calls) /\ Len(Tail(q)) = Len(q) - 1
      /\ \A i \in 1..Len(Tail(q)) : Tail(q)[i] = q[i + 1]
  BY HeadTailProperties, LenProperties, EmptySeq
<1>2. \A i \in 1..Len(Tail(q)) : /\ i + 1 \in 1..Len(q) /\ i + 1 # 1
                                 /\ q[i + 1] \in Calls /\ q[i + 1] # Head(q)
  BY <1>1, ElementOfSeq DEF QueueOK
<1>3. f[Head(q)].at = place
  BY <1>1 DEF QueueOK
<1>4. ASSUME NEW i \in 1..Len(Tail(q)), NEW j \in 1..Len(Tail(q)),
             Tail(q)[i] = Tail(q)[j]
      PROVE  i = j
  BY <1>1, <1>2, <1>4 DEF QueueOK
<1>5. \A i \in 1..Len(Tail(q)) : [f EXCEPT ![Head(q)] = s][Tail(q)[i]].at = place
  BY <1>1, <1>2 DEF QueueOK
<1> QED BY <1>1, <1>3, <1>4, <1>5 DEF QueueOK

-----------------------------------------------------------------------------
(* Steps of the Dart methods.                                              *)

\* The points at which a call waits.
LEMMA PointsAre ==
  Points = {"generate", "checkRead", "read", "updRead", "phrase", "checkKey", "key",
            "makeKey", "save", "updSave", "updDelete", "delete", "eligible"}
BY DEF Points, Awaited

\* c does not wait for the platform, or the reply it waits for is taken.
Taken(c) ==
  \/ call[c].at = "none" /\ UNCHANGED replies
  \/ replies # <<>> /\ c = Head(replies) /\ replies' = Tail(replies)

\* A call goes on to a state that is as it should be.
LEMMA DartStep ==
  ASSUME NEW known, Dart(known), NEW c \in Calls, NEW s \in CallState, CallOK(s, known),
         Taken(c), call' = [call EXCEPT ![c] = s],
         \/ s.at = "none" /\ UNCHANGED channel
         \/ s.at = "channel" /\ channel' = Append(channel, c),
         cachedWallet' \in known \cup {NoMnemonic},
         UNCHANGED <<env, fresh>>
  PROVE  Moves(known, c)
<1>1. /\ call \in [Calls -> CallState] /\ call' \in [Calls -> CallState]
      /\ channel \in Seq(Calls) /\ replies \in Seq(Calls)
      /\ QueueOK(channel, "channel", call) /\ QueueOK(replies, "reply", call)
      /\ known \subseteq Mnemonics /\ \A d \in Calls : CallOK(call[d], known)
  BY DEF Dart, DartOK
<1>2. /\ QueueOK(replies', "reply", call') /\ replies' \in Seq(Calls)
      /\ call[c].at \in {"none", "reply"}
  <2>1. CASE call[c].at = "none" /\ UNCHANGED replies
    BY <2>1, <1>1, QueueKept
  <2>2. CASE replies # <<>> /\ c = Head(replies) /\ replies' = Tail(replies)
    BY <2>2, <1>1, QueuePopped
  <2> QED BY <2>1, <2>2 DEF Taken
<1>3. QueueOK(channel', "channel", call') /\ channel' \in Seq(Calls)
  <2>1. CASE s.at = "none" /\ UNCHANGED channel
    BY <2>1, <1>1, <1>2, QueueKept
  <2>2. CASE s.at = "channel" /\ channel' = Append(channel, c)
    BY <2>2, <1>1, <1>2, QueuePushed
  <2> QED BY <2>1, <2>2
<1>4. \A d \in Calls : CallOK(call'[d], known)
  BY <1>1
<1> QED BY <1>1, <1>2, <1>3, <1>4 DEF Moves, DartOK

\* A method invokes the platform.
LEMMA AskStep ==
  ASSUME NEW known, Dart(known), NEW c \in Calls, NEW state \in CallState, NEW pc \in Points, Taken(c),
         Ask(c, state, pc),
         pc \in Carrying => state.m \in Mnemonics,
         pc \in {"checkKey", "key"} => state.r \in known,
         pc = "makeKey" => state.m \in known,
         cachedWallet' \in known \cup {NoMnemonic},
         UNCHANGED <<env, fresh>>
  PROVE  Moves(known, c)
<1> DEFINE s == [state EXCEPT !.pc = pc, !.at = "channel", !.ok = TRUE, !.val = NoMnemonic]
<1>1. s \in CallState
  BY DEF CallState
<1>2. /\ s.pc = pc /\ s.at = "channel" /\ s.val = NoMnemonic
      /\ s.m = state.m /\ s.r = state.r
  BY DEF CallState
<1>3. call' = [call EXCEPT ![c] = s] /\ channel' = Append(channel, c)
  BY DEF Ask
<1> HIDE DEF s
<1>4. CallOK(s, known)
  BY <1>2, PointsAre DEF CallOK, Finished
<1> QED BY <1>1, <1>2, <1>3, <1>4, DartStep

\* A method ends.
LEMMA FinishStep ==
  ASSUME NEW known, Dart(known), NEW c \in Calls, NEW op \in Operations \cup {"none"}, NEW how \in Finished,
         NEW val \in Mnemonics \cup {NoMnemonic} \cup BOOLEAN, Taken(c),
         Finish(c, op, how, val),
         cachedWallet' \in known \cup {NoMnemonic},
         UNCHANGED <<env, fresh>>
  PROVE  Moves(known, c)
<1>1. Ended(op, how, val) \in CallState
  BY DEF Ended, CallState, StorageConfig
<1>2. Ended(op, how, val).pc = how /\ Ended(op, how, val).at = "none"
  BY DEF Ended
<1>3. CallOK(Ended(op, how, val), known)
  BY <1>2 DEF CallOK, Finished, Carrying, Reading
<1> QED BY <1>1, <1>2, <1>3, DartStep DEF Finish

\* The end of _saveMnemonic.
LEMMA SaveUnlessExistingStep ==
  ASSUME NEW known, Dart(known), NEW c \in Calls, NEW state \in CallState, NEW exists \in BOOLEAN, Taken(c),
         SaveUnlessExisting(c, state, exists), state.m \in Mnemonics,
         cachedWallet' \in known \cup {NoMnemonic},
         UNCHANGED <<env, fresh>>
  PROVE  Moves(known, c)
<1> DEFINE saving == [state EXCEPT !.r = NoMnemonic]
<1>1. /\ saving \in CallState /\ saving.m = state.m
      /\ state.op \in Operations \cup {"none"}
  BY DEF CallState
<1> HIDE DEF saving
<1>2. CASE exists /\ ~state.overwrite
  BY <1>1, <1>2, FinishStep DEF SaveUnlessExisting, Finished
<1>3. CASE ~(exists /\ ~state.overwrite)
  <2>1. Ask(c, saving, "save")
    BY <1>3 DEF SaveUnlessExisting, saving
  <2> QED BY <2>1, <1>1, AskStep, PointsAre
<1> QED BY <1>2, <1>3

\* The start of _saveMnemonic.
LEMMA SaveMnemonicInStep ==
  ASSUME NEW known, Dart(known), NEW c \in Calls, NEW state \in CallState, Taken(c),
         SaveMnemonicIn(c, state), state.m \in Mnemonics,
         UNCHANGED <<env, cachedWallet, fresh>>
  PROVE  Moves(known, c)
<1>1. cachedWallet' \in known \cup {NoMnemonic}
  BY DEF Dart, DartOK
<1>2. CASE cachedWallet = NoMnemonic
  BY <1>1, <1>2, AskStep, PointsAre DEF SaveMnemonicIn
<1>3. CASE cachedWallet # NoMnemonic
  BY <1>1, <1>3, SaveUnlessExistingStep DEF SaveMnemonicIn
<1> QED BY <1>2, <1>3

\* A call the app makes starts from a finished one.
LEMMA CanStartIs ==
  ASSUME NEW known, Dart(known), NEW c \in Calls, NEW op \in Operations, CanStart(c, op)
  PROVE  /\ call[c].at = "none"
         /\ Started(op) \in CallState
BY DEF CanStart, Active, Dart, DartOK, CallOK, Started, Idle, Ended, CallState,
       StorageConfig, Finished

\* A call the app makes.
LEMMA AppCallsStep ==
  ASSUME NEW known, Dart(known), NEW c \in Calls, AppCalls(c)
  PROVE  Moves(known, c)
<1>1. /\ cachedWallet \in known \cup {NoMnemonic}
      /\ cachedWallet \in Mnemonics \cup {NoMnemonic}
      /\ env.configs \subseteq StorageConfig
  BY AppAssumption DEF Dart, DartOK
<1>2. CASE CreateWallet(c)
  <2>1. PICK overwrite \in BOOLEAN, cfg \in env.configs :
          Ask(c, [Started("createWallet") EXCEPT !.overwrite = overwrite, !.cfg = cfg],
              "generate")
    BY <1>2 DEF CreateWallet
  <2>2. /\ call[c].at = "none"
        /\ Started("createWallet") \in CallState
    BY <1>2, CanStartIs DEF CreateWallet, Operations
  <2>3. [Started("createWallet") EXCEPT !.overwrite = overwrite, !.cfg = cfg] \in CallState
    BY <1>1, <2>2 DEF CallState
  <2> QED
    BY <1>1, <1>2, <2>1, <2>2, <2>3, AskStep, PointsAre DEF CreateWallet, Carrying, Taken
<1>3. CASE ImportExistingWallet(c)
  <2>1. PICK m \in (Generated \ fresh) \cup External \cup Invalid,
             overwrite \in BOOLEAN, cfg \in env.configs :
          SaveMnemonicIn(c, [Started("importExistingWallet") EXCEPT
                               !.overwrite = overwrite, !.cfg = cfg, !.m = m])
    BY <1>3 DEF ImportExistingWallet
  <2>2. /\ call[c].at = "none"
        /\ Started("importExistingWallet") \in CallState
        /\ m \in Mnemonics
    BY <1>3, CanStartIs DEF ImportExistingWallet, Operations, Mnemonics
  <2>3. /\ [Started("importExistingWallet") EXCEPT
              !.overwrite = overwrite, !.cfg = cfg, !.m = m] \in CallState
        /\ [Started("importExistingWallet") EXCEPT
              !.overwrite = overwrite, !.cfg = cfg, !.m = m].m = m
    BY <1>1, <2>2 DEF CallState
  <2> QED
    BY <1>3, <2>1, <2>2, <2>3, SaveMnemonicInStep DEF ImportExistingWallet, Taken
<1>4. CASE GetWallet(c)
  <2>1. /\ call[c].at = "none"
        /\ Started("getWallet") \in CallState
    BY <1>4, CanStartIs DEF GetWallet, Operations
  <2>2. CASE cachedWallet = NoMnemonic
    BY <1>1, <1>4, <2>1, <2>2, AskStep, PointsAre DEF GetWallet, Carrying, Taken
  <2>3. CASE cachedWallet # NoMnemonic
    BY <1>1, <1>4, <2>1, <2>3, FinishStep DEF GetWallet, Operations, Finished, Taken
  <2> QED BY <2>2, <2>3
<1>5. CASE UpdateWalletStorage(c)
  <2>1. PICK cfg \in env.configs :
          Ask(c, [Started("updateWalletStorage") EXCEPT !.cfg = cfg], "updRead")
    BY <1>5 DEF UpdateWalletStorage
  <2>2. /\ call[c].at = "none"
        /\ Started("updateWalletStorage") \in CallState
    BY <1>5, CanStartIs DEF UpdateWalletStorage, Operations
  <2>3. [Started("updateWalletStorage") EXCEPT !.cfg = cfg] \in CallState
    BY <1>1, <2>2 DEF CallState
  <2> QED
    BY <1>1, <1>5, <2>1, <2>2, <2>3, AskStep, PointsAre
       DEF UpdateWalletStorage, Carrying, Taken
<1>6. CASE PermanentlyDeleteWallet(c)
  BY <1>1, <1>6, CanStartIs, AskStep, PointsAre
     DEF PermanentlyDeleteWallet, Operations, Carrying, Taken
<1>7. CASE GetAccountPhrase(c)
  BY <1>1, <1>7, CanStartIs, AskStep, PointsAre
     DEF GetAccountPhrase, Operations, Carrying, Taken
<1>8. CASE WalletEligibleForCloudSync(c)
  BY <1>1, <1>8, CanStartIs, AskStep, PointsAre
     DEF WalletEligibleForCloudSync, Operations, Carrying, Taken
<1> QED BY <1>2, <1>3, <1>4, <1>5, <1>6, <1>7, <1>8 DEF AppCalls

\* What a call knows when its reply comes.
LEMMA ReplyIs ==
  ASSUME NEW known, Dart(known), NEW c \in Calls, NEW pc \in Points, Replied(c, pc)
  PROVE  /\ Taken(c)
         /\ call[c] \in CallState
         /\ call[c].op \in Operations \cup {"none"}
         /\ call[c].pc = pc
         /\ call[c].at = "reply"
         /\ CallOK(call[c], known)
         /\ env' = env
<1>1. call \in [Calls -> CallState] /\ replies \in Seq(Calls)
  BY DEF Dart, DartOK
<1>2. call[c] \in CallState /\ call[c].op \in Operations \cup {"none"}
  BY <1>1 DEF CallState
<1>3. call[c].at = "reply"
  BY <1>1, <1>2, QueuePopped DEF Replied, Dart, DartOK
<1> QED BY <1>2, <1>3 DEF Replied, Taken, Dart, DartOK

\* A reply that reaches the method awaiting it.
LEMMA ContinuationsStep ==
  ASSUME NEW known, Dart(known), NEW c \in Calls, Continuations(c)
  PROVE  Moves(known, c)
<1>1. /\ cachedWallet \in known \cup {NoMnemonic}
      /\ known \subseteq Mnemonics
      /\ NoMnemonic \notin Mnemonics
  BY PhrasesAssumption DEF Dart, DartOK
<1>2. CASE CallThrows(c)
  <2>1. PICK pc \in Points : Replied(c, pc)
    BY <1>2 DEF CallThrows
  <2>2. CASE call[c].pc = "phrase"
    BY <1>1, <1>2, <2>1, <2>2, ReplyIs, FinishStep DEF CallThrows, Return, Finished
  <2>3. CASE call[c].pc # "phrase"
    BY <1>1, <1>2, <2>1, <2>3, ReplyIs, FinishStep DEF CallThrows, Throw, Finished
  <2> QED BY <2>2, <2>3
<1>3. CASE MnemonicGenerated(c)
  <2>1. /\ Taken(c) /\ env' = env
        /\ call[c] \in CallState /\ call[c].val \in Mnemonics
    BY <1>3, ReplyIs, PointsAre DEF MnemonicGenerated, Accepted, Rejected, CallOK
  <2>2. /\ [call[c] EXCEPT !.m = call[c].val] \in CallState
        /\ [call[c] EXCEPT !.m = call[c].val].m = call[c].val
    BY <2>1 DEF CallState
  <2> QED BY <1>3, <2>1, <2>2, SaveMnemonicInStep DEF MnemonicGenerated
<1>4. CASE ExistingRead(c)
  <2>1. /\ Taken(c) /\ env' = env
        /\ call[c] \in CallState /\ call[c].m \in Mnemonics
        /\ call[c].val \in known \cup {NoMnemonic}
    BY <1>4, ReplyIs, PointsAre DEF ExistingRead, Accepted, CallOK, Carrying, Reading
  <2>2. CASE call[c].val = NoMnemonic
    BY <1>1, <1>4, <2>1, <2>2, SaveUnlessExistingStep DEF ExistingRead
  <2>3. CASE call[c].val # NoMnemonic
    <3>1. /\ [call[c] EXCEPT !.r = call[c].val] \in CallState
          /\ [call[c] EXCEPT !.r = call[c].val].r = call[c].val
          /\ [call[c] EXCEPT !.r = call[c].val].m = call[c].m
      BY <1>1, <2>1, <2>3 DEF CallState
    <3> QED BY <1>1, <1>4, <2>1, <2>3, <3>1, AskStep, PointsAre DEF ExistingRead
  <2> QED BY <2>2, <2>3
<1>5. CASE ExistingDerived(c)
  <2>1. /\ Taken(c) /\ env' = env
        /\ call[c] \in CallState /\ call[c].m \in Mnemonics /\ call[c].r \in known
    BY <1>5, ReplyIs, PointsAre DEF ExistingDerived, Accepted, CallOK, Carrying
  <2> QED BY <1>5, <2>1, SaveUnlessExistingStep DEF ExistingDerived
<1>6. CASE MnemonicSaved(c)
  <2>1. /\ Taken(c) /\ env' = env
        /\ call[c] \in CallState /\ call[c].m \in Mnemonics /\ call[c].m \in known
    BY <1>6, ReplyIs, PointsAre DEF MnemonicSaved, Accepted, Rejected, CallOK, Carrying
  <2> QED BY <1>1, <1>6, <2>1, AskStep, PointsAre DEF MnemonicSaved
<1>7. CASE WalletMade(c)
  <2>1. /\ Taken(c) /\ env' = env /\ call[c].op \in Operations \cup {"none"}
        /\ call[c] \in CallState /\ call[c].m \in known
    BY <1>7, ReplyIs, PointsAre DEF WalletMade, Accepted, CallOK
  <2> QED BY <1>1, <1>7, <2>1, FinishStep DEF WalletMade, Return, Finished
<1>8. CASE WalletRead(c)
  <2>1. /\ Taken(c) /\ env' = env /\ call[c].op \in Operations \cup {"none"}
        /\ call[c] \in CallState /\ call[c].val \in known \cup {NoMnemonic}
    BY <1>8, ReplyIs, PointsAre DEF WalletRead, Accepted, CallOK, Reading
  <2>2. CASE call[c].val = NoMnemonic
    BY <1>1, <1>8, <2>1, <2>2, FinishStep DEF WalletRead, Return, Finished
  <2>3. CASE call[c].val # NoMnemonic
    <3>1. /\ [call[c] EXCEPT !.r = call[c].val] \in CallState
          /\ [call[c] EXCEPT !.r = call[c].val].r = call[c].val
      BY <1>1, <2>1, <2>3 DEF CallState
    <3> QED BY <1>1, <1>8, <2>1, <2>3, <3>1, AskStep, PointsAre DEF WalletRead, Carrying
  <2> QED BY <2>2, <2>3
<1>9. CASE WalletDerived(c)
  <2>1. /\ Taken(c) /\ env' = env /\ call[c].op \in Operations \cup {"none"}
        /\ call[c] \in CallState /\ call[c].r \in known
    BY <1>9, ReplyIs, PointsAre DEF WalletDerived, Accepted, CallOK
  <2> QED BY <1>1, <1>9, <2>1, FinishStep DEF WalletDerived, Return, Finished
<1>10. CASE UpdateRead(c)
  <2>1. /\ Taken(c) /\ env' = env /\ call[c].op \in Operations \cup {"none"}
        /\ call[c] \in CallState /\ call[c].val \in known \cup {NoMnemonic}
    BY <1>10, ReplyIs, PointsAre DEF UpdateRead, Accepted, CallOK, Reading
  <2>2. CASE call[c].val = NoMnemonic
    BY <1>1, <1>10, <2>1, <2>2, FinishStep DEF UpdateRead, Throw, Finished
  <2>3. CASE call[c].val # NoMnemonic
    <3>1. /\ [call[c] EXCEPT !.m = call[c].val] \in CallState
          /\ [call[c] EXCEPT !.m = call[c].val].m = call[c].val
      BY <1>1, <2>1, <2>3 DEF CallState
    <3> QED BY <1>1, <1>10, <2>1, <2>3, <3>1, AskStep, PointsAre DEF UpdateRead
  <2> QED BY <2>2, <2>3
<1>11. CASE UpdateSaved(c)
  <2>1. /\ Taken(c) /\ env' = env /\ call[c].op \in Operations \cup {"none"}
        /\ call[c] \in CallState
    BY <1>11, ReplyIs, PointsAre DEF UpdateSaved, Accepted
  <2>2. CASE call[c].cfg.saveToCloud
    BY <1>1, <1>11, <2>1, <2>2, FinishStep DEF UpdateSaved, Return, Finished
  <2>3. CASE ~call[c].cfg.saveToCloud
    BY <1>1, <1>11, <2>1, <2>3, AskStep, PointsAre DEF UpdateSaved, Carrying
  <2> QED BY <2>2, <2>3
<1>12. CASE CloudCopyDeleted(c)
  <2>1. Taken(c) /\ env' = env /\ call[c].op \in Operations \cup {"none"}
    BY <1>12, ReplyIs, PointsAre DEF CloudCopyDeleted, Accepted
  <2> QED BY <1>1, <1>12, <2>1, FinishStep DEF CloudCopyDeleted, Return, Finished
<1>13. CASE WalletDeleted(c)
  <2>1. Taken(c) /\ env' = env /\ call[c].op \in Operations \cup {"none"}
    BY <1>13, ReplyIs, PointsAre DEF WalletDeleted, Accepted
  <2> QED BY <1>13, <2>1, FinishStep DEF WalletDeleted, Return, Finished
<1>14. CASE AnswerPassedOn(c)
  <2>1. /\ Taken(c) /\ env' = env /\ call[c].op \in Operations \cup {"none"}
        /\ call[c].val \in Mnemonics \cup {NoMnemonic} \cup BOOLEAN
    BY <1>14, ReplyIs, PointsAre DEF AnswerPassedOn, Accepted, CallState
  <2> QED BY <1>1, <1>14, <2>1, FinishStep DEF AnswerPassedOn, Return, Finished
<1> QED
  BY <1>2, <1>3, <1>4, <1>5, <1>6, <1>7, <1>8, <1>9, <1>10, <1>11, <1>12, <1>13, <1>14
     DEF Continuations

-----------------------------------------------------------------------------
(* Where a call that goes on comes from, and what it leaves in the cache.   *)

Savers == {"createWallet", "importExistingWallet"}

\* The methods that wait at a point.
Waits(op, pc) ==
  /\ pc = "generate" => op = "createWallet"
  /\ pc \in {"checkRead", "checkKey", "save", "makeKey"} => op \in Savers
  /\ pc \in {"read", "key"} => op = "getWallet"
  /\ pc = "phrase" => op = "getAccountPhrase"
  /\ pc = "eligible" => op = "walletEligibleForCloudSync"
  /\ pc \in {"updRead", "updSave", "updDelete"} => op = "updateWalletStorage"
  /\ pc = "delete" => op = "permanentlyDeleteWallet"

\* A suspended call is one that the app of e makes.
Runs(s, e) ==
  s.pc \in Points =>
    /\ Waits(s.op, s.pc)
    /\ s.op \in e.ops
    /\ s.op \in Savers \cup {"updateWalletStorage"} => s.cfg \in e.configs

\* What was awaited at pc has come, and is not an error.
Heard(t, pc) == t.at = "reply" /\ t.ok /\ t.pc = pc

\* A call of the app of e goes on from t to s.
Goes(t, s, e) ==
  /\ \/ t.at = "none" /\ t.pc \in Finished
     \/ t.at = "reply" /\ t.pc \in Points /\ s.op = t.op
  /\ Runs(t, e) => Runs(s, e)
  /\ t.at = "reply" /\ s.at = "channel" => s.cfg = t.cfg
  /\ s.pc = "makeKey" => Heard(t, "save") /\ s.m = t.m
  /\ s.pc = "checkKey" => Heard(t, "checkRead") /\ s.r = t.val /\ t.val # NoMnemonic
  /\ s.pc = "key" => Heard(t, "read") /\ s.r = t.val /\ t.val # NoMnemonic
  /\ s.pc = "updSave" => Heard(t, "updRead") /\ s.m = t.val /\ t.val # NoMnemonic
  /\ s.pc = "updDelete" => Heard(t, "updSave") /\ ~t.cfg.saveToCloud
  /\ Heard(t, "save") => s.pc = "makeKey"
  /\ Heard(t, "checkRead") /\ t.val # NoMnemonic => s.pc = "checkKey"
  /\ Heard(t, "read") /\ t.val # NoMnemonic => s.pc = "key"
  /\ s.pc = "returned" => /\ t.pc \notin {"generate", "checkRead", "checkKey", "save", "updRead"}
                          /\ t.pc = "updSave" => t.cfg.saveToCloud

\* What that leaves in the cache.
Caches(t, before, after) ==
  /\ Heard(t, "makeKey") => after = t.m
  /\ Heard(t, "checkKey") \/ Heard(t, "key") => after = t.r
  /\ (\A pc \in {"makeKey", "checkKey", "key", "delete"} : ~Heard(t, pc)) => after = before

\* c goes on to s, and waits in the channel unless it has ended.
Sends(c, s) ==
  /\ s \in CallState
  /\ call' = [call EXCEPT ![c] = s]
  /\ \/ s.at = "none" /\ s.pc \in Finished /\ UNCHANGED channel
     \/ /\ s.at = "channel" /\ s.pc \in Points /\ s.ok = TRUE /\ s.val = NoMnemonic
        /\ channel' = Append(channel, c)

\* A step of c, in detail.
DartGoes(c) ==
  \E s \in CallState : /\ Sends(c, s)
                       /\ Goes(call[c], s, env)
                       /\ Caches(call[c], cachedWallet, cachedWallet')

\* One call runs, the others rest.
Alone == \A c, d \in Calls : Active(c) /\ Active(d) => c = d

\* The state of a call that has asked the platform.
Asked(state, pc) == [state EXCEPT !.pc = pc, !.at = "channel", !.ok = TRUE, !.val = NoMnemonic]

LEMMA AskedIs ==
  ASSUME NEW state \in CallState, NEW pc \in Points
  PROVE  /\ Asked(state, pc) \in CallState
         /\ Asked(state, pc).pc = pc /\ Asked(state, pc).at = "channel"
         /\ Asked(state, pc).ok = TRUE /\ Asked(state, pc).val = NoMnemonic
         /\ Asked(state, pc).op = state.op /\ Asked(state, pc).overwrite = state.overwrite
         /\ Asked(state, pc).cfg = state.cfg
         /\ Asked(state, pc).m = state.m /\ Asked(state, pc).r = state.r
BY DEF Asked, CallState

\* A method that invokes the platform, and one that ends.
LEMMA AskSends ==
  ASSUME NEW c \in Calls, NEW state \in CallState, NEW pc \in Points, Ask(c, state, pc)
  PROVE  /\ Sends(c, Asked(state, pc)) /\ Asked(state, pc) \in CallState
         /\ Asked(state, pc).pc = pc /\ Asked(state, pc).at = "channel"
         /\ Asked(state, pc).op = state.op /\ Asked(state, pc).cfg = state.cfg
         /\ Asked(state, pc).m = state.m /\ Asked(state, pc).r = state.r
<1>1. call' = [call EXCEPT ![c] = Asked(state, pc)] /\ channel' = Append(channel, c)
  BY DEF Ask, Asked
<1> QED BY <1>1, AskedIs DEF Sends

LEMMA FinishSends ==
  ASSUME NEW c \in Calls, NEW op \in Operations \cup {"none"}, NEW how \in Finished,
         NEW val \in Mnemonics \cup {NoMnemonic} \cup BOOLEAN, Finish(c, op, how, val)
  PROVE  /\ Sends(c, Ended(op, how, val)) /\ Ended(op, how, val) \in CallState
         /\ Ended(op, how, val).pc = how /\ Ended(op, how, val).at = "none"
         /\ Ended(op, how, val).op = op
<1>1. Ended(op, how, val) \in CallState
  BY DEF Ended, CallState, StorageConfig
<1>2. /\ Ended(op, how, val).pc = how /\ Ended(op, how, val).at = "none"
      /\ Ended(op, how, val).op = op
  BY DEF Ended
<1> QED BY <1>1, <1>2 DEF Finish, Sends

\* A method that goes on in _saveMnemonic.
GoesSaving(s, state) ==
  /\ s.op = state.op
  /\ \/ s.pc = "threw"
     \/ s.pc \in {"checkRead", "save"} /\ s.at = "channel" /\ s.cfg = state.cfg

LEMMA SaveUnlessExistingSends ==
  ASSUME NEW c \in Calls, NEW state \in CallState, NEW exists \in BOOLEAN,
         SaveUnlessExisting(c, state, exists)
  PROVE  \E s \in CallState : Sends(c, s) /\ GoesSaving(s, state)
<1> DEFINE saving == [state EXCEPT !.r = NoMnemonic]
<1>1. /\ saving \in CallState /\ saving.op = state.op /\ saving.cfg = state.cfg
      /\ state.op \in Operations \cup {"none"}
  BY DEF CallState
<1> HIDE DEF saving
<1>2. CASE exists /\ ~state.overwrite
  <2>1. Finish(c, state.op, "threw", NoMnemonic)
    BY <1>2 DEF SaveUnlessExisting
  <2> DEFINE s == Ended(state.op, "threw", NoMnemonic)
  <2>2. Sends(c, s) /\ s.pc = "threw" /\ s.op = state.op
    BY <1>1, <2>1, FinishSends DEF Finished
  <2> HIDE DEF s
  <2> QED BY <2>2 DEF GoesSaving, Sends
<1>3. CASE ~(exists /\ ~state.overwrite)
  <2>1. Ask(c, saving, "save")
    BY <1>3 DEF SaveUnlessExisting, saving
  <2> DEFINE s == Asked(saving, "save")
  <2>2. /\ Sends(c, s) /\ s.pc = "save" /\ s.at = "channel" /\ s.op = saving.op
        /\ s.cfg = saving.cfg
    BY <1>1, <2>1, AskSends, PointsAre
  <2> HIDE DEF s
  <2> QED BY <1>1, <2>2 DEF GoesSaving, Sends
<1> QED BY <1>2, <1>3

LEMMA SaveMnemonicInSends ==
  ASSUME NEW c \in Calls, NEW state \in CallState, SaveMnemonicIn(c, state)
  PROVE  \E s \in CallState : Sends(c, s) /\ GoesSaving(s, state)
<1>1. CASE cachedWallet = NoMnemonic
  <2> DEFINE s == Asked(state, "checkRead")
  <2>1. /\ Sends(c, s) /\ s.pc = "checkRead" /\ s.at = "channel" /\ s.op = state.op
        /\ s.cfg = state.cfg
    BY <1>1, AskSends, PointsAre DEF SaveMnemonicIn
  <2> HIDE DEF s
  <2> QED BY <2>1 DEF GoesSaving, Sends
<1>2. CASE cachedWallet # NoMnemonic
  BY <1>2, SaveUnlessExistingSends DEF SaveMnemonicIn
<1> QED BY <1>1, <1>2

\* A call the app makes: it starts one of its operations.
StartsAs(s, e) ==
  /\ s.op \in e.ops
  /\ s.pc \in Finished \/ Waits(s.op, s.pc)
  /\ s.pc \in {"generate", "checkRead", "save", "read", "updRead", "delete", "phrase",
               "eligible"} \cup Finished
  /\ s.op \in Savers \cup {"updateWalletStorage"} /\ s.pc \notin Finished
       => s.cfg \in e.configs

LEMMA StartsGoes ==
  ASSUME NEW known, Dart(known), NEW c \in Calls, ~Active(c), NEW s \in CallState,
         Sends(c, s), StartsAs(s, env), UNCHANGED cachedWallet
  PROVE  DartGoes(c)
<1>1. call[c] \in CallState /\ call[c].at = "none" /\ call[c].pc \in Finished
  BY DEF Dart, DartOK, CallOK, Active
<1>2. Runs(s, env)
  BY PointsAre DEF StartsAs, Runs, Finished
<1>3. Goes(call[c], s, env)
  BY <1>1, <1>2 DEF Goes, StartsAs, Finished, Heard
<1>4. Caches(call[c], cachedWallet, cachedWallet')
  BY <1>1 DEF Caches, Heard
<1> QED BY <1>3, <1>4 DEF DartGoes

\* The arguments an app gives a call.
Built(op, overwrite, cfg, m) ==
  [Started(op) EXCEPT !.overwrite = overwrite, !.cfg = cfg, !.m = m]

\* A call the app starts.
LEMMA StartedIs ==
  ASSUME NEW op \in Operations
  PROVE  /\ Started(op) \in CallState /\ Started(op).op = op
         /\ Started(op).m = NoMnemonic /\ Started(op).overwrite = FALSE
BY DEF Started, Idle, Ended, CallState, StorageConfig, Finished

\* And one with its arguments.
LEMMA BuiltIs ==
  ASSUME NEW op \in Operations, NEW overwrite \in BOOLEAN, NEW cfg \in StorageConfig,
         NEW m \in Mnemonics \cup {NoMnemonic}
  PROVE  /\ Built(op, overwrite, cfg, m) \in CallState
         /\ Built(op, overwrite, cfg, m).op = op
         /\ Built(op, overwrite, cfg, m).cfg = cfg
         /\ Built(op, overwrite, cfg, m).overwrite = overwrite
<1>1. Started(op) \in CallState /\ Started(op).op = op
  BY StartedIs
<1> DEFINE one == [Started(op) EXCEPT !.overwrite = overwrite]
           two == [one EXCEPT !.cfg = cfg]
<1>2. one \in CallState /\ one.op = op /\ one.overwrite = overwrite
  BY <1>1 DEF CallState
<1>3. Built(op, overwrite, cfg, m) = [two EXCEPT !.m = m]
  BY DEF Built
<1> HIDE DEF one
<1>4. two \in CallState /\ two.op = op /\ two.cfg = cfg /\ two.overwrite = overwrite
  BY <1>2 DEF CallState
<1> HIDE DEF two
<1>5. /\ [two EXCEPT !.m = m] \in CallState /\ [two EXCEPT !.m = m].op = op
      /\ [two EXCEPT !.m = m].cfg = cfg /\ [two EXCEPT !.m = m].overwrite = overwrite
  BY <1>4 DEF CallState
<1> QED BY <1>1, <1>3, <1>5

LEMMA AppCallsGo ==
  ASSUME NEW known, Dart(known), NEW c \in Calls, AppCalls(c)
  PROVE  DartGoes(c)
<1>1. /\ env.configs \subseteq StorageConfig
      /\ cachedWallet \in Mnemonics \cup {NoMnemonic}
  BY AppAssumption DEF Dart, DartOK
<1>2. CASE CreateWallet(c)
  <2>1. PICK overwrite \in BOOLEAN, cfg \in env.configs :
          Ask(c, [Started("createWallet") EXCEPT !.overwrite = overwrite, !.cfg = cfg],
              "generate")
    BY <1>2 DEF CreateWallet
  <2> DEFINE state == [Started("createWallet") EXCEPT !.overwrite = overwrite, !.cfg = cfg]
  <2>3. Ask(c, state, "generate")
    BY <2>1
  <2>2. Started("createWallet") \in CallState /\ Started("createWallet").op = "createWallet"
    BY StartedIs DEF Operations
  <2> HIDE DEF state
  <2>4. state \in CallState /\ state.op = "createWallet" /\ state.cfg = cfg
    BY <1>1, <2>2 DEF state, CallState
  <2> DEFINE s == Asked(state, "generate")
  <2>5. /\ s \in CallState /\ s.pc = "generate" /\ s.op = "createWallet" /\ s.cfg = cfg
        /\ Sends(c, s)
    BY <2>3, <2>4, AskSends, PointsAre
  <2> HIDE DEF s
  <2>6. StartsAs(s, env)
    BY <1>2, <2>5 DEF StartsAs, CreateWallet, CanStart, Waits, Savers
  <2> QED BY <1>2, <2>5, <2>6, StartsGoes DEF CreateWallet, CanStart
<1>3. CASE ImportExistingWallet(c)
  <2>1. PICK m \in (Generated \ fresh) \cup External \cup Invalid,
             overwrite \in BOOLEAN, cfg \in env.configs :
          SaveMnemonicIn(c, [Started("importExistingWallet") EXCEPT
                               !.overwrite = overwrite, !.cfg = cfg, !.m = m])
    BY <1>3 DEF ImportExistingWallet
  <2> DEFINE state == Built("importExistingWallet", overwrite, cfg, m)
  <2>2. SaveMnemonicIn(c, state)
    BY <2>1 DEF Built
  <2>3. state \in CallState /\ state.op = "importExistingWallet" /\ state.cfg = cfg
    BY <1>1, BuiltIs DEF Operations, Mnemonics
  <2> HIDE DEF state
  <2>4. PICK s \in CallState : Sends(c, s) /\ GoesSaving(s, state)
    BY <2>2, <2>3, SaveMnemonicInSends
  <2>5. StartsAs(s, env)
    BY <1>3, <2>3, <2>4
       DEF StartsAs, GoesSaving, ImportExistingWallet, CanStart, Waits, Savers, Finished
  <2> QED BY <1>3, <2>4, <2>5, StartsGoes DEF ImportExistingWallet, CanStart
<1>4. CASE GetWallet(c)
  <2>1. Started("getWallet") \in CallState /\ Started("getWallet").op = "getWallet"
    BY StartedIs DEF Operations
  <2>2. CASE cachedWallet = NoMnemonic
    <3> DEFINE s == Asked(Started("getWallet"), "read")
    <3>1. s \in CallState /\ s.pc = "read" /\ s.op = "getWallet" /\ Sends(c, s)
      BY <1>4, <2>1, <2>2, AskSends, PointsAre DEF GetWallet
    <3> HIDE DEF s
    <3>2. StartsAs(s, env)
      BY <1>4, <3>1 DEF StartsAs, GetWallet, CanStart, Waits, Savers
    <3> QED BY <1>4, <3>1, <3>2, StartsGoes DEF GetWallet, CanStart
  <2>3. CASE cachedWallet # NoMnemonic
    <3> DEFINE s == Ended("getWallet", "returned", cachedWallet)
    <3>1. s \in CallState /\ s.pc = "returned" /\ s.op = "getWallet" /\ Sends(c, s)
      BY <1>1, <1>4, <2>3, FinishSends DEF GetWallet, Operations, Finished
    <3> HIDE DEF s
    <3>2. StartsAs(s, env)
      BY <1>4, <3>1 DEF StartsAs, GetWallet, CanStart, Finished
    <3> QED BY <1>4, <3>1, <3>2, StartsGoes DEF GetWallet, CanStart
  <2> QED BY <2>2, <2>3
<1>5. CASE UpdateWalletStorage(c)
  <2>1. PICK cfg \in env.configs :
          Ask(c, [Started("updateWalletStorage") EXCEPT !.cfg = cfg], "updRead")
    BY <1>5 DEF UpdateWalletStorage
  <2> DEFINE state == [Started("updateWalletStorage") EXCEPT !.cfg = cfg]
  <2>3. Ask(c, state, "updRead")
    BY <2>1
  <2>2. Started("updateWalletStorage") \in CallState /\ Started("updateWalletStorage").op = "updateWalletStorage"
    BY StartedIs DEF Operations
  <2> HIDE DEF state
  <2>4. state \in CallState /\ state.op = "updateWalletStorage" /\ state.cfg = cfg
    BY <1>1, <2>2 DEF state, CallState
  <2> DEFINE s == Asked(state, "updRead")
  <2>5. /\ s \in CallState /\ s.pc = "updRead" /\ s.op = "updateWalletStorage" /\ s.cfg = cfg
        /\ Sends(c, s)
    BY <2>3, <2>4, AskSends, PointsAre
  <2> HIDE DEF s
  <2>6. StartsAs(s, env)
    BY <1>5, <2>5 DEF StartsAs, UpdateWalletStorage, CanStart, Waits, Savers
  <2> QED BY <1>5, <2>5, <2>6, StartsGoes DEF UpdateWalletStorage, CanStart
<1>6. ASSUME NEW op \in {"permanentlyDeleteWallet", "getAccountPhrase",
                         "walletEligibleForCloudSync"},
             NEW pc \in {"delete", "phrase", "eligible"}, Waits(op, pc),
             CanStart(c, op), Ask(c, Started(op), pc), UNCHANGED cachedWallet
      PROVE  DartGoes(c)
  <2>1. Started(op) \in CallState /\ Started(op).op = op /\ pc \in Points
    BY StartedIs, PointsAre DEF Operations
  <2> DEFINE s == Asked(Started(op), pc)
  <2>2. s \in CallState /\ s.pc = pc /\ s.op = op /\ Sends(c, s)
    BY <1>6, <2>1, AskSends
  <2> HIDE DEF s
  <2>3. StartsAs(s, env)
    BY <1>6, <2>2 DEF StartsAs, CanStart, Savers
  <2> QED BY <1>6, <2>2, <2>3, StartsGoes DEF CanStart
<1>7. CASE PermanentlyDeleteWallet(c)
  BY <1>6, <1>7 DEF PermanentlyDeleteWallet, Waits
<1>8. CASE GetAccountPhrase(c)
  BY <1>6, <1>8 DEF GetAccountPhrase, Waits
<1>9. CASE WalletEligibleForCloudSync(c)
  BY <1>6, <1>9 DEF WalletEligibleForCloudSync, Waits
<1> QED BY <1>2, <1>3, <1>4, <1>5, <1>7, <1>8, <1>9 DEF AppCalls

\* A call that goes on with a platform call of the same method.
LEMMA AsksNext ==
  ASSUME NEW known, Dart(known), NEW c \in Calls, NEW from \in Points, Replied(c, from),
         NEW state \in CallState, state.op = call[c].op, state.cfg = call[c].cfg,
         NEW pc \in Points, Ask(c, state, pc),
         Waits(call[c].op, from) => Waits(call[c].op, pc),
         Caches(call[c], cachedWallet, cachedWallet'),
         pc = "makeKey" => Heard(call[c], "save") /\ state.m = call[c].m,
         pc = "checkKey" => /\ Heard(call[c], "checkRead")
                            /\ state.r = call[c].val /\ call[c].val # NoMnemonic,
         pc = "key" => /\ Heard(call[c], "read")
                       /\ state.r = call[c].val /\ call[c].val # NoMnemonic,
         pc = "updSave" => /\ Heard(call[c], "updRead")
                           /\ state.m = call[c].val /\ call[c].val # NoMnemonic,
         pc = "updDelete" => Heard(call[c], "updSave") /\ ~call[c].cfg.saveToCloud,
         from = "save" => pc = "makeKey", from = "checkRead" => pc = "checkKey",
         from = "read" => pc = "key"
  PROVE  DartGoes(c)
<1> DEFINE s == Asked(state, pc)
<1>1. /\ Sends(c, s) /\ s \in CallState /\ s.pc = pc /\ s.at = "channel"
      /\ s.op = call[c].op /\ s.cfg = call[c].cfg /\ s.m = state.m /\ s.r = state.r
  BY AskSends
<1> HIDE DEF s
<1>2. call[c].pc = from /\ call[c].at = "reply"
  BY ReplyIs
<1>3. pc # "returned"
  BY PointsAre
<1>4. Goes(call[c], s, env)
  BY <1>1, <1>2, <1>3 DEF Goes, Runs, Heard
<1> QED BY <1>1, <1>4 DEF DartGoes

\* One that goes on in _saveMnemonic.
LEMMA SavesNext ==
  ASSUME NEW known, Dart(known), NEW c \in Calls,
         NEW from \in {"generate", "checkRead", "checkKey"}, Replied(c, from),
         NEW state \in CallState, state.op = call[c].op, state.cfg = call[c].cfg,
         \E s \in CallState : Sends(c, s) /\ GoesSaving(s, state),
         Caches(call[c], cachedWallet, cachedWallet'),
         from = "checkRead" => call[c].val = NoMnemonic
  PROVE  DartGoes(c)
<1>1. PICK s \in CallState : Sends(c, s) /\ GoesSaving(s, state)
  OBVIOUS
<1>2. from \in Points
  BY PointsAre
<1>3. call[c].pc = from /\ call[c].at = "reply" /\ from \in Points
  BY <1>2, ReplyIs
<1>4. "threw" \notin Points
  BY PointsAre
<1>5. /\ s.op = call[c].op
      /\ \/ s.pc = "threw" /\ s.at = "none"
         \/ s.pc \in {"checkRead", "save"} /\ s.at = "channel" /\ s.cfg = call[c].cfg
  BY <1>1, <1>4 DEF GoesSaving, Sends
<1>6. Runs(call[c], env) => Runs(s, env)
  BY <1>3, <1>4, <1>5 DEF Runs, Waits, Savers
<1>7. Goes(call[c], s, env)
  BY <1>3, <1>5, <1>6 DEF Goes, Heard
<1> QED BY <1>1, <1>7 DEF DartGoes

\* One that ends.
LEMMA EndsNow ==
  ASSUME NEW known, Dart(known), NEW c \in Calls, NEW from \in Points, Replied(c, from),
         NEW how \in Finished, NEW val \in Mnemonics \cup {NoMnemonic} \cup BOOLEAN,
         Finish(c, call[c].op, how, val),
         Caches(call[c], cachedWallet, cachedWallet'),
         how = "returned" =>
           /\ from \notin {"generate", "checkRead", "checkKey", "save", "updRead"}
           /\ from = "updSave" => call[c].cfg.saveToCloud,
         call[c].ok => /\ from # "save"
                       /\ from \in {"checkRead", "read"} => call[c].val = NoMnemonic
  PROVE  DartGoes(c)
<1>1. call[c].pc = from /\ call[c].at = "reply" /\ call[c].op \in Operations \cup {"none"}
  BY ReplyIs
<1> DEFINE s == Ended(call[c].op, how, val)
<1>2. Sends(c, s) /\ s \in CallState /\ s.pc = how /\ s.at = "none" /\ s.op = call[c].op
  BY <1>1, FinishSends
<1> HIDE DEF s
<1>3. how \notin Points /\ how \in {"returned", "threw"}
  BY PointsAre DEF Finished
<1>4. Runs(s, env)
  BY <1>2, <1>3 DEF Runs
<1>5. Goes(call[c], s, env)
  BY <1>1, <1>2, <1>3, <1>4 DEF Goes, Heard
<1> QED BY <1>2, <1>5 DEF DartGoes

LEMMA ContinuationsGo ==
  ASSUME NEW known, Dart(known), NEW c \in Calls, Continuations(c)
  PROVE  DartGoes(c)
<1>1. /\ NoMnemonic \in Mnemonics \cup {NoMnemonic} \cup BOOLEAN
      /\ "returned" \in Finished /\ "threw" \in Finished
      /\ call \in [Calls -> CallState]
  BY DEF Finished, Dart, DartOK
<1> DEFINE t == call[c]
<1>2. /\ t \in CallState
      /\ t.m \in Mnemonics \cup {NoMnemonic} /\ t.r \in Mnemonics \cup {NoMnemonic}
      /\ t.val \in Mnemonics \cup {NoMnemonic} \cup BOOLEAN
  BY <1>1 DEF CallState
<1>3. CASE CallThrows(c)
  <2>1. PICK pc \in Points : Replied(c, pc)
    BY <1>3 DEF CallThrows
  <2>2. t.pc = pc /\ t.at = "reply"
    BY <2>1, ReplyIs
  <2>3. Caches(t, cachedWallet, cachedWallet')
    <3>1. ~Heard(t, "makeKey") /\ ~Heard(t, "checkKey") /\ ~Heard(t, "key")
      BY <1>3 DEF CallThrows, Rejected, Heard
    <3> QED BY <1>3, <3>1 DEF CallThrows, Caches
  <2>6. t.ok => pc \notin {"save", "checkRead", "read"}
    BY <1>3, <2>2 DEF CallThrows, Rejected
  <2>4. CASE t.pc = "phrase"
    BY <1>1, <1>3, <2>1, <2>2, <2>3, <2>4, <2>6, EndsNow DEF CallThrows, Return
  <2>5. CASE t.pc # "phrase"
    BY <1>1, <1>3, <2>1, <2>2, <2>3, <2>5, <2>6, EndsNow DEF CallThrows, Throw
  <2> QED BY <2>4, <2>5
<1>4. ASSUME NEW pc \in Points, Accepted(c, pc)
      PROVE  /\ Replied(c, pc) /\ t.pc = pc /\ t.at = "reply" /\ Heard(t, pc)
             /\ pc = "generate" => t.val # NoMnemonic
             /\ pc \notin {"makeKey", "checkKey", "key", "delete"} /\ UNCHANGED cachedWallet
                  => Caches(t, cachedWallet, cachedWallet')
  <2>1. Replied(c, pc) /\ t.pc = pc /\ t.at = "reply"
    BY <1>4, ReplyIs DEF Accepted
  <2>2. t.ok
    BY <1>4 DEF Accepted, Rejected
  <2> QED BY <1>4, <2>1, <2>2 DEF Accepted, Rejected, Heard, Caches
<1>5. CASE MnemonicGenerated(c)
  <2> DEFINE state == [call[c] EXCEPT !.m = call[c].val]
  <2>1. Accepted(c, "generate") /\ UNCHANGED cachedWallet /\ SaveMnemonicIn(c, state)
    BY <1>5 DEF MnemonicGenerated
  <2>2. t.val \in Mnemonics
    BY <1>4, <2>1, ReplyIs, PointsAre DEF CallOK
  <2>3. state \in CallState /\ state.op = t.op /\ state.cfg = t.cfg
    BY <1>2, <2>2 DEF CallState
  <2> HIDE DEF state
  <2>4. \E s \in CallState : Sends(c, s) /\ GoesSaving(s, state)
    BY <2>1, <2>3, SaveMnemonicInSends
  <2>5. Replied(c, "generate") /\ Caches(t, cachedWallet, cachedWallet')
    BY <1>4, <2>1, PointsAre
  <2> QED BY <2>3, <2>4, <2>5, SavesNext
<1>6. CASE ExistingRead(c)
  <2>1. /\ Accepted(c, "checkRead") /\ UNCHANGED cachedWallet
        /\ "checkRead" \in Points /\ "checkKey" \in Points
    BY <1>6, PointsAre DEF ExistingRead
  <2>2. /\ Replied(c, "checkRead") /\ Caches(t, cachedWallet, cachedWallet')
        /\ Heard(t, "checkRead")
    BY <1>4, <2>1
  <2>3. CASE t.val = NoMnemonic
    <3>1. \E s \in CallState : Sends(c, s) /\ GoesSaving(s, t)
      BY <1>2, <1>6, <2>3, SaveUnlessExistingSends DEF ExistingRead
    <3> QED BY <1>2, <2>2, <2>3, <3>1, SavesNext
  <2>4. CASE t.val # NoMnemonic
    <3> DEFINE state == [call[c] EXCEPT !.r = call[c].val]
    <3>1. Ask(c, state, "checkKey")
      BY <1>6, <2>4 DEF ExistingRead
    <3>2. t.val \in Mnemonics
      BY <2>1, <2>2, <2>4, ReplyIs DEF CallOK, Reading, Dart, DartOK
    <3>3. state \in CallState /\ state.op = t.op /\ state.cfg = t.cfg /\ state.r = t.val
      BY <1>2, <3>2 DEF CallState
    <3> HIDE DEF state
    <3>4. Waits(t.op, "checkRead") => Waits(t.op, "checkKey")
      BY DEF Waits
    <3> QED BY <2>1, <2>2, <2>4, <3>1, <3>3, <3>4, AsksNext
  <2> QED BY <2>3, <2>4
<1>7. CASE ExistingDerived(c)
  <2>1. Accepted(c, "checkKey") /\ cachedWallet' = t.r /\ "checkKey" \in Points
    BY <1>7, PointsAre DEF ExistingDerived
  <2>2. Replied(c, "checkKey") /\ Heard(t, "checkKey")
    BY <1>4, <2>1
  <2>3. Caches(t, cachedWallet, cachedWallet')
    BY <2>1, <2>2 DEF Caches, Heard
  <2>4. \E s \in CallState : Sends(c, s) /\ GoesSaving(s, t)
    BY <1>2, <1>7, SaveUnlessExistingSends DEF ExistingDerived
  <2> QED BY <1>2, <2>2, <2>3, <2>4, SavesNext
<1>8. CASE MnemonicSaved(c)
  <2>1. /\ Accepted(c, "save") /\ UNCHANGED cachedWallet /\ "save" \in Points
        /\ "makeKey" \in Points /\ Ask(c, t, "makeKey")
    BY <1>8, PointsAre DEF MnemonicSaved
  <2>2. Replied(c, "save") /\ Caches(t, cachedWallet, cachedWallet') /\ Heard(t, "save")
    BY <1>4, <2>1
  <2>3. Waits(t.op, "save") => Waits(t.op, "makeKey")
    BY DEF Waits
  <2> QED BY <1>2, <2>1, <2>2, <2>3, AsksNext
<1>9. CASE WalletMade(c)
  <2>1. /\ Accepted(c, "makeKey") /\ cachedWallet' = t.m /\ "makeKey" \in Points
        /\ Finish(c, t.op, "returned", t.m)
    BY <1>9, PointsAre DEF WalletMade, Return
  <2>2. Replied(c, "makeKey") /\ Heard(t, "makeKey")
    BY <1>4, <2>1
  <2>3. Caches(t, cachedWallet, cachedWallet')
    BY <2>1, <2>2 DEF Caches, Heard
  <2> QED BY <1>1, <1>2, <2>1, <2>2, <2>3, EndsNow
<1>10. CASE WalletRead(c)
  <2>1. /\ Accepted(c, "read") /\ UNCHANGED cachedWallet
        /\ "read" \in Points /\ "key" \in Points
    BY <1>10, PointsAre DEF WalletRead
  <2>2. /\ Replied(c, "read") /\ Caches(t, cachedWallet, cachedWallet') /\ Heard(t, "read")
    BY <1>4, <2>1
  <2>3. CASE t.val = NoMnemonic
    BY <1>1, <1>10, <2>1, <2>2, <2>3, EndsNow DEF WalletRead, Return
  <2>4. CASE t.val # NoMnemonic
    <3> DEFINE state == [call[c] EXCEPT !.r = call[c].val]
    <3>1. Ask(c, state, "key")
      BY <1>10, <2>4 DEF WalletRead
    <3>2. t.val \in Mnemonics
      BY <2>1, <2>2, <2>4, ReplyIs DEF CallOK, Reading, Dart, DartOK
    <3>3. state \in CallState /\ state.op = t.op /\ state.cfg = t.cfg /\ state.r = t.val
      BY <1>2, <3>2 DEF CallState
    <3> HIDE DEF state
    <3>4. Waits(t.op, "read") => Waits(t.op, "key")
      BY DEF Waits
    <3> QED BY <2>1, <2>2, <2>4, <3>1, <3>3, <3>4, AsksNext
  <2> QED BY <2>3, <2>4
<1>11. CASE WalletDerived(c)
  <2>1. /\ Accepted(c, "key") /\ cachedWallet' = t.r /\ "key" \in Points
        /\ Finish(c, t.op, "returned", t.r)
    BY <1>11, PointsAre DEF WalletDerived, Return
  <2>2. Replied(c, "key") /\ Heard(t, "key")
    BY <1>4, <2>1
  <2>3. Caches(t, cachedWallet, cachedWallet')
    BY <2>1, <2>2 DEF Caches, Heard
  <2> QED BY <1>1, <1>2, <2>1, <2>2, <2>3, EndsNow
<1>12. CASE UpdateRead(c)
  <2>1. /\ Accepted(c, "updRead") /\ UNCHANGED cachedWallet
        /\ "updRead" \in Points /\ "updSave" \in Points
    BY <1>12, PointsAre DEF UpdateRead
  <2>2. /\ Replied(c, "updRead") /\ Caches(t, cachedWallet, cachedWallet')
        /\ Heard(t, "updRead")
    BY <1>4, <2>1
  <2>3. CASE t.val = NoMnemonic
    BY <1>1, <1>12, <2>1, <2>2, <2>3, EndsNow DEF UpdateRead, Throw
  <2>4. CASE t.val # NoMnemonic
    <3> DEFINE state == [call[c] EXCEPT !.m = call[c].val]
    <3>1. Ask(c, state, "updSave")
      BY <1>12, <2>4 DEF UpdateRead
    <3>2. t.val \in Mnemonics
      BY <2>1, <2>2, <2>4, ReplyIs DEF CallOK, Reading, Dart, DartOK
    <3>3. state \in CallState /\ state.op = t.op /\ state.cfg = t.cfg /\ state.m = t.val
      BY <1>2, <3>2 DEF CallState
    <3> HIDE DEF state
    <3>4. Waits(t.op, "updRead") => Waits(t.op, "updSave")
      BY DEF Waits
    <3> QED BY <2>1, <2>2, <2>4, <3>1, <3>3, <3>4, AsksNext
  <2> QED BY <2>3, <2>4
<1>13. CASE UpdateSaved(c)
  <2>1. /\ Accepted(c, "updSave") /\ UNCHANGED cachedWallet
        /\ "updSave" \in Points /\ "updDelete" \in Points
    BY <1>13, PointsAre DEF UpdateSaved
  <2>2. /\ Replied(c, "updSave") /\ Caches(t, cachedWallet, cachedWallet')
        /\ Heard(t, "updSave")
    BY <1>4, <2>1
  <2>3. CASE t.cfg.saveToCloud
    BY <1>1, <1>13, <2>1, <2>2, <2>3, EndsNow DEF UpdateSaved, Return
  <2>4. CASE ~t.cfg.saveToCloud
    <3>1. Ask(c, t, "updDelete")
      BY <1>13, <2>4 DEF UpdateSaved
    <3>2. Waits(t.op, "updSave") => Waits(t.op, "updDelete")
      BY DEF Waits
    <3> QED BY <1>2, <2>1, <2>2, <2>4, <3>1, <3>2, AsksNext
  <2> QED BY <2>3, <2>4
<1>14. CASE CloudCopyDeleted(c)
  <2>1. Accepted(c, "updDelete") /\ UNCHANGED cachedWallet /\ "updDelete" \in Points
    BY <1>14, PointsAre DEF CloudCopyDeleted
  <2>2. Replied(c, "updDelete") /\ Caches(t, cachedWallet, cachedWallet')
    BY <1>4, <2>1
  <2> QED BY <1>1, <1>14, <2>1, <2>2, EndsNow DEF CloudCopyDeleted, Return
<1>15. CASE WalletDeleted(c)
  <2>1. Accepted(c, "delete") /\ "delete" \in Points
    BY <1>15, PointsAre DEF WalletDeleted
  <2>2. Replied(c, "delete") /\ Heard(t, "delete")
    BY <1>4, <2>1
  <2>3. Caches(t, cachedWallet, cachedWallet')
    BY <2>2 DEF Caches, Heard
  <2> QED BY <1>1, <1>15, <2>1, <2>2, <2>3, EndsNow DEF WalletDeleted, Return
<1>16. CASE AnswerPassedOn(c)
  <2>1. PICK pc \in {"phrase", "eligible"} : Accepted(c, pc)
    BY <1>16 DEF AnswerPassedOn
  <2>2. pc \in Points /\ UNCHANGED cachedWallet
    BY <1>16, PointsAre DEF AnswerPassedOn
  <2>3. Replied(c, pc) /\ Caches(t, cachedWallet, cachedWallet')
    BY <1>4, <2>1, <2>2
  <2> QED BY <1>1, <1>2, <1>16, <2>1, <2>2, <2>3, EndsNow DEF AnswerPassedOn, Return
<1> QED
  BY <1>3, <1>5, <1>6, <1>7, <1>8, <1>9, <1>10, <1>11, <1>12, <1>13, <1>14, <1>15, <1>16
     DEF Continuations

\* A call that the app starts, or that goes on, is the one running.
LEMMA OnlyOneRuns ==
  ASSUME NEW known, Dart(known), NEW c \in Calls, AppCalls(c) \/ Continuations(c),
         env.serial, Alone
  PROVE  \A d \in Calls : Active(d) => d = c
<1>1. CASE AppCalls(c)
  BY <1>1 DEF AppCalls, CreateWallet, ImportExistingWallet, GetWallet, UpdateWalletStorage,
              PermanentlyDeleteWallet, GetAccountPhrase, WalletEligibleForCloudSync, CanStart
<1>2. CASE Continuations(c)
  <2>1. PICK pc \in Points : Replied(c, pc)
    BY <1>2, PointsAre DEF Continuations, CallThrows, Accepted, MnemonicGenerated, ExistingRead,
         ExistingDerived, MnemonicSaved, WalletMade, WalletRead, WalletDerived, UpdateRead,
         UpdateSaved, CloudCopyDeleted, WalletDeleted, AnswerPassedOn
  <2>2. Active(c)
    BY <2>1, ReplyIs, PointsAre DEF Active, Finished
  <2> QED BY <2>2 DEF Alone
<1> QED BY <1>1, <1>2

\* An app that awaits each call has one running.
LEMMA StaysAlone ==
  ASSUME NEW known, Dart(known), NEW c \in Calls, AppCalls(c) \/ Continuations(c),
         env.serial, Alone
  PROVE  Alone'
<1>1. PICK s \in CallState : Sends(c, s) /\ Goes(call[c], s, env)
  BY AppCallsGo, ContinuationsGo DEF DartGoes
<1>2. \A d \in Calls \ {c} : call'[d] = call[d]
  BY <1>1 DEF Sends
<1>3. \A d \in Calls \ {c} : ~Active(d)'
  BY <1>2, OnlyOneRuns DEF Active
<1> QED BY <1>3 DEF Alone

-----------------------------------------------------------------------------
(* Replies of the platform.                                                *)

\* The state of a call whose reply has been sent.
Answered(s, ok, val) == [s EXCEPT !.at = "reply", !.ok = ok, !.val = val]

\* A reply changes where the call is and what it was told, not what it carries.
LEMMA AnsweredType ==
  ASSUME NEW s \in CallState, NEW ok \in BOOLEAN,
         NEW val \in Mnemonics \cup {NoMnemonic} \cup BOOLEAN
  PROVE  /\ Answered(s, ok, val) \in CallState
         /\ Answered(s, ok, val).at = "reply"
         /\ Answered(s, ok, val).ok = ok
         /\ Answered(s, ok, val).val = val
         /\ Answered(s, ok, val).pc = s.pc
         /\ Answered(s, ok, val).m = s.m
         /\ Answered(s, ok, val).r = s.r
<1> DEFINE sent == [s EXCEPT !.at = "reply"]
           told == [sent EXCEPT !.ok = ok]
<1>1. sent \in CallState
  BY DEF CallState
<1>2. Answered(s, ok, val) = [told EXCEPT !.val = val]
  BY DEF Answered, CallState
<1>3. /\ Answered(s, ok, val).at = "reply" /\ Answered(s, ok, val).ok = ok
      /\ Answered(s, ok, val).val = val /\ Answered(s, ok, val).pc = s.pc
      /\ Answered(s, ok, val).m = s.m /\ Answered(s, ok, val).r = s.r
  BY DEF Answered, CallState
<1> HIDE DEF sent
<1>4. told \in CallState
  BY <1>1 DEF CallState
<1> HIDE DEF told
<1>5. [told EXCEPT !.val = val] \in CallState
  BY <1>4 DEF CallState
<1> QED BY <1>2, <1>3, <1>5

\* Nor its operation and its arguments.
LEMMA AnsweredKeeps ==
  ASSUME NEW s \in CallState, NEW ok, NEW val
  PROVE  /\ Answered(s, ok, val).op = s.op
         /\ Answered(s, ok, val).cfg = s.cfg
         /\ Answered(s, ok, val).overwrite = s.overwrite
BY DEF Answered, CallState

\* The reply to a request tells the call what it may rely on.
LEMMA AnsweredOK ==
  ASSUME NEW s \in CallState, s.pc \in Points, NEW known, CallOK(s, known),
         NEW ok \in BOOLEAN, NEW val \in Mnemonics \cup {NoMnemonic} \cup BOOLEAN,
         s.pc \in {"save", "updSave"} /\ ok => s.m \in known,
         s.pc = "generate" => val \in Mnemonics \cup {NoMnemonic},
         s.pc \in Reading => val \in known \cup {NoMnemonic}
  PROVE  CallOK(Answered(s, ok, val), known)
<1> DEFINE t == Answered(s, ok, val)
<1>1. /\ t.ok = ok /\ t.val = val /\ t.pc = s.pc /\ t.m = s.m /\ t.r = s.r
  BY AnsweredType
<1>2. t.pc \notin Finished
  BY <1>1, PointsAre DEF Finished
<1> HIDE DEF t
<1>3. CallOK(t, known)
  BY <1>1, <1>2 DEF CallOK
<1> QED BY <1>3 DEF t

\* The platform's reply, as a step of one call.
LEMMA ReplySends ==
  ASSUME NEW c, NEW ok, NEW val, Reply(c, ok, val)
  PROVE  /\ call' = [call EXCEPT ![c] = Answered(call[c], ok, val)]
         /\ replies' = Append(replies, c)
BY DEF Reply, Answered

\* The points that wait for each method.
LEMMA AwaitedIs ==
  ASSUME NEW pc \in Points
  PROVE  /\ Awaited[pc] = "getMnemonic" <=> pc \in Reading
         /\ Awaited[pc] = "mnemonicBackedUpToCloud" <=> pc = "eligible"
         /\ Awaited[pc] = "saveMnemonic" <=> pc \in {"save", "updSave"}
         /\ Awaited[pc] = "generateNewMnemonic" <=> pc = "generate"
         /\ Awaited[pc] = "getPrivateKeyFromMnemonic"
              <=> pc \in {"checkKey", "key", "makeKey"}
         /\ Awaited[pc] = "deleteCloudMnemonic" <=> pc = "updDelete"
         /\ Awaited[pc] = "deleteMnemonic" <=> pc = "delete"
BY PointsAre DEF Awaited, Reading

\* What is said of a call stays true while more is stored.
LEMMA CallsKnowMore ==
  ASSUME NEW known, NEW more, known \subseteq more, NEW s \in CallState, CallOK(s, known)
  PROVE  CallOK(s, more)
BY DEF CallOK

\* The call whose request is at the head of the channel.
LEMMA RequestIs ==
  ASSUME NEW known, Dart(known), NEW c \in Calls, NEW method, Requested(c, method)
  PROVE  /\ call[c] \in CallState /\ call[c].at = "channel"
         /\ call[c].pc \in Points /\ Awaited[call[c].pc] = method
         /\ CallOK(call[c], known)
         /\ env' = env
<1>1. /\ call \in [Calls -> CallState] /\ channel \in Seq(Calls)
      /\ QueueOK(channel, "channel", call) /\ CallOK(call[c], known)
  BY DEF Dart, DartOK
<1>2. call[c] \in CallState /\ call[c].at = "channel"
  BY <1>1, QueuePopped DEF Requested
<1>3. call[c].pc \in Points
  BY <1>1, <1>2 DEF CallOK, CallState
<1> QED BY <1>1, <1>2, <1>3 DEF Requested

\* A handler replies at once; more may be known to be stored when it has.
LEMMA HandlerAnswers ==
  ASSUME NEW known, Dart(known), NEW more, known \subseteq more, more \subseteq Mnemonics,
         NEW c \in Calls, NEW method, Requested(c, method),
         NEW ok \in BOOLEAN, NEW val \in Mnemonics \cup {NoMnemonic} \cup BOOLEAN,
         Reply(c, ok, val), UNCHANGED cachedWallet,
         call[c].pc \in {"save", "updSave"} /\ ok => call[c].m \in more,
         call[c].pc = "generate" => val \in Mnemonics \cup {NoMnemonic},
         call[c].pc \in Reading => val \in more \cup {NoMnemonic}
  PROVE  DartOK(more, call', channel', replies', cachedWallet')
<1> DEFINE s == Answered(call[c], ok, val)
<1>1. /\ call \in [Calls -> CallState] /\ channel \in Seq(Calls) /\ replies \in Seq(Calls)
      /\ QueueOK(channel, "channel", call) /\ QueueOK(replies, "reply", call)
      /\ cachedWallet \in known \cup {NoMnemonic}
      /\ \A d \in Calls : call[d] \in CallState /\ CallOK(call[d], known)
  BY DEF Dart, DartOK
<1>2. call[c].at = "channel" /\ call[c] \in CallState /\ call[c].pc \in Points
  BY RequestIs
<1>3. \A d \in Calls : CallOK(call[d], more)
  BY <1>1, CallsKnowMore
<1>4. s \in CallState /\ s.at = "reply" /\ CallOK(s, more)
  BY <1>2, <1>3, AnsweredType, AnsweredOK
<1>5. call' = [call EXCEPT ![c] = s] /\ replies' = Append(replies, c)
  BY ReplySends
<1> HIDE DEF s
<1>6. /\ channel' \in Seq(Calls) /\ QueueOK(channel', "channel", call')
  BY <1>1, <1>4, <1>5, QueuePopped DEF Requested
<1>7. /\ replies' \in Seq(Calls) /\ QueueOK(replies', "reply", call')
  BY <1>1, <1>2, <1>4, <1>5, QueuePushed
<1>8. call' \in [Calls -> CallState] /\ \A d \in Calls : CallOK(call'[d], more)
  BY <1>1, <1>3, <1>4, <1>5
<1> QED BY <1>1, <1>6, <1>7, <1>8 DEF DartOK

-----------------------------------------------------------------------------
(* Where nothing is under way.                                             *)

\* Idle calls know nothing.
LEMMA IdleIs == Idle \in CallState /\ \A known : CallOK(Idle, known)
<1>1. Idle \in CallState /\ Idle.pc = "returned" /\ Idle.at = "none"
  BY DEF Idle, Ended, CallState, StorageConfig, Finished
<1> QED BY <1>1 DEF CallOK, Finished, Carrying, Reading

\* So a process starts as it should.
LEMMA AllIdle ==
  ASSUME NEW known, known \subseteq Mnemonics
  PROVE  DartOK(known, [c \in Calls |-> Idle], <<>>, <<>>, NoMnemonic)
<1>1. QueueOK(<<>>, "channel", [c \in Calls |-> Idle]) /\ QueueOK(<<>>, "reply", [c \in Calls |-> Idle])
  BY DEF QueueOK
<1> QED BY <1>1, IdleIs DEF DartOK

-----------------------------------------------------------------------------
(* What the cache will hold.                                               *)
(*                                                                         *)
(* A call that has been told a phrase, by a read or by the reply to its    *)
(* save, derives the wallet from it and then caches the wallet.  The two   *)
(* queues keep the order, so that what was told last is cached last.       *)

Deriving == {"checkKey", "key", "makeKey"}

\* The call has been told a phrase, and Dart has not taken the reply yet.
Told(s) ==
  /\ s.at = "reply" /\ s.ok
  /\ \/ s.pc = "save"
     \/ s.pc \in {"read", "checkRead"} /\ s.val # NoMnemonic

\* How far a call that will cache a wallet still has to go; 0 for the other calls.
Distance(s) ==
  IF s.pc \in Deriving
  THEN IF s.at = "reply" THEN 1 ELSE 2
  ELSE IF Told(s) THEN 3 ELSE 0

\* The phrase it will cache.
Learned(s) ==
  IF s.pc \in {"save", "makeKey"} THEN s.m
  ELSE IF s.pc \in {"checkKey", "key"} THEN s.r ELSE s.val

Ahead(queue, c, d) ==
  \E i, j \in 1..Len(queue) : i < j /\ queue[i] = c /\ queue[j] = d

\* c will cache its wallet before d does.
Before(f, chan, ans, c, d) ==
  \/ Distance(f[c]) < Distance(f[d])
  \/ Distance(f[c]) = 2 /\ Distance(f[d]) = 2 /\ Ahead(chan, c, d)
  \/ Distance(f[c]) = Distance(f[d]) /\ Distance(f[c]) \in {1, 3} /\ Ahead(ans, c, d)

\* The last wallet that will be cached is the stored one.
Latest(f, chan, ans, cached, stored) ==
  \/ /\ \A c \in Calls : Distance(f[c]) = 0
     /\ cached \in {NoMnemonic, stored}
  \/ \E d \in Calls :
       /\ Distance(f[d]) # 0 /\ Learned(f[d]) = stored
       /\ \A c \in Calls \ {d} : Distance(f[c]) # 0 => Before(f, chan, ans, c, d)

\* A call that waits in a queue is there.
Queued(queue, place, f) ==
  \A c \in Calls : f[c].at = place => \E i \in 1..Len(queue) : queue[i] = c

\* A call that derives a wallet waits in one of the queues, and will not be refused.
DerivesOK(s) ==
  s.pc \in Deriving => \/ s.at = "channel"
                       \/ s.at = "reply" /\ s.ok

\* A step that keeps the order of a queue, but for b.
Follows(queue, later, b) ==
  \A c \in Calls \ {b}, d \in Calls : Ahead(queue, c, d) => Ahead(later, c, d)

LEMMA FollowsPushed ==
  ASSUME NEW q \in Seq(Calls), NEW b \in Calls
  PROVE  /\ Follows(q, Append(q, b), b)
         /\ \A c \in Calls : (\E i \in 1..Len(q) : q[i] = c) => Ahead(Append(q, b), c, b)
<1>1. /\ Len(Append(q, b)) = Len(q) + 1 /\ Len(q) \in Nat
      /\ \A i \in 1..Len(q) : Append(q, b)[i] = q[i]
      /\ Append(q, b)[Len(q) + 1] = b
  BY AppendProperties, LenProperties
<1>2. \A i \in 1..Len(q) : i \in 1..(Len(q) + 1) /\ i < Len(q) + 1
  BY <1>1
<1>3. Len(q) + 1 \in 1..(Len(q) + 1)
  BY <1>1
<1> QED BY <1>1, <1>2, <1>3 DEF Follows, Ahead

LEMMA FollowsPopped ==
  ASSUME NEW q \in Seq(Calls), q # <<>>, NEW f, NEW place, QueueOK(q, place, f)
  PROVE  /\ Head(q) \in Calls
         /\ Follows(q, Tail(q), Head(q))
         /\ \A c \in Calls : ~Ahead(q, c, Head(q))
<1>1. /\ Head(q) \in Calls /\ Head(q) = q[1] /\ Len(q) \in Nat /\ Len(q) >= 1
      /\ Tail(q) \in Seq(Calls) /\ Len(Tail(q)) = Len(q) - 1
      /\ \A i \in 1..Len(Tail(q)) : Tail(q)[i] = q[i + 1]
  BY HeadTailProperties, LenProperties, EmptySeq
<1>2. ASSUME NEW c \in Calls \ {Head(q)}, NEW d \in Calls, Ahead(q, c, d)
      PROVE  Ahead(Tail(q), c, d)
  <2>1. PICK i \in 1..Len(q), j \in 1..Len(q) : i < j /\ q[i] = c /\ q[j] = d
    BY <1>2 DEF Ahead
  <2>2. i # 1
    BY <1>1, <2>1
  <2>3. /\ i - 1 \in 1..Len(Tail(q)) /\ j - 1 \in 1..Len(Tail(q)) /\ i - 1 < j - 1
        /\ (i - 1) + 1 = i /\ (j - 1) + 1 = j
    BY <1>1, <2>1, <2>2
  <2>4. Tail(q)[i - 1] = c /\ Tail(q)[j - 1] = d
    BY <1>1, <2>1, <2>3
  <2> QED BY <2>3, <2>4 DEF Ahead
<1>3. ASSUME NEW c \in Calls, Ahead(q, c, Head(q)) PROVE FALSE
  <2>1. PICK i \in 1..Len(q), j \in 1..Len(q) : i < j /\ q[i] = c /\ q[j] = Head(q)
    BY <1>3 DEF Ahead
  <2>2. 1 \in 1..Len(q) /\ q[1] = q[j]
    BY <1>1, <2>1
  <2>3. j = 1
    BY <2>1, <2>2 DEF QueueOK
  <2> QED BY <1>1, <2>1, <2>3
<1> QED BY <1>1, <1>2, <1>3 DEF Follows

LEMMA FollowsSame ==
  ASSUME NEW q, NEW b
  PROVE  Follows(q, q, b)
BY DEF Follows

\* Calls in their queues.
LEMMA QueuedKept ==
  ASSUME NEW f \in [Calls -> CallState], NEW q, NEW place, Queued(q, place, f),
         NEW c \in Calls, NEW s \in CallState, s.at # place
  PROVE  Queued(q, place, [f EXCEPT ![c] = s])
BY DEF Queued

LEMMA QueuedPushed ==
  ASSUME NEW f \in [Calls -> CallState], NEW q \in Seq(Calls), NEW place,
         Queued(q, place, f), NEW c \in Calls, NEW s \in CallState
  PROVE  Queued(Append(q, c), place, [f EXCEPT ![c] = s])
<1>1. /\ Len(Append(q, c)) = Len(q) + 1 /\ Len(q) \in Nat
      /\ \A i \in 1..Len(q) : Append(q, c)[i] = q[i]
      /\ Append(q, c)[Len(q) + 1] = c
  BY AppendProperties, LenProperties
<1>2. \A i \in 1..Len(q) : i \in 1..(Len(q) + 1)
  BY <1>1
<1>3. Len(q) + 1 \in 1..(Len(q) + 1)
  BY <1>1
<1> QED BY <1>1, <1>2, <1>3 DEF Queued

LEMMA QueuedPopped ==
  ASSUME NEW f \in [Calls -> CallState], NEW q \in Seq(Calls), q # <<>>, NEW place,
         Queued(q, place, f), NEW s \in CallState, s.at # place
  PROVE  Queued(Tail(q), place, [f EXCEPT ![Head(q)] = s])
<1>1. /\ Head(q) \in Calls /\ Head(q) = q[1] /\ Len(q) \in Nat /\ Len(q) >= 1
      /\ Tail(q) \in Seq(Calls) /\ Len(Tail(q)) = Len(q) - 1
      /\ \A i \in 1..Len(Tail(q)) : Tail(q)[i] = q[i + 1]
  BY HeadTailProperties, LenProperties, EmptySeq
<1> SUFFICES ASSUME NEW c \in Calls, [f EXCEPT ![Head(q)] = s][c].at = place
             PROVE  \E i \in 1..Len(Tail(q)) : Tail(q)[i] = c
  BY DEF Queued
<1>2. c # Head(q) /\ f[c].at = place
  BY <1>1
<1>3. PICK i \in 1..Len(q) : q[i] = c
  BY <1>2 DEF Queued
<1>4. i # 1
  BY <1>1, <1>2, <1>3
<1>5. i - 1 \in 1..Len(Tail(q)) /\ (i - 1) + 1 = i
  BY <1>1, <1>4
<1>6. Tail(q)[i - 1] = c
  BY <1>1, <1>3, <1>5
<1> QED BY <1>5, <1>6

\* A call is not told a phrase, and goes on not having been.
LEMMA LatestAside ==
  ASSUME NEW f \in [Calls -> CallState], NEW chan, NEW ans, NEW cached, NEW stored,
         Latest(f, chan, ans, cached, stored),
         NEW b \in Calls, NEW s \in CallState, Distance(f[b]) = 0, Distance(s) = 0,
         NEW chan2, Follows(chan, chan2, b), NEW ans2, Follows(ans, ans2, b)
  PROVE  Latest([f EXCEPT ![b] = s], chan2, ans2, cached, stored)
<1> DEFINE g == [f EXCEPT ![b] = s]
<1>1. g[b] = s /\ \A c \in Calls \ {b} : g[c] = f[c]
  OBVIOUS
<1> HIDE DEF g
<1>2. CASE \A c \in Calls : Distance(f[c]) = 0 /\ cached \in {NoMnemonic, stored}
  BY <1>1, <1>2 DEF Latest
<1>3. ASSUME NEW d \in Calls, Distance(f[d]) # 0, Learned(f[d]) = stored,
             \A c \in Calls \ {d} : Distance(f[c]) # 0 => Before(f, chan, ans, c, d)
      PROVE  Latest(g, chan2, ans2, cached, stored)
  <2>1. d # b /\ g[d] = f[d]
    BY <1>1, <1>3
  <2>2. ASSUME NEW c \in Calls \ {d}, Distance(g[c]) # 0
        PROVE  Before(g, chan2, ans2, c, d)
    <3>1. c # b /\ g[c] = f[c]
      BY <1>1, <2>2
    <3>2. Before(f, chan, ans, c, d)
      BY <1>3, <2>2, <3>1
    <3> QED BY <2>1, <3>1, <3>2 DEF Before, Follows
  <2> QED BY <1>3, <2>1, <2>2 DEF Latest
<1>4. \/ \A c \in Calls : Distance(f[c]) = 0 /\ cached \in {NoMnemonic, stored}
      \/ \E d \in Calls :
           /\ Distance(f[d]) # 0 /\ Learned(f[d]) = stored
           /\ \A c \in Calls \ {d} : Distance(f[c]) # 0 => Before(f, chan, ans, c, d)
  BY DEF Latest
<1> QED BY <1>2, <1>3, <1>4 DEF g

\* A call is told what is stored.
LEMMA LatestTold ==
  ASSUME NEW f \in [Calls -> CallState], NEW chan, NEW ans \in Seq(Calls), Queued(ans, "reply", f),
         NEW b \in Calls, NEW s \in CallState, Distance(s) = 3, NEW chan2, NEW cached
  PROVE  Latest([f EXCEPT ![b] = s], chan2, Append(ans, b), cached, Learned(s))
<1> DEFINE g == [f EXCEPT ![b] = s]
<1>1. g[b] = s /\ \A c \in Calls \ {b} : g[c] = f[c]
  OBVIOUS
<1> HIDE DEF g
<1>2. ASSUME NEW c \in Calls \ {b}, Distance(g[c]) # 0
      PROVE  Before(g, chan2, Append(ans, b), c, b)
  <2>1. Distance(g[c]) \in {1, 2, 3}
    BY <1>2 DEF Distance
  <2>2. CASE Distance(g[c]) = 3
    <3>1. f[c].at = "reply"
      BY <1>1, <1>2, <2>2 DEF Distance, Told
    <3>2. Ahead(Append(ans, b), c, b)
      BY <3>1, FollowsPushed DEF Queued
    <3> QED BY <1>1, <2>2, <3>2 DEF Before
  <2>3. CASE Distance(g[c]) \in {1, 2}
    BY <1>1, <2>3 DEF Before
  <2> QED BY <2>1, <2>2, <2>3
<1>3. Distance(g[b]) # 0 /\ Learned(g[b]) = Learned(s)
  BY <1>1
<1>4. Latest(g, chan2, Append(ans, b), cached, Learned(s))
  BY <1>2, <1>3 DEF Latest
<1> QED BY <1>4 DEF g

\* A call that has been told a phrase comes a step closer to caching the wallet: from the
\* head of one queue to the end of the other.
LEMMA LatestCloser ==
  ASSUME NEW f \in [Calls -> CallState], NEW chan \in Seq(Calls), NEW ans \in Seq(Calls),
         NEW cached, NEW stored, Latest(f, chan, ans, cached, stored),
         Queued(chan, "channel", f), Queued(ans, "reply", f),
         \A c \in Calls : DerivesOK(f[c]),
         NEW b \in Calls, NEW s \in CallState, Learned(s) = Learned(f[b]),
         NEW chan2, Follows(chan, chan2, b), NEW ans2, Follows(ans, ans2, b), NEW cached2,
         \/ /\ Distance(f[b]) = 3 /\ Distance(s) = 2
            /\ \A c \in Calls : ~Ahead(ans, c, b)
            /\ chan2 = Append(chan, b)
         \/ /\ Distance(f[b]) = 2 /\ Distance(s) = 1
            /\ \A c \in Calls : ~Ahead(chan, c, b)
            /\ ans2 = Append(ans, b)
  PROVE  Latest([f EXCEPT ![b] = s], chan2, ans2, cached2, stored)
<1> DEFINE g == [f EXCEPT ![b] = s]
<1>1. g[b] = s /\ \A c \in Calls \ {b} : g[c] = f[c]
  OBVIOUS
<1> HIDE DEF g
<1>2. PICK d \in Calls :
        /\ Distance(f[d]) # 0 /\ Learned(f[d]) = stored
        /\ \A c \in Calls \ {d} : Distance(f[c]) # 0 => Before(f, chan, ans, c, d)
  BY DEF Latest
<1>3. \A c \in Calls : /\ Distance(f[c]) \in 0..3
                       /\ Distance(f[c]) \in {1, 3} => f[c].at = "reply"
                       /\ Distance(f[c]) = 2 => f[c].at = "channel"
  BY DEF Distance, Told, DerivesOK
<1>4. Distance(g[d]) # 0 /\ Learned(g[d]) = stored
  <2>1. Distance(s) # 0
    OBVIOUS
  <2> QED BY <1>1, <1>2, <2>1
<1>5. ASSUME NEW c \in Calls \ {d}, Distance(g[c]) # 0
      PROVE  Before(g, chan2, ans2, c, d)
  <2>1. Distance(f[c]) # 0
    BY <1>1, <1>5
  <2>2. Before(f, chan, ans, c, d)
    BY <1>2, <1>5, <2>1
  <2>3. CASE b = d
    <3>1. CASE Distance(f[b]) = 3 /\ Distance(s) = 2
      <4>1. Distance(f[c]) \in {1, 2}
        BY <1>3, <2>1, <2>2, <2>3, <3>1 DEF Before
      <4>2. ASSUME Distance(f[c]) = 2 PROVE Ahead(chan2, c, b)
        <5>1. \E i \in 1..Len(chan) : chan[i] = c
          BY <1>3, <4>2 DEF Queued
        <5>2. chan2 = Append(chan, b)
          BY <3>1
        <5> QED BY <5>1, <5>2, FollowsPushed
      <4> QED BY <1>1, <1>5, <2>3, <3>1, <4>1, <4>2 DEF Before
    <3>2. CASE Distance(f[b]) = 2 /\ Distance(s) = 1
      <4>1. Distance(f[c]) = 1
        BY <1>3, <2>1, <2>2, <2>3, <3>2 DEF Before
      <4>2. Ahead(ans2, c, b)
        <5>1. \E i \in 1..Len(ans) : ans[i] = c
          BY <1>3, <4>1 DEF Queued
        <5>2. ans2 = Append(ans, b)
          BY <3>2
        <5> QED BY <5>1, <5>2, FollowsPushed
      <4> QED BY <1>1, <1>5, <2>3, <3>2, <4>1, <4>2 DEF Before
    <3> QED BY <3>1, <3>2
  <2>4. CASE b = c
    <3>1. Distance(g[d]) = Distance(f[d]) /\ Distance(g[c]) = Distance(s)
      BY <1>1, <1>5, <2>4
    <3>2. Distance(s) < Distance(f[c]) /\ Distance(f[c]) <= Distance(f[d])
      <4>1. Distance(s) < Distance(f[c])
        BY <2>4
      <4>2. Distance(f[c]) <= Distance(f[d])
        BY <1>3, <2>2 DEF Before
      <4> QED BY <4>1, <4>2
    <3>3. Distance(s) < Distance(f[d])
      BY <1>3, <3>2
    <3> QED BY <3>1, <3>3 DEF Before
  <2>5. CASE b # c /\ b # d
    BY <1>1, <1>5, <2>2, <2>5 DEF Before, Follows
  <2> QED BY <2>3, <2>4, <2>5
<1>6. Latest(g, chan2, ans2, cached2, stored)
  BY <1>4, <1>5 DEF Latest
<1> QED BY <1>6 DEF g

\* The call at the head of the replies caches its wallet.
LEMMA LatestCached ==
  ASSUME NEW f \in [Calls -> CallState], NEW chan, NEW ans,
         NEW cached, NEW stored, Latest(f, chan, ans, cached, stored),
         NEW b \in Calls, Distance(f[b]) = 1, \A c \in Calls : ~Ahead(ans, c, b),
         NEW s \in CallState, Distance(s) = 0,
         NEW chan2, Follows(chan, chan2, b), NEW ans2, Follows(ans, ans2, b)
  PROVE  Latest([f EXCEPT ![b] = s], chan2, ans2, Learned(f[b]), stored)
<1> DEFINE g == [f EXCEPT ![b] = s]
<1>1. g[b] = s /\ \A c \in Calls \ {b} : g[c] = f[c]
  OBVIOUS
<1> HIDE DEF g
<1>2. PICK d \in Calls :
        /\ Distance(f[d]) # 0 /\ Learned(f[d]) = stored
        /\ \A c \in Calls \ {d} : Distance(f[c]) # 0 => Before(f, chan, ans, c, d)
  BY DEF Latest
<1>3. \A c \in Calls : Distance(f[c]) \in 0..3
  BY DEF Distance
<1>4. CASE d = b
  <2>1. ASSUME NEW c \in Calls \ {b}, Distance(f[c]) # 0 PROVE FALSE
    <3>1. Before(f, chan, ans, c, b)
      BY <1>2, <1>4, <2>1
    <3> QED BY <1>3, <2>1, <3>1 DEF Before
  <2>2. \A c \in Calls : Distance(g[c]) = 0
    BY <1>1, <1>2, <1>4, <2>1
  <2> QED BY <1>2, <1>4, <2>2 DEF Latest, g
<1>5. CASE d # b
  <2>1. ASSUME NEW c \in Calls \ {d}, Distance(g[c]) # 0
        PROVE  Before(g, chan2, ans2, c, d)
    <3>1. c # b /\ g[c] = f[c] /\ g[d] = f[d]
      BY <1>1, <1>5, <2>1
    <3>2. Before(f, chan, ans, c, d)
      BY <1>2, <2>1, <3>1
    <3> QED BY <3>1, <3>2 DEF Before, Follows
  <2>2. Latest(g, chan2, ans2, Learned(f[b]), stored)
    BY <1>1, <1>2, <1>5, <2>1 DEF Latest
  <2> QED BY <2>2 DEF g
<1> QED BY <1>4, <1>5

\* What a step of Dart does to the two queues.
LEMMA QueuesGo ==
  ASSUME NEW known, Dart(known), NEW c \in Calls, AppCalls(c) \/ Continuations(c),
         NEW s \in CallState, Sends(c, s), Goes(call[c], s, env)
  PROVE  /\ \/ call[c].at = "none" /\ UNCHANGED replies
            \/ /\ call[c].at = "reply" /\ replies # <<>> /\ c = Head(replies)
               /\ replies' = Tail(replies)
               /\ \A d \in Calls : ~Ahead(replies, d, c)
         /\ Follows(replies, replies', c)
         /\ \/ s.at = "none" /\ UNCHANGED channel
            \/ s.at = "channel" /\ channel' = Append(channel, c)
         /\ Follows(channel, channel', c)
<1>1. /\ call \in [Calls -> CallState] /\ replies \in Seq(Calls) /\ channel \in Seq(Calls)
      /\ QueueOK(replies, "reply", call)
  BY DEF Dart, DartOK
<1>2. CASE AppCalls(c)
  <2>1. UNCHANGED replies
    BY <1>2 DEF AppCalls, CreateWallet, ImportExistingWallet, GetWallet, UpdateWalletStorage,
                PermanentlyDeleteWallet, GetAccountPhrase, WalletEligibleForCloudSync
  <2>2. ~Active(c)
    BY <1>2 DEF AppCalls, CreateWallet, ImportExistingWallet, GetWallet, UpdateWalletStorage,
                PermanentlyDeleteWallet, GetAccountPhrase, WalletEligibleForCloudSync, CanStart
  <2>3. call[c].at = "none"
    BY <2>2 DEF Active, Dart, DartOK, CallOK
  <2> QED BY <1>1, <2>1, <2>3, FollowsSame, FollowsPushed DEF Sends
<1>3. CASE Continuations(c)
  <2>1. PICK pc \in Points : Replied(c, pc)
    BY <1>3, PointsAre
       DEF Continuations, CallThrows, MnemonicGenerated, ExistingRead, ExistingDerived,
           MnemonicSaved, WalletMade, WalletRead, WalletDerived, UpdateRead, UpdateSaved,
           CloudCopyDeleted, WalletDeleted, AnswerPassedOn, Accepted
  <2>2. replies # <<>> /\ c = Head(replies) /\ replies' = Tail(replies) /\ call[c].at = "reply"
    BY <2>1, ReplyIs DEF Replied
  <2>3. Follows(replies, replies', c) /\ \A d \in Calls : ~Ahead(replies, d, c)
    BY <1>1, <2>2, FollowsPopped
  <2> QED BY <1>1, <2>2, <2>3, FollowsSame, FollowsPushed DEF Sends
<1> QED BY <1>2, <1>3

\* The calls stay in their queues.
LEMMA QueuedGo ==
  ASSUME NEW known, Dart(known), NEW c \in Calls, AppCalls(c) \/ Continuations(c),
         Queued(channel, "channel", call), Queued(replies, "reply", call)
  PROVE  Queued(channel', "channel", call') /\ Queued(replies', "reply", call')
<1>1. /\ call \in [Calls -> CallState] /\ replies \in Seq(Calls) /\ channel \in Seq(Calls)
  BY DEF Dart, DartOK
<1>2. PICK s \in CallState : Sends(c, s) /\ Goes(call[c], s, env)
  BY AppCallsGo, ContinuationsGo DEF DartGoes
<1>3. call' = [call EXCEPT ![c] = s] /\ s.at \in {"none", "channel"}
  BY <1>2 DEF Sends
<1> DEFINE f == [call EXCEPT ![c] = s]
<1>6. /\ \/ replies' = replies
         \/ replies # <<>> /\ c = Head(replies) /\ replies' = Tail(replies)
      /\ \/ s.at = "none" /\ channel' = channel
         \/ channel' = Append(channel, c)
  BY <1>2, QueuesGo
<1>7. Queued(replies, "reply", f) /\ (s.at = "none" => Queued(channel, "channel", f))
  BY <1>1, <1>3, QueuedKept
<1>8. Queued(Append(channel, c), "channel", f)
  BY <1>1, QueuedPushed
<1>9. ASSUME replies # <<>>, c = Head(replies) PROVE Queued(Tail(replies), "reply", f)
  <2>1. Queued(Tail(replies), "reply", [call EXCEPT ![Head(replies)] = s])
    BY <1>1, <1>3, <1>9, QueuedPopped
  <2> QED BY <1>9, <2>1
<1> HIDE DEF f
<1>4. Queued(replies', "reply", f)
  BY <1>6, <1>7, <1>9
<1>5. Queued(channel', "channel", f)
  BY <1>6, <1>7, <1>8
<1>10. call' = f
  BY <1>3 DEF f
<1> QED BY <1>4, <1>5, <1>10

\* What a step of Dart does to the calls that derive a wallet.
LEMMA DerivesGo ==
  ASSUME NEW known, Dart(known), NEW c \in Calls, AppCalls(c) \/ Continuations(c),
         \A d \in Calls : DerivesOK(call[d])
  PROVE  \A d \in Calls : DerivesOK(call'[d])
<1>1. call \in [Calls -> CallState]
  BY DEF Dart, DartOK
<1>2. PICK s \in CallState : Sends(c, s)
  BY AppCallsGo, ContinuationsGo DEF DartGoes
<1>3. /\ call' = [call EXCEPT ![c] = s]
      /\ \/ s.at = "none" /\ s.pc \in Finished
         \/ s.at = "channel"
  BY <1>2 DEF Sends
<1>4. Finished \cap Deriving = {}
  BY DEF Finished, Deriving
<1> QED BY <1>1, <1>3, <1>4 DEF DerivesOK

\* A call that will not cache a wallet is not told a phrase by Dart, and leaves the cache
\* alone, where no call deletes the wallet.
LEMMA AsideGoes ==
  ASSUME NEW known, Dart(known), NEW c \in Calls, AppCalls(c) \/ Continuations(c),
         Runs(call[c], env), "permanentlyDeleteWallet" \notin env.ops, Distance(call[c]) = 0
  PROVE  /\ cachedWallet' = cachedWallet
         /\ Distance(call'[c]) = 0
         /\ \A d \in Calls \ {c} : call'[d] = call[d]
<1>1. call \in [Calls -> CallState]
  BY DEF Dart, DartOK
<1>2. PICK s \in CallState : /\ Sends(c, s) /\ Goes(call[c], s, env)
                             /\ Caches(call[c], cachedWallet, cachedWallet')
  BY AppCallsGo, ContinuationsGo DEF DartGoes
<1> DEFINE t == call[c]
<1>3. /\ call' = [call EXCEPT ![c] = s] /\ s.at \in {"none", "channel"}
      /\ s.at = "none" => s.pc \in Finished
  BY <1>2 DEF Sends
<1>4. Finished \cap Deriving = {}
  BY DEF Finished, Deriving
<1>5. /\ s.pc = "makeKey" => Heard(t, "save")
      /\ s.pc = "checkKey" => Heard(t, "checkRead") /\ t.val # NoMnemonic
      /\ s.pc = "key" => Heard(t, "read") /\ t.val # NoMnemonic
  BY <1>2 DEF Goes
<1>6. ~Heard(t, "delete")
  BY PointsAre DEF Runs, Waits, Heard
<1>7. ~Told(t) /\ t.pc \notin Deriving
  BY DEF Distance
<1>8. Distance(s) = 0
  BY <1>3, <1>4, <1>5, <1>7 DEF Distance, Told, Heard, Deriving
<1>9. cachedWallet' = cachedWallet
  BY <1>2, <1>6, <1>7 DEF Caches, Heard, Deriving
<1> QED BY <1>1, <1>3, <1>8, <1>9

\* A step of Dart keeps to the order, where no call deletes the wallet.
LEMMA LatestGoes ==
  ASSUME NEW known, Dart(known), NEW c \in Calls, AppCalls(c) \/ Continuations(c),
         Queued(channel, "channel", call), Queued(replies, "reply", call),
         Runs(call[c], env), "permanentlyDeleteWallet" \notin env.ops,
         \A d \in Calls : DerivesOK(call[d]),
         NEW stored, Latest(call, channel, replies, cachedWallet, stored)
  PROVE  /\ \A d \in Calls : DerivesOK(call'[d])
         /\ Latest(call', channel', replies', cachedWallet', stored)
<1>1. /\ call \in [Calls -> CallState] /\ replies \in Seq(Calls) /\ channel \in Seq(Calls)
  BY DEF Dart, DartOK
<1>2. PICK s \in CallState : /\ Sends(c, s) /\ Goes(call[c], s, env)
                             /\ Caches(call[c], cachedWallet, cachedWallet')
  BY AppCallsGo, ContinuationsGo DEF DartGoes
<1> DEFINE t == call[c]
<1>3. /\ call' = [call EXCEPT ![c] = s] /\ s.at \in {"none", "channel"}
      /\ \/ s.at = "none" /\ s.pc \in Finished
         \/ s.at = "channel" /\ s.pc \in Points /\ channel' = Append(channel, c)
  BY <1>2 DEF Sends
<1>4. Finished \cap Deriving = {} /\ Deriving \subseteq Points /\ Finished \cap Points = {}
  BY PointsAre DEF Finished, Deriving
<1>5. /\ \/ t.at = "none" /\ UNCHANGED replies
         \/ /\ t.at = "reply" /\ \A d \in Calls : ~Ahead(replies, d, c)
      /\ Follows(replies, replies', c) /\ Follows(channel, channel', c)
  BY <1>2, QueuesGo
<1>6. \A d \in Calls : DerivesOK(call'[d])
  BY DerivesGo
<1>7. /\ s.pc = "makeKey" => Heard(t, "save") /\ s.m = t.m
      /\ s.pc = "checkKey" => Heard(t, "checkRead") /\ s.r = t.val /\ t.val # NoMnemonic
      /\ s.pc = "key" => Heard(t, "read") /\ s.r = t.val /\ t.val # NoMnemonic
      /\ Heard(t, "save") => s.pc = "makeKey"
      /\ Heard(t, "checkRead") /\ t.val # NoMnemonic => s.pc = "checkKey"
      /\ Heard(t, "read") /\ t.val # NoMnemonic => s.pc = "key"
      /\ t.at = "none" => t.pc \in Finished
  BY <1>2 DEF Goes
<1>9. CASE Distance(t) = 0
  <2>1. Distance(s) = 0 /\ cachedWallet' = cachedWallet
    BY <1>1, <1>3, <1>9, AsideGoes
  <2>2. Latest(call', channel', replies', cachedWallet, stored)
    BY <1>1, <1>3, <1>5, <1>9, <2>1, LatestAside
  <2> QED BY <1>6, <2>1, <2>2
<1>10. CASE Distance(t) = 1
  <2>1. t.pc \in Deriving /\ t.at = "reply"
    BY <1>10 DEF Distance
  <2>2. Heard(t, t.pc)
    BY <1>4, <2>1 DEF DerivesOK, Heard
  <2>3. cachedWallet' = Learned(t)
    BY <1>2, <2>1, <2>2 DEF Caches, Learned, Deriving
  <2>4. Distance(s) = 0
    BY <1>3, <1>7, <2>1 DEF Distance, Told, Heard, Deriving
  <2>5. Latest(call', channel', replies', Learned(t), stored)
    BY <1>1, <1>3, <1>5, <1>10, <2>1, <2>4, LatestCached
  <2> QED BY <1>6, <2>3, <2>5
<1>11. CASE Distance(t) = 3
  <2>1. Told(t) /\ t.pc \notin Deriving /\ t.at = "reply"
    BY <1>11 DEF Distance, Told
  <2>2. s.pc \in Deriving /\ Learned(s) = Learned(t)
    BY <1>7, <2>1 DEF Told, Heard, Learned, Deriving
  <2>3. s.at = "channel" /\ channel' = Append(channel, c) /\ Distance(s) = 2
    BY <1>3, <1>4, <2>2 DEF Distance
  <2>4. Latest(call', channel', replies', cachedWallet', stored)
    BY <1>1, <1>3, <1>5, <1>11, <2>1, <2>2, <2>3, LatestCloser
  <2> QED BY <1>6, <2>4
<1>12. Distance(t) # 2
  BY <1>4, <1>5, <1>7 DEF Distance, Deriving
<1> QED BY <1>9, <1>10, <1>11, <1>12 DEF Distance

\* A call whose key is derived comes closer, too.
LEMMA LatestDerived ==
  ASSUME NEW known, Dart(known), NEW c \in Calls, call[c] \in CallState,
         Queued(channel, "channel", call), Queued(replies, "reply", call),
         \A d \in Calls : DerivesOK(call[d]),
         channel # <<>>, c = Head(channel), call[c].at = "channel", call[c].pc \in Deriving,
         NEW ok \in BOOLEAN, NEW val \in Mnemonics \cup {NoMnemonic} \cup BOOLEAN,
         NEW stored, NEW cached, Latest(call, channel, replies, cached, stored)
  PROVE  Latest([call EXCEPT ![c] = Answered(call[c], ok, val)], Tail(channel),
                Append(replies, c), cached, stored)
<1>1. /\ call \in [Calls -> CallState] /\ replies \in Seq(Calls) /\ channel \in Seq(Calls)
      /\ QueueOK(channel, "channel", call)
  BY DEF Dart, DartOK
<1> DEFINE u == Answered(call[c], ok, val)
<1>2. /\ u \in CallState /\ u.at = "reply" /\ u.pc = call[c].pc
      /\ u.m = call[c].m /\ u.r = call[c].r
  BY AnsweredType
<1> HIDE DEF u
<1>7. call[c].pc \in Deriving /\ call[c].at = "channel" /\ u.pc \in Deriving
  BY <1>2
<1>8. Distance(call[c]) = 2 /\ Distance(u) = 1
  BY <1>2, <1>7 DEF Distance
<1>9. Learned(u) = Learned(call[c])
  BY <1>2, <1>7 DEF Learned, Deriving
<1>3. Distance(call[c]) = 2 /\ Distance(u) = 1 /\ Learned(u) = Learned(call[c])
  BY <1>8, <1>9
<1>4. /\ Follows(channel, Tail(channel), c) /\ \A d \in Calls : ~Ahead(channel, d, c)
  BY <1>1, FollowsPopped
<1>5. Follows(replies, Append(replies, c), c)
  BY <1>1, FollowsPushed
<1>6. Latest([call EXCEPT ![c] = u], Tail(channel), Append(replies, c), cached, stored)
  BY <1>1, <1>2, <1>3, <1>4, <1>5, LatestCloser
<1> QED BY <1>6 DEF u

-----------------------------------------------------------------------------
(* An app that awaits each call, as WalletContract has it.  What is stored *)
(* does not change while Dart runs, so what a call has read is still what  *)
(* is stored when it uses it: Agrees says so for each point it may be      *)
(* suspended at, and Serves what the contract may see of a step.           *)

\* What the state of a suspended call has to do with what is stored.
Agrees(s, stored, configs) ==
  /\ Waits(s.op, s.pc)
  /\ s.cfg \in configs \/ s.op \notin Savers \cup {"updateWalletStorage"}
  /\ s.at = "reply" => s.ok \/ s.pc \in {"save", "updSave"}
  /\ s.pc \in Reading /\ s.at = "reply" => s.val = stored
  /\ s.pc = "generate" /\ s.at = "reply" => s.val \in Mnemonics
  /\ s.pc = "eligible" /\ s.at = "reply" =>
       s.val \in BOOLEAN /\ (s.val = TRUE => stored # NoMnemonic)
  /\ s.pc = "updDelete" => ~s.cfg.saveToCloud /\ (s.at = "reply" => s.val = TRUE) /\ stored # NoMnemonic
  /\ s.pc \in {"checkKey", "key"} => s.r = stored /\ stored # NoMnemonic
  /\ s.pc = "save" /\ s.at = "channel" => s.overwrite \/ stored = NoMnemonic
  /\ (s.pc = "save" /\ s.at = "reply" /\ s.ok) \/ s.pc \in {"makeKey", "updSave"} => s.m = stored
  /\ s.pc = "delete" => s.m = NoMnemonic /\ ~s.overwrite /\ (s.at = "reply" => stored = NoMnemonic)

\* The call is suspended where it agrees with what is stored, and the cache is right
\* unless the call has had its effect.
Serving(c, stored) ==
  /\ Active(c) => Agrees(call[c], stored, env.configs)
  /\ ~(Active(c) /\ Confirmed(call[c])) => cachedWallet \in {NoMnemonic, stored}

\* The app has no call under way.
NoneActive == \A d \in Calls : ~Active(d)

\* A call as the contract has it, and what may become of it while the wallet stays: it is
\* started, answered from what is stored, refused, or answered with what it has done.
Req(op, stage, overwrite, val) ==
  [op |-> op, stage |-> stage, overwrite |-> overwrite, val |-> val]

\* One that has ended.
Result(op, how, val) == Req(op, how, FALSE, val)

Serves(r, q, stored) ==
  \/ q = r
  \/ /\ NoneActive
     /\ \/ \E op \in Operations, overwrite \in BOOLEAN : q = Req(op, "open", overwrite, NoMnemonic)
        \/ q = Result("getWallet", "returned", stored)
        \/ stored # NoMnemonic /\ q = Result("importExistingWallet", "threw", NoMnemonic)
  \/ r.stage = "applied" /\ q = Result(r.op, "returned", r.val)
  \/ /\ r.stage = "open"
     /\ \/ r.op \in {"getWallet", "getAccountPhrase"} /\ q = Result(r.op, "returned", stored)
        \/ /\ r.op = "walletEligibleForCloudSync"
           /\ \E eligible \in BOOLEAN : /\ eligible => stored # NoMnemonic
                                        /\ q = Result(r.op, "returned", eligible)
        \/ /\ r.op = "updateWalletStorage" /\ stored # NoMnemonic
           /\ q = Result(r.op, "returned", NoMnemonic)
        \/ r.op \in Savers \cup {"updateWalletStorage"} /\ q = Result(r.op, "threw", NoMnemonic)

\* A step of c, as the contract may see it.
Served(c, stored) ==
  \E s \in CallState :
    /\ call' = [call EXCEPT ![c] = s] /\ env' = env
    /\ s.at \in {"none", "channel"}
    /\ s.pc \notin Finished => Agrees(s, stored, env.configs)
    /\ cachedWallet' \in {NoMnemonic, stored} \/ (s.pc \notin Finished /\ Confirmed(s))
    /\ Serves(Seen(call[c]), Seen(s), stored)

\* A suspended call to the contract: open, or applied.
LEMMA SeenIs ==
  ASSUME NEW s \in CallState, s.pc \in Points
  PROVE  /\ s.pc \notin Finished
         /\ ~Confirmed(s) => Seen(s) = Req(s.op, "open", s.overwrite, NoMnemonic)
         /\ Confirmed(s) => Seen(s) = Req(s.op, "applied", s.overwrite, s.m)
<1>1. s.pc \notin Finished
  BY PointsAre DEF Finished
<1> QED BY <1>1 DEF Seen, Req, Request, Stage

\* One that has ended.
LEMMA EndedIs ==
  ASSUME NEW op \in Operations \cup {"none"}, NEW how \in Finished,
         NEW val \in Mnemonics \cup {NoMnemonic} \cup BOOLEAN
  PROVE  /\ Ended(op, how, val) \in CallState
         /\ Ended(op, how, val).pc = how /\ Ended(op, how, val).at = "none"
         /\ Seen(Ended(op, how, val)) = Result(op, how, val)
<1>1. Ended(op, how, val) \in CallState
  BY DEF Ended, CallState, StorageConfig
<1>2. /\ Ended(op, how, val).op = op /\ Ended(op, how, val).pc = how
      /\ Ended(op, how, val).overwrite = FALSE /\ Ended(op, how, val).val = val
      /\ Ended(op, how, val).at = "none"
  BY DEF Ended
<1> QED BY <1>1, <1>2 DEF Seen, Req, Result, Request, Stage

\* A call that asks agrees with what is stored when it asks for the right thing.
LEMMA AgreesAsked ==
  ASSUME NEW state \in CallState, NEW pc \in Points, NEW stored, NEW configs,
         Waits(state.op, pc),
         state.cfg \in configs \/ state.op \notin Savers \cup {"updateWalletStorage"},
         pc = "updDelete" => ~state.cfg.saveToCloud /\ stored # NoMnemonic,
         pc \in {"checkKey", "key"} => state.r = stored /\ stored # NoMnemonic,
         pc = "save" => state.overwrite \/ stored = NoMnemonic,
         pc \in {"makeKey", "updSave"} => state.m = stored,
         pc = "delete" => state.m = NoMnemonic /\ ~state.overwrite
  PROVE  Agrees(Asked(state, pc), stored, configs)
<1> DEFINE t == Asked(state, pc)
<1>1. /\ t.at = "channel" /\ t.pc = pc /\ t.m = state.m /\ t.r = state.r
      /\ t.op = state.op /\ t.cfg = state.cfg /\ t.overwrite = state.overwrite
  BY AskedIs
<1> HIDE DEF t
<1>2. Agrees(t, stored, configs)
  BY <1>1 DEF Agrees
<1> QED BY <1>2 DEF t

\* What an answer leaves of a call.
LEMMA AnsweredIs ==
  ASSUME NEW s \in CallState, NEW val \in Mnemonics \cup {NoMnemonic} \cup BOOLEAN
  PROVE  /\ Answered(s, TRUE, val).at = "reply" /\ Answered(s, TRUE, val).ok = TRUE
         /\ Answered(s, TRUE, val).val = val /\ Answered(s, TRUE, val).pc = s.pc
         /\ Answered(s, TRUE, val).m = s.m /\ Answered(s, TRUE, val).r = s.r
         /\ Answered(s, TRUE, val).op = s.op /\ Answered(s, TRUE, val).cfg = s.cfg
         /\ Answered(s, TRUE, val).overwrite = s.overwrite
BY DEF Answered, CallState

\* A call that answers agrees with what is stored when its answer says so.
LEMMA AgreesAnswered ==
  ASSUME NEW s \in CallState, NEW val \in Mnemonics \cup {NoMnemonic} \cup BOOLEAN,
         NEW stored, NEW configs, Agrees(s, stored, configs),
         s.pc \notin {"save", "delete", "updDelete"},
         s.pc \in Reading => val = stored,
         s.pc = "generate" => val \in Mnemonics,
         s.pc = "eligible" => val \in BOOLEAN /\ (val = TRUE => stored # NoMnemonic)
  PROVE  Agrees(Answered(s, TRUE, val), stored, configs)
<1> DEFINE t == Answered(s, TRUE, val)
<1>1. /\ t.at = "reply" /\ t.ok = TRUE /\ t.val = val /\ t.pc = s.pc /\ t.m = s.m /\ t.r = s.r
      /\ t.op = s.op /\ t.cfg = s.cfg /\ t.overwrite = s.overwrite
  BY AnsweredIs
<1> HIDE DEF t
<1>2. Waits(t.op, t.pc)
  BY <1>1 DEF Agrees
<1>3. Agrees(t, stored, configs)
  BY <1>1, <1>2 DEF Agrees
<1> QED BY <1>3 DEF t

\* The app's call asks the platform.
LEMMA ServesBegun ==
  ASSUME NEW c \in Calls, NEW op \in Operations, NoneActive,
         NEW state \in CallState, state.op = op, NEW pc \in Points, pc # "makeKey",
         Ask(c, state, pc), NEW stored, Agrees(Asked(state, pc), stored, env.configs),
         Serving(c, stored), UNCHANGED <<env, cachedWallet>>
  PROVE  Served(c, stored)
<1> DEFINE s == Asked(state, pc)
<1>1. call' = [call EXCEPT ![c] = s]
  BY DEF Ask, Asked
<1>2. /\ s \in CallState /\ s.pc = pc /\ s.at = "channel"
      /\ s.op = op /\ s.overwrite = state.overwrite /\ state.overwrite \in BOOLEAN
  <2>1. /\ s \in CallState /\ s.pc = pc /\ s.at = "channel" /\ s.op = state.op
        /\ s.overwrite = state.overwrite
    BY AskedIs
  <2>2. state.overwrite \in BOOLEAN
    BY DEF CallState
  <2> QED BY <2>1, <2>2
<1>3. Agrees(s, stored, env.configs)
  OBVIOUS
<1> HIDE DEF s
<1>4. ~Confirmed(s)
  BY <1>2 DEF Confirmed
<1>5. Seen(s) = Req(op, "open", state.overwrite, NoMnemonic)
  BY <1>2, <1>4, SeenIs
<1>6. Serves(Seen(call[c]), Seen(s), stored)
  BY <1>2, <1>5 DEF Serves
<1>7. cachedWallet' \in {NoMnemonic, stored}
  BY DEF Serving, NoneActive
<1> QED BY <1>1, <1>2, <1>3, <1>6, <1>7 DEF Served

\* A call asks the platform again.
LEMMA ServesOn ==
  ASSUME NEW c \in Calls, call[c] \in CallState, call[c].pc \in Points,
         NEW state \in CallState, NEW pc \in Points, Ask(c, state, pc),
         NEW stored, Agrees(Asked(state, pc), stored, env.configs),
         state.op = call[c].op, state.overwrite = call[c].overwrite,
         \/ /\ ~Confirmed(call[c])
            /\ pc # "makeKey"
            /\ cachedWallet' \in {NoMnemonic, stored}
         \/ Confirmed(call[c]) /\ pc = "makeKey" /\ state.m = call[c].m,
         env' = env
  PROVE  Served(c, stored)
<1> DEFINE s == Asked(state, pc)
<1>1. call' = [call EXCEPT ![c] = s]
  BY DEF Ask, Asked
<1>2. /\ s \in CallState /\ s.pc = pc /\ s.at = "channel"
      /\ s.op = call[c].op /\ s.overwrite = call[c].overwrite /\ s.m = state.m
  BY AskedIs
<1>3. Agrees(s, stored, env.configs)
  OBVIOUS
<1> HIDE DEF s
<1>4. Confirmed(s) <=> pc = "makeKey"
  BY <1>2 DEF Confirmed
<1>5. Seen(s) = Seen(call[c])
  BY <1>2, <1>4, SeenIs
<1>6. Serves(Seen(call[c]), Seen(s), stored)
  BY <1>5 DEF Serves
<1>7. s.pc \notin Finished
  BY <1>2, SeenIs
<1> QED BY <1>1, <1>2, <1>3, <1>4, <1>6, <1>7 DEF Served

\* A call ends.
LEMMA ServesEnded ==
  ASSUME NEW c \in Calls, NEW op \in Operations, NEW how \in Finished,
         NEW val \in Mnemonics \cup {NoMnemonic} \cup BOOLEAN, Finish(c, op, how, val),
         NEW stored, cachedWallet' \in {NoMnemonic, stored}, env' = env,
         Serves(Seen(call[c]), Result(op, how, val), stored)
  PROVE  Served(c, stored)
<1> DEFINE s == Ended(op, how, val)
<1>1. call' = [call EXCEPT ![c] = s]
  BY DEF Finish
<1>2. /\ s \in CallState /\ s.pc \in Finished /\ s.at = "none"
      /\ Seen(s) = Result(op, how, val)
  BY EndedIs
<1> HIDE DEF s
<1> QED BY <1>1, <1>2 DEF Served

\* A call that ends: it has had its effect, or it reads, or it has none.
EndsRight(s, how, val, stored) ==
  \/ Confirmed(s) /\ how = "returned" /\ val = s.m
  \/ /\ ~Confirmed(s)
     /\ \/ how = "returned" /\ val = stored /\ s.op \in {"getWallet", "getAccountPhrase"}
        \/ /\ how = "returned" /\ s.op = "walletEligibleForCloudSync"
           /\ val \in BOOLEAN /\ (val = TRUE => stored # NoMnemonic)
        \/ /\ how = "returned" /\ val = NoMnemonic /\ s.op = "updateWalletStorage"
           /\ stored # NoMnemonic
        \/ how = "threw" /\ val = NoMnemonic /\ s.op \in Savers \cup {"updateWalletStorage"}

LEMMA ServesEnds ==
  ASSUME NEW c \in Calls, call[c] \in CallState, call[c].pc \in Points, call[c].op \in Operations,
         NEW how \in Finished, NEW val \in Mnemonics \cup {NoMnemonic} \cup BOOLEAN,
         Finish(c, call[c].op, how, val), NEW stored, EndsRight(call[c], how, val, stored),
         cachedWallet' \in {NoMnemonic, stored}, env' = env
  PROVE  Served(c, stored)
<1> DEFINE r == Seen(call[c])
           q == Result(call[c].op, how, val)
<1>1. /\ ~Confirmed(call[c]) => r.op = call[c].op /\ r.stage = "open"
      /\ Confirmed(call[c]) => r.op = call[c].op /\ r.stage = "applied" /\ r.val = call[c].m
  BY SeenIs DEF Req
<1> HIDE DEF r
<1>2. CASE Confirmed(call[c])
  <2>1. q = Result(r.op, "returned", r.val)
    BY <1>1, <1>2 DEF EndsRight
  <2> QED BY <1>1, <1>2, <2>1, ServesEnded DEF r, Serves
<1>3. CASE /\ ~Confirmed(call[c]) /\ how = "returned" /\ val = stored
           /\ call[c].op \in {"getWallet", "getAccountPhrase"}
  <2>1. q = Result(r.op, "returned", stored)
    BY <1>1, <1>3
  <2> QED BY <1>1, <1>3, <2>1, ServesEnded DEF r, Serves
<1>4. CASE /\ ~Confirmed(call[c]) /\ how = "returned" /\ call[c].op = "walletEligibleForCloudSync"
           /\ val \in BOOLEAN /\ (val = TRUE => stored # NoMnemonic)
  <2>1. PICK eligible \in BOOLEAN : eligible = val
    BY <1>4
  <2>2. (eligible => stored # NoMnemonic) /\ q = Result(r.op, "returned", eligible)
    BY <1>1, <1>4, <2>1
  <2>3. Serves(r, q, stored)
    BY <1>1, <1>4, <2>2 DEF Serves
  <2> QED BY <2>3, ServesEnded DEF r
<1>5. CASE /\ ~Confirmed(call[c]) /\ how = "returned" /\ val = NoMnemonic
           /\ call[c].op = "updateWalletStorage" /\ stored # NoMnemonic
  <2>1. q = Result(r.op, "returned", NoMnemonic)
    BY <1>1, <1>5
  <2> QED BY <1>1, <1>5, <2>1, ServesEnded DEF r, Serves
<1>6. CASE /\ ~Confirmed(call[c]) /\ how = "threw" /\ val = NoMnemonic
           /\ call[c].op \in Savers \cup {"updateWalletStorage"}
  <2>1. q = Result(r.op, "threw", NoMnemonic)
    BY <1>1, <1>6
  <2> QED BY <1>1, <1>6, <2>1, ServesEnded DEF r, Serves
<1> QED BY <1>2, <1>3, <1>4, <1>5, <1>6 DEF EndsRight

\* A call that the app makes runs alone.
LEMMA StartsAlone ==
  ASSUME NEW c \in Calls, NEW op, CanStart(c, op), env.serial,
         NEW stored, Serving(c, stored)
  PROVE  NoneActive /\ cachedWallet \in {NoMnemonic, stored}
BY DEF CanStart, Serving, NoneActive

\* A call of the app.
LEMMA AppCallsServe ==
  ASSUME NEW known, Dart(known), env.serial, NEW c \in Calls,
         NEW stored \in Mnemonics \cup {NoMnemonic}, Serving(c, stored), AppCalls(c)
  PROVE  Served(c, stored)
<1>1. env \in Environments /\ env.configs \subseteq StorageConfig
  BY AppAssumption DEF Dart
<1>2. NoMnemonic \notin Mnemonics /\ fresh \subseteq Generated
  BY PhrasesAssumption DEF Dart
<1>3. CASE CreateWallet(c)
  <2>1. /\ CanStart(c, "createWallet") /\ UNCHANGED <<env, cachedWallet>>
        /\ "createWallet" \in Operations /\ "generate" \in Points /\ "generate" # "makeKey"
    BY <1>3, PointsAre DEF CreateWallet, Operations
  <2>2. PICK overwrite \in BOOLEAN, cfg \in env.configs :
          Ask(c, [Started("createWallet") EXCEPT !.overwrite = overwrite, !.cfg = cfg], "generate")
    BY <1>3 DEF CreateWallet
  <2> DEFINE state == [Started("createWallet") EXCEPT !.overwrite = overwrite, !.cfg = cfg]
  <2>3. state \in CallState /\ state.op = "createWallet" /\ state.cfg = cfg
    <3>1. Started("createWallet") \in CallState /\ Started("createWallet").m = NoMnemonic
      BY <2>1, StartedIs
    <3>2. cfg \in StorageConfig /\ NoMnemonic \in Mnemonics \cup {NoMnemonic}
      BY <1>1
    <3>3. state = Built("createWallet", overwrite, cfg, NoMnemonic)
      BY <3>1 DEF Built, CallState
    <3> HIDE DEF state
    <3> QED BY <2>1, <3>2, <3>3, BuiltIs
  <2>4. Ask(c, state, "generate")
    BY <2>2
  <2> HIDE DEF state
  <2>5. Agrees(Asked(state, "generate"), stored, env.configs)
    BY <2>1, <2>3, AgreesAsked DEF Waits
  <2> QED BY <2>1, <2>3, <2>4, <2>5, StartsAlone, ServesBegun
<1>4. CASE ImportExistingWallet(c)
  <2>1. /\ CanStart(c, "importExistingWallet") /\ UNCHANGED <<env, cachedWallet>>
        /\ "importExistingWallet" \in Operations
        /\ {"checkRead", "save"} \subseteq Points
    BY <1>4, PointsAre DEF ImportExistingWallet, Operations
  <2>2. PICK m \in (Generated \ fresh) \cup External \cup Invalid,
             overwrite \in BOOLEAN, cfg \in env.configs :
          SaveMnemonicIn(c, [Started("importExistingWallet") EXCEPT
                               !.overwrite = overwrite, !.cfg = cfg, !.m = m])
    BY <1>4 DEF ImportExistingWallet
  <2> DEFINE state == [Started("importExistingWallet") EXCEPT
                         !.overwrite = overwrite, !.cfg = cfg, !.m = m]
             saving == [state EXCEPT !.r = NoMnemonic]
  <2>3. m \in Mnemonics
    BY DEF Mnemonics
  <2>4. /\ state \in CallState /\ state.op = "importExistingWallet" /\ state.cfg = cfg
        /\ state.overwrite = overwrite
    <3>1. cfg \in StorageConfig /\ m \in Mnemonics \cup {NoMnemonic}
      BY <1>1, <2>3
    <3>2. state = Built("importExistingWallet", overwrite, cfg, m)
      BY DEF Built
    <3> HIDE DEF state
    <3> QED BY <2>1, <3>1, <3>2, BuiltIs
  <2>5. SaveMnemonicIn(c, state)
    BY <2>2
  <2> HIDE DEF state
  <2>6. /\ saving \in CallState /\ saving.op = "importExistingWallet" /\ saving.cfg = cfg
        /\ saving.overwrite = overwrite
    BY <2>4 DEF CallState
  <2>7. /\ cachedWallet = NoMnemonic => Ask(c, state, "checkRead")
        /\ cachedWallet # NoMnemonic /\ overwrite => Ask(c, saving, "save")
        /\ cachedWallet # NoMnemonic /\ ~overwrite =>
             Finish(c, "importExistingWallet", "threw", NoMnemonic)
    BY <2>4, <2>5 DEF SaveMnemonicIn, SaveUnlessExisting
  <2> HIDE DEF saving
  <2>8. CASE cachedWallet = NoMnemonic
    <3>1. Agrees(Asked(state, "checkRead"), stored, env.configs)
      BY <2>1, <2>4, AgreesAsked DEF Waits, Savers
    <3> QED BY <2>1, <2>4, <2>7, <2>8, <3>1, StartsAlone, ServesBegun
  <2>9. CASE cachedWallet # NoMnemonic /\ overwrite
    <3>1. Agrees(Asked(saving, "save"), stored, env.configs)
      BY <2>1, <2>6, <2>9, AgreesAsked DEF Waits, Savers
    <3> QED BY <2>1, <2>6, <2>7, <2>9, <3>1, StartsAlone, ServesBegun
  <2>10. CASE cachedWallet # NoMnemonic /\ ~overwrite
    <3>1. NoneActive /\ cachedWallet = stored
      BY <2>1, <2>10, StartsAlone
    <3>2. "threw" \in Finished /\ NoMnemonic \in Mnemonics \cup {NoMnemonic} \cup BOOLEAN
      BY DEF Finished
    <3>3. Serves(Seen(call[c]), Result("importExistingWallet", "threw", NoMnemonic), stored)
      BY <2>10, <3>1 DEF Serves
    <3> QED BY <2>1, <2>7, <2>10, <3>1, <3>2, <3>3, ServesEnded
  <2> QED BY <2>8, <2>9, <2>10
<1>5. CASE GetWallet(c)
  <2>1. /\ CanStart(c, "getWallet") /\ UNCHANGED <<env, cachedWallet>>
        /\ "getWallet" \in Operations /\ "read" \in Points /\ "read" # "makeKey"
    BY <1>5, PointsAre DEF GetWallet, Operations
  <2>2. CASE cachedWallet = NoMnemonic
    <3>1. Started("getWallet") \in CallState /\ Started("getWallet").op = "getWallet"
      BY <2>1, StartedIs
    <3>2. Agrees(Asked(Started("getWallet"), "read"), stored, env.configs)
      BY <2>1, <3>1, AgreesAsked DEF Waits, Savers
    <3>3. Ask(c, Started("getWallet"), "read")
      BY <1>5, <2>2 DEF GetWallet
    <3> QED BY <2>1, <3>1, <3>2, <3>3, StartsAlone, ServesBegun
  <2>3. CASE cachedWallet # NoMnemonic
    <3>1. NoneActive /\ cachedWallet = stored
      BY <2>1, <2>3, StartsAlone
    <3>2. "returned" \in Finished /\ stored \in Mnemonics \cup {NoMnemonic} \cup BOOLEAN
      BY DEF Finished
    <3>3. Finish(c, "getWallet", "returned", stored)
      BY <1>5, <2>3, <3>1 DEF GetWallet
    <3>4. Serves(Seen(call[c]), Result("getWallet", "returned", stored), stored)
      BY <3>1 DEF Serves
    <3> QED BY <2>1, <3>1, <3>2, <3>3, <3>4, ServesEnded
  <2> QED BY <2>2, <2>3
<1>6. CASE UpdateWalletStorage(c)
  <2>1. /\ CanStart(c, "updateWalletStorage") /\ UNCHANGED <<env, cachedWallet>>
        /\ "updateWalletStorage" \in Operations /\ "updRead" \in Points /\ "updRead" # "makeKey"
    BY <1>6, PointsAre DEF UpdateWalletStorage, Operations
  <2>2. PICK cfg \in env.configs :
          Ask(c, [Started("updateWalletStorage") EXCEPT !.cfg = cfg], "updRead")
    BY <1>6 DEF UpdateWalletStorage
  <2> DEFINE state == [Started("updateWalletStorage") EXCEPT !.cfg = cfg]
  <2>3. state \in CallState /\ state.op = "updateWalletStorage" /\ state.cfg = cfg
    <3>1. Started("updateWalletStorage") \in CallState /\ Started("updateWalletStorage").op = "updateWalletStorage"
      BY <2>1, StartedIs
    <3>2. cfg \in StorageConfig
      BY <1>1
    <3> QED BY <3>1, <3>2 DEF CallState
  <2>4. Ask(c, state, "updRead")
    BY <2>2
  <2> HIDE DEF state
  <2>5. Agrees(Asked(state, "updRead"), stored, env.configs)
    BY <2>1, <2>3, AgreesAsked DEF Waits
  <2> QED BY <2>1, <2>3, <2>4, <2>5, StartsAlone, ServesBegun
<1>7. CASE PermanentlyDeleteWallet(c)
  <2> DEFINE state == Started("permanentlyDeleteWallet")
  <2>1. /\ CanStart(c, "permanentlyDeleteWallet") /\ UNCHANGED <<env, cachedWallet>>
        /\ "permanentlyDeleteWallet" \in Operations /\ "delete" \in Points /\ "delete" # "makeKey"
        /\ Ask(c, state, "delete")
    BY <1>7, PointsAre DEF PermanentlyDeleteWallet, Operations
  <2>2. /\ state \in CallState /\ state.op = "permanentlyDeleteWallet"
        /\ state.m = NoMnemonic /\ state.overwrite = FALSE
    BY <2>1, StartedIs
  <2> HIDE DEF state
  <2>3. Agrees(Asked(state, "delete"), stored, env.configs)
    BY <2>1, <2>2, AgreesAsked DEF Waits, Savers
  <2> QED BY <2>1, <2>2, <2>3, StartsAlone, ServesBegun
<1>8. CASE GetAccountPhrase(c)
  <2> DEFINE state == Started("getAccountPhrase")
  <2>1. /\ CanStart(c, "getAccountPhrase") /\ UNCHANGED <<env, cachedWallet>>
        /\ "getAccountPhrase" \in Operations /\ "phrase" \in Points /\ "phrase" # "makeKey"
        /\ Ask(c, state, "phrase")
    BY <1>8, PointsAre DEF GetAccountPhrase, Operations
  <2>2. state \in CallState /\ state.op = "getAccountPhrase"
    BY <2>1, StartedIs
  <2> HIDE DEF state
  <2>3. Agrees(Asked(state, "phrase"), stored, env.configs)
    BY <2>1, <2>2, AgreesAsked DEF Waits, Savers
  <2> QED BY <2>1, <2>2, <2>3, StartsAlone, ServesBegun
<1>9. CASE WalletEligibleForCloudSync(c)
  <2> DEFINE state == Started("walletEligibleForCloudSync")
  <2>1. /\ CanStart(c, "walletEligibleForCloudSync") /\ UNCHANGED <<env, cachedWallet>>
        /\ "walletEligibleForCloudSync" \in Operations
        /\ "eligible" \in Points /\ "eligible" # "makeKey"
        /\ Ask(c, state, "eligible")
    BY <1>9, PointsAre DEF WalletEligibleForCloudSync, Operations
  <2>2. state \in CallState /\ state.op = "walletEligibleForCloudSync"
    BY <2>1, StartedIs
  <2> HIDE DEF state
  <2>3. Agrees(Asked(state, "eligible"), stored, env.configs)
    BY <2>1, <2>2, AgreesAsked DEF Waits, Savers
  <2> QED BY <2>1, <2>2, <2>3, StartsAlone, ServesBegun
<1> QED BY <1>3, <1>4, <1>5, <1>6, <1>7, <1>8, <1>9 DEF AppCalls

\* A call that goes on was told what is stored.
LEMMA Continued ==
  ASSUME NEW known, Dart(known), NEW c \in Calls, NEW stored, Serving(c, stored),
         NEW pc \in Points, Replied(c, pc)
  PROVE  /\ call[c] \in CallState /\ call[c].pc = pc /\ call[c].at = "reply" /\ env' = env
         /\ Agrees(call[c], stored, env.configs)
         /\ CallOK(call[c], known)
         /\ ~Confirmed(call[c]) => cachedWallet \in {NoMnemonic, stored}
         /\ Confirmed(call[c]) <=> pc = "makeKey" \/ (pc \in {"save", "delete"} /\ call[c].ok)
         /\ call[c].op \in Operations
<1>1. /\ call[c] \in CallState /\ call[c].pc = pc /\ call[c].at = "reply" /\ env' = env
      /\ CallOK(call[c], known)
  BY ReplyIs
<1>2. Active(c)
  BY <1>1, PointsAre DEF Active, Finished
<1>3. /\ Agrees(call[c], stored, env.configs)
      /\ ~Confirmed(call[c]) => cachedWallet \in {NoMnemonic, stored}
  BY <1>2 DEF Serving
<1>4. call[c].op \in Operations
  BY <1>1, <1>3, PointsAre DEF Agrees, Waits, Savers, Operations
<1> QED BY <1>1, <1>3, <1>4 DEF Confirmed

\* With the phrase to be saved at hand, it is saved unless a wallet is in its way.
LEMMA SavesUnless ==
  ASSUME NEW known, Dart(known), NEW c \in Calls, NEW stored, Serving(c, stored),
         NEW pc \in Points, Replied(c, pc), pc \in {"generate", "checkRead", "checkKey"},
         NEW state \in CallState, state.op = call[c].op, state.overwrite = call[c].overwrite,
         state.cfg = call[c].cfg,
         NEW exists \in BOOLEAN, exists <=> stored # NoMnemonic,
         SaveUnlessExisting(c, state, exists),
         cachedWallet' \in {NoMnemonic, stored}
  PROVE  Served(c, stored)
<1>1. /\ call[c] \in CallState /\ call[c].pc = pc /\ env' = env /\ call[c].op \in Operations
      /\ Agrees(call[c], stored, env.configs) /\ ~Confirmed(call[c])
  BY Continued
<1>2. call[c].op \in Savers /\ state.cfg \in env.configs
  BY <1>1 DEF Agrees, Waits, Savers
<1> DEFINE saving == [state EXCEPT !.r = NoMnemonic]
<1>3. /\ saving \in CallState /\ saving.op = call[c].op
      /\ saving.overwrite = call[c].overwrite /\ saving.cfg = state.cfg
  BY DEF CallState
<1>4. CASE exists /\ ~state.overwrite
  <2>1. Finish(c, call[c].op, "threw", NoMnemonic)
    BY <1>4 DEF SaveUnlessExisting
  <2>2. "threw" \in Finished /\ NoMnemonic \in Mnemonics \cup {NoMnemonic} \cup BOOLEAN
    BY DEF Finished
  <2>3. EndsRight(call[c], "threw", NoMnemonic, stored)
    BY <1>1, <1>2 DEF EndsRight
  <2> QED BY <1>1, <2>1, <2>2, <2>3, ServesEnds
<1>5. CASE ~(exists /\ ~state.overwrite)
  <2>1. Ask(c, saving, "save") /\ "save" \in Points /\ "save" # "makeKey"
    BY <1>5, PointsAre DEF SaveUnlessExisting
  <2>2. saving.overwrite \/ stored = NoMnemonic
    BY <1>3, <1>5
  <2> HIDE DEF saving
  <2>3. Agrees(Asked(saving, "save"), stored, env.configs)
    BY <1>2, <1>3, <2>1, <2>2, AgreesAsked DEF Waits
  <2> QED BY <1>1, <1>3, <2>1, <2>3, ServesOn
<1> QED BY <1>4, <1>5

\* A method throws for a save that was refused, and for nothing else the platform says.
LEMMA ThrowServes ==
  ASSUME NEW known, Dart(known), NEW c \in Calls, NEW stored, Serving(c, stored), CallThrows(c)
  PROVE  Served(c, stored)
<1>1. PICK pc \in Points : Replied(c, pc)
  BY DEF CallThrows
<1>2. /\ call[c] \in CallState /\ call[c].pc = pc /\ call[c].at = "reply" /\ env' = env
      /\ Agrees(call[c], stored, env.configs) /\ call[c].op \in Operations
      /\ ~Confirmed(call[c]) => cachedWallet \in {NoMnemonic, stored}
      /\ Confirmed(call[c]) <=> pc = "makeKey" \/ (pc \in {"save", "delete"} /\ call[c].ok)
  BY <1>1, Continued
<1>3. ~call[c].ok /\ pc \in {"save", "updSave"}
  BY <1>2, PhrasesAssumption DEF CallThrows, Rejected, Agrees
<1>4. Finish(c, call[c].op, "threw", NoMnemonic) /\ cachedWallet' = cachedWallet
  BY <1>2, <1>3 DEF CallThrows, Throw
<1>5. call[c].op \in Savers \cup {"updateWalletStorage"}
  BY <1>2, <1>3 DEF Agrees, Waits
<1>6. ~Confirmed(call[c]) /\ EndsRight(call[c], "threw", NoMnemonic, stored)
  BY <1>2, <1>3, <1>5 DEF EndsRight
<1>7. "threw" \in Finished /\ NoMnemonic \in Mnemonics \cup {NoMnemonic} \cup BOOLEAN
  BY DEF Finished
<1> QED BY <1>2, <1>4, <1>6, <1>7, ServesEnds

\* The methods before the phrase is saved.
LEMMA BeforeSavingServes ==
  ASSUME NEW known, Dart(known), NEW c \in Calls, NEW stored \in Mnemonics \cup {NoMnemonic},
         Serving(c, stored),
         MnemonicGenerated(c) \/ ExistingRead(c) \/ ExistingDerived(c) \/ MnemonicSaved(c)
  PROVE  Served(c, stored)
<1>1. /\ NoMnemonic \notin Mnemonics
      /\ {"generate", "checkRead", "checkKey", "save", "makeKey"} \subseteq Points
  BY PhrasesAssumption, PointsAre
<1>2. CASE MnemonicGenerated(c)
  <2>1. Replied(c, "generate") /\ cachedWallet' = cachedWallet
    BY <1>2 DEF MnemonicGenerated, Accepted
  <2>2. /\ call[c] \in CallState /\ call[c].pc = "generate" /\ call[c].at = "reply" /\ env' = env
        /\ Agrees(call[c], stored, env.configs) /\ ~Confirmed(call[c])
        /\ cachedWallet \in {NoMnemonic, stored}
    BY <1>1, <2>1, Continued
  <2> DEFINE state == [call[c] EXCEPT !.m = call[c].val]
  <2>3. call[c].val \in Mnemonics
    BY <2>2 DEF Agrees
  <2>4. /\ state \in CallState /\ state.op = call[c].op
        /\ state.overwrite = call[c].overwrite /\ state.cfg = call[c].cfg
    BY <2>2, <2>3 DEF CallState
  <2>5. SaveMnemonicIn(c, state)
    BY <1>2 DEF MnemonicGenerated
  <2> HIDE DEF state
  <2>6. CASE cachedWallet = NoMnemonic
    <3>1. Ask(c, state, "checkRead")
      BY <2>5, <2>6 DEF SaveMnemonicIn
    <3>2. Waits(state.op, "checkRead") /\ state.cfg \in env.configs
      BY <2>2, <2>4 DEF Agrees, Waits, Savers
    <3>3. Agrees(Asked(state, "checkRead"), stored, env.configs)
      BY <1>1, <2>4, <3>2, AgreesAsked
    <3> QED BY <1>1, <2>1, <2>2, <2>4, <3>1, <3>3, ServesOn
  <2>7. CASE cachedWallet # NoMnemonic
    <3>1. SaveUnlessExisting(c, state, TRUE) /\ stored # NoMnemonic
      BY <2>2, <2>5, <2>7 DEF SaveMnemonicIn
    <3> QED BY <1>1, <2>1, <2>2, <2>4, <3>1, SavesUnless
  <2> QED BY <2>6, <2>7
<1>3. CASE ExistingRead(c)
  <2>1. Replied(c, "checkRead") /\ cachedWallet' = cachedWallet
    BY <1>3 DEF ExistingRead, Accepted
  <2>2. /\ call[c] \in CallState /\ call[c].pc = "checkRead" /\ call[c].at = "reply" /\ env' = env
        /\ Agrees(call[c], stored, env.configs) /\ ~Confirmed(call[c])
        /\ cachedWallet \in {NoMnemonic, stored}
    BY <1>1, <2>1, Continued
  <2>3. call[c].val = stored
    BY <2>2 DEF Agrees, Reading
  <2>4. CASE stored = NoMnemonic
    <3>1. SaveUnlessExisting(c, call[c], FALSE)
      BY <1>3, <2>3, <2>4 DEF ExistingRead
    <3> QED BY <1>1, <2>1, <2>2, <2>4, <3>1, SavesUnless
  <2>5. CASE stored # NoMnemonic
    <3> DEFINE state == [call[c] EXCEPT !.r = stored]
    <3>1. Ask(c, state, "checkKey")
      BY <1>3, <2>3, <2>5 DEF ExistingRead
    <3>2. /\ state \in CallState /\ state.op = call[c].op /\ state.r = stored
          /\ state.overwrite = call[c].overwrite /\ state.cfg = call[c].cfg
      BY <1>1, <2>2 DEF CallState
    <3> HIDE DEF state
    <3>3. Waits(state.op, "checkKey") /\ state.cfg \in env.configs
      BY <2>2, <3>2 DEF Agrees, Waits, Savers
    <3>4. Agrees(Asked(state, "checkKey"), stored, env.configs)
      BY <1>1, <2>5, <3>2, <3>3, AgreesAsked
    <3> QED BY <1>1, <2>1, <2>2, <3>1, <3>2, <3>4, ServesOn
  <2> QED BY <2>4, <2>5
<1>4. CASE ExistingDerived(c)
  <2>1. /\ Replied(c, "checkKey") /\ cachedWallet' = call[c].r
        /\ SaveUnlessExisting(c, call[c], TRUE)
    BY <1>4 DEF ExistingDerived, Accepted
  <2>2. call[c] \in CallState /\ call[c].pc = "checkKey" /\ Agrees(call[c], stored, env.configs)
    BY <1>1, <2>1, Continued
  <2>3. call[c].r = stored /\ stored # NoMnemonic
    BY <2>2 DEF Agrees
  <2> QED BY <1>1, <2>1, <2>2, <2>3, SavesUnless
<1>5. CASE MnemonicSaved(c)
  <2>1. Replied(c, "save") /\ ~Rejected(c) /\ Ask(c, call[c], "makeKey")
    BY <1>5 DEF MnemonicSaved, Accepted
  <2>2. /\ call[c] \in CallState /\ call[c].pc = "save" /\ call[c].at = "reply" /\ env' = env
        /\ Agrees(call[c], stored, env.configs) /\ call[c].ok /\ Confirmed(call[c])
    BY <1>1, <2>1, Continued DEF Rejected
  <2>3. Waits(call[c].op, "makeKey") /\ call[c].cfg \in env.configs /\ call[c].m = stored
    BY <2>2 DEF Agrees, Waits, Savers
  <2>4. Agrees(Asked(call[c], "makeKey"), stored, env.configs)
    BY <1>1, <2>2, <2>3, AgreesAsked
  <2> QED BY <1>1, <2>1, <2>2, <2>4, ServesOn
<1> QED BY <1>2, <1>3, <1>4, <1>5

\* The methods that read, or that have had their effect.
LEMMA ReadAndReturnedServe ==
  ASSUME NEW known, Dart(known), NEW c \in Calls, NEW stored \in Mnemonics \cup {NoMnemonic},
         Serving(c, stored),
         WalletMade(c) \/ WalletRead(c) \/ WalletDerived(c) \/ WalletDeleted(c)
           \/ AnswerPassedOn(c)
  PROVE  Served(c, stored)
<1>1. /\ NoMnemonic \notin Mnemonics
      /\ {"makeKey", "read", "key", "delete", "phrase", "eligible"} \subseteq Points
      /\ "returned" \in Finished
      /\ NoMnemonic \in Mnemonics \cup {NoMnemonic} \cup BOOLEAN
      /\ stored \in Mnemonics \cup {NoMnemonic} \cup BOOLEAN
  BY PhrasesAssumption, PointsAre DEF Finished
<1>2. CASE WalletMade(c)
  <2>1. /\ Replied(c, "makeKey") /\ cachedWallet' = call[c].m
        /\ Finish(c, call[c].op, "returned", call[c].m)
    BY <1>2 DEF WalletMade, Accepted, Return
  <2>2. /\ call[c] \in CallState /\ call[c].pc = "makeKey" /\ env' = env /\ call[c].op \in Operations
        /\ Agrees(call[c], stored, env.configs) /\ Confirmed(call[c])
    BY <1>1, <2>1, Continued
  <2>3. call[c].m = stored /\ EndsRight(call[c], "returned", stored, stored)
    BY <2>2 DEF Agrees, EndsRight
  <2> QED BY <1>1, <2>1, <2>2, <2>3, ServesEnds
<1>3. CASE WalletRead(c)
  <2>1. Replied(c, "read") /\ cachedWallet' = cachedWallet
    BY <1>3 DEF WalletRead, Accepted
  <2>2. /\ call[c] \in CallState /\ call[c].pc = "read" /\ call[c].at = "reply" /\ env' = env
        /\ Agrees(call[c], stored, env.configs) /\ ~Confirmed(call[c])
        /\ cachedWallet \in {NoMnemonic, stored} /\ call[c].op \in Operations
    BY <1>1, <2>1, Continued
  <2>3. call[c].val = stored /\ call[c].op = "getWallet"
    BY <2>2 DEF Agrees, Reading, Waits
  <2>4. CASE stored = NoMnemonic
    <3>1. Finish(c, call[c].op, "returned", stored)
      BY <1>3, <2>3, <2>4 DEF WalletRead, Return
    <3>2. EndsRight(call[c], "returned", stored, stored)
      BY <2>2, <2>3 DEF EndsRight
    <3> QED BY <1>1, <2>1, <2>2, <3>1, <3>2, ServesEnds
  <2>5. CASE stored # NoMnemonic
    <3> DEFINE state == [call[c] EXCEPT !.r = stored]
    <3>1. Ask(c, state, "key")
      BY <1>3, <2>3, <2>5 DEF WalletRead
    <3>2. /\ state \in CallState /\ state.op = call[c].op /\ state.r = stored
          /\ state.overwrite = call[c].overwrite /\ state.cfg = call[c].cfg
      BY <1>1, <2>2 DEF CallState
    <3> HIDE DEF state
    <3>3. Waits(state.op, "key") /\ state.op \notin Savers \cup {"updateWalletStorage"}
      BY <2>3, <3>2 DEF Waits, Savers
    <3>4. Agrees(Asked(state, "key"), stored, env.configs)
      BY <1>1, <2>5, <3>2, <3>3, AgreesAsked
    <3> QED BY <1>1, <2>1, <2>2, <3>1, <3>2, <3>4, ServesOn
  <2> QED BY <2>4, <2>5
<1>4. CASE WalletDerived(c)
  <2>1. /\ Replied(c, "key") /\ cachedWallet' = call[c].r
        /\ Finish(c, call[c].op, "returned", call[c].r)
    BY <1>4 DEF WalletDerived, Accepted, Return
  <2>2. /\ call[c] \in CallState /\ call[c].pc = "key" /\ env' = env /\ call[c].op \in Operations
        /\ Agrees(call[c], stored, env.configs) /\ ~Confirmed(call[c])
    BY <1>1, <2>1, Continued
  <2>3. call[c].r = stored /\ EndsRight(call[c], "returned", stored, stored)
    BY <2>2 DEF Agrees, Waits, EndsRight
  <2> QED BY <1>1, <2>1, <2>2, <2>3, ServesEnds
<1>5. CASE WalletDeleted(c)
  <2>1. /\ Replied(c, "delete") /\ cachedWallet' = NoMnemonic /\ ~Rejected(c)
        /\ Finish(c, call[c].op, "returned", NoMnemonic)
    BY <1>5 DEF WalletDeleted, Accepted, Return
  <2>2. /\ call[c] \in CallState /\ call[c].pc = "delete" /\ env' = env /\ call[c].op \in Operations
        /\ Agrees(call[c], stored, env.configs) /\ Confirmed(call[c])
    BY <1>1, <2>1, Continued DEF Rejected
  <2>3. EndsRight(call[c], "returned", NoMnemonic, stored)
    BY <2>2 DEF Agrees, EndsRight
  <2> QED BY <1>1, <2>1, <2>2, <2>3, ServesEnds
<1>6. CASE AnswerPassedOn(c)
  <2>1. PICK pc \in {"phrase", "eligible"} : Replied(c, pc)
    BY <1>6 DEF AnswerPassedOn, Accepted
  <2>2. /\ cachedWallet' = cachedWallet
        /\ Finish(c, call[c].op, "returned", call[c].val)
    BY <1>6 DEF AnswerPassedOn, Return
  <2>3. /\ call[c] \in CallState /\ call[c].pc = pc /\ call[c].at = "reply" /\ env' = env
        /\ Agrees(call[c], stored, env.configs) /\ ~Confirmed(call[c])
        /\ cachedWallet \in {NoMnemonic, stored} /\ call[c].op \in Operations
    BY <1>1, <2>1, Continued
  <2>4. CASE pc = "phrase"
    <3>1. call[c].val = stored /\ EndsRight(call[c], "returned", stored, stored)
      BY <2>3, <2>4 DEF Agrees, Reading, Waits, EndsRight
    <3> QED BY <1>1, <2>1, <2>2, <2>3, <3>1, ServesEnds
  <2>5. CASE pc = "eligible"
    <3>1. /\ call[c].val \in BOOLEAN /\ (call[c].val = TRUE => stored # NoMnemonic)
          /\ call[c].op = "walletEligibleForCloudSync"
      BY <2>3, <2>5 DEF Agrees, Waits
    <3>2. call[c].val \in Mnemonics \cup {NoMnemonic} \cup BOOLEAN
      BY <3>1
    <3>3. EndsRight(call[c], "returned", call[c].val, stored)
      BY <2>3, <3>1 DEF EndsRight
    <3> QED BY <1>1, <2>1, <2>2, <2>3, <3>2, <3>3, ServesEnds
  <2> QED BY <2>1, <2>4, <2>5
<1> QED BY <1>2, <1>3, <1>4, <1>5, <1>6

\* updateWalletStorage.
LEMMA UpdatingServes ==
  ASSUME NEW known, Dart(known), NEW c \in Calls, NEW stored \in Mnemonics \cup {NoMnemonic},
         Serving(c, stored), UpdateRead(c) \/ UpdateSaved(c) \/ CloudCopyDeleted(c)
  PROVE  Served(c, stored)
<1>1. /\ NoMnemonic \notin Mnemonics
      /\ {"updRead", "updSave", "updDelete"} \subseteq Points
      /\ {"returned", "threw"} \subseteq Finished
      /\ NoMnemonic \in Mnemonics \cup {NoMnemonic} \cup BOOLEAN
  BY PhrasesAssumption, PointsAre DEF Finished
<1>2. PICK pc \in {"updRead", "updSave", "updDelete"} : Replied(c, pc)
  BY DEF UpdateRead, UpdateSaved, CloudCopyDeleted, Accepted
<1>3. /\ call[c] \in CallState /\ call[c].pc = pc /\ call[c].at = "reply" /\ env' = env
      /\ Agrees(call[c], stored, env.configs) /\ ~Confirmed(call[c])
      /\ cachedWallet \in {NoMnemonic, stored} /\ CallOK(call[c], known) /\ call[c].op \in Operations
  BY <1>1, <1>2, Continued
<1>4. cachedWallet' = cachedWallet
  BY DEF UpdateRead, UpdateSaved, CloudCopyDeleted
<1>5. call[c].op = "updateWalletStorage" /\ call[c].cfg \in env.configs
  BY <1>2, <1>3 DEF Agrees, Waits, Savers
<1>6. CASE UpdateRead(c)
  <2>1. call[c].pc = "updRead" /\ pc = "updRead"
    BY <1>3, <1>6 DEF UpdateRead, Accepted, Replied
  <2>2. call[c].val = stored
    BY <1>3, <2>1 DEF Agrees, Reading
  <2>3. CASE stored = NoMnemonic
    <3>1. Finish(c, call[c].op, "threw", NoMnemonic)
      BY <1>6, <2>2, <2>3 DEF UpdateRead, Throw
    <3>2. EndsRight(call[c], "threw", NoMnemonic, stored)
      BY <1>3, <1>5 DEF EndsRight
    <3> QED BY <1>1, <1>2, <1>3, <1>4, <3>1, <3>2, ServesEnds
  <2>4. CASE stored # NoMnemonic
    <3> DEFINE state == [call[c] EXCEPT !.m = stored]
    <3>1. Ask(c, state, "updSave")
      BY <1>6, <2>2, <2>4 DEF UpdateRead
    <3>2. /\ state \in CallState /\ state.op = call[c].op /\ state.m = stored
          /\ state.overwrite = call[c].overwrite /\ state.cfg = call[c].cfg
      BY <1>1, <1>3 DEF CallState
    <3> HIDE DEF state
    <3>3. Waits(state.op, "updSave")
      BY <1>5, <3>2 DEF Waits
    <3>4. Agrees(Asked(state, "updSave"), stored, env.configs)
      BY <1>1, <1>5, <3>2, <3>3, AgreesAsked
    <3> QED BY <1>1, <1>3, <1>4, <3>1, <3>2, <3>4, ServesOn
  <2> QED BY <2>3, <2>4
<1>7. CASE UpdateSaved(c)
  <2>1. call[c].pc = "updSave" /\ pc = "updSave"
    BY <1>3, <1>7 DEF UpdateSaved, Accepted, Replied
  <2>2. call[c].m = stored /\ stored # NoMnemonic
    BY <1>1, <1>3, <2>1 DEF Agrees, CallOK, Carrying
  <2>3. CASE call[c].cfg.saveToCloud
    <3>1. Finish(c, call[c].op, "returned", NoMnemonic)
      BY <1>7, <2>3 DEF UpdateSaved, Return
    <3>2. EndsRight(call[c], "returned", NoMnemonic, stored)
      BY <1>3, <1>5, <2>2 DEF EndsRight
    <3> QED BY <1>1, <1>2, <1>3, <1>4, <3>1, <3>2, ServesEnds
  <2>4. CASE ~call[c].cfg.saveToCloud
    <3>1. Ask(c, call[c], "updDelete")
      BY <1>7, <2>4 DEF UpdateSaved
    <3>2. Waits(call[c].op, "updDelete")
      BY <1>5 DEF Waits
    <3>3. Agrees(Asked(call[c], "updDelete"), stored, env.configs)
      BY <1>1, <1>3, <1>5, <2>2, <2>4, <3>2, AgreesAsked
    <3> QED BY <1>1, <1>3, <1>4, <3>1, <3>3, ServesOn
  <2> QED BY <2>3, <2>4
<1>8. CASE CloudCopyDeleted(c)
  <2>1. call[c].pc = "updDelete" /\ pc = "updDelete"
    BY <1>3, <1>8 DEF CloudCopyDeleted, Accepted, Replied
  <2>2. stored # NoMnemonic
    BY <1>3, <2>1 DEF Agrees
  <2>3. Finish(c, call[c].op, "returned", NoMnemonic)
    BY <1>8 DEF CloudCopyDeleted, Return
  <2>4. EndsRight(call[c], "returned", NoMnemonic, stored)
    BY <1>3, <1>5, <2>2 DEF EndsRight
  <2> QED BY <1>1, <1>2, <1>3, <1>4, <2>3, <2>4, ServesEnds
<1> QED BY <1>6, <1>7, <1>8

\* Whatever the Dart half does in a step, the contract allows while the wallet stays.
LEMMA DartServes ==
  ASSUME NEW known, Dart(known), env.serial, NEW c \in Calls,
         NEW stored \in Mnemonics \cup {NoMnemonic}, Serving(c, stored),
         AppCalls(c) \/ Continuations(c)
  PROVE  Served(c, stored)
BY AppCallsServe, ThrowServes, BeforeSavingServes, ReadAndReturnedServe, UpdatingServes
   DEF Continuations

=============================================================================
