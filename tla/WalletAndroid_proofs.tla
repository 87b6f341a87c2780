------------------------ MODULE WalletAndroid_proofs ------------------------
(***************************************************************************)
(* Proofs about WalletAndroid, for any calls, phrases, environments and    *)
(* bound on the Block Store calls under way: its type invariant; that a    *)
(* cached wallet was stored durably (where commit() does not fail); that   *)
(* moves never lose the wallet, never change it and leave no cloud copy;   *)
(* that a create or import told to reject returns a wallet that Block      *)
(* Store has; that the cached wallet is the stored one; and that the SDK   *)
(* implements WalletContract where one location is in use.                 *)
(*                                                                         *)
(* None is inductive.  A phrase is handed from the stores to a task, to a  *)
(* reply, to the state of a call and to the cache, so the invariant        *)
(* follows it all the way; and a call's state can be trusted to be what    *)
(* its task was made for only because each call is in one place at a time: *)
(* in one queue once, or waited for by one task.  What the Dart half keeps *)
(* true is in WalletManager_proofs; here are the tasks and the stores.     *)
(***************************************************************************)
EXTENDS WalletAndroid, WalletManager_proofs

\* The phrases a call may be trusted to have stored: those that were, unless
\* commit() may have failed unnoticed.
Trusted == IF "commit" \in env.faults THEN Mnemonics ELSE everStored

CallsOK == \A c \in Calls : CallOK(call[c], Trusted)

\* What a Block Store call says.
TaskOK(task, known) ==
  /\ task.kind = "retrieve" /\ task.live => task.call \in Calls
  /\ task.kind = "retrieve" /\ task.st = "ok" => task.m \in known \cup {NoMnemonic}
  /\ task.kind = "store" => task.m \in Mnemonics
  /\ task.kind = "store" /\ task.st = "ok" => task.m \in known
  /\ task.kind = "delete" => task.call = NoCall /\ task.m = NoMnemonic

\* What it says of the call that waits for it.
WaitedFor(task, s) ==
  /\ s.at = "platform"
  /\ task.kind = "retrieve" => s.pc \in Reading \cup {"eligible"}
  /\ task.kind = "store" => s.pc \in {"save", "updSave"} /\ task.m = s.m

TasksOK(list, state, known) ==
  /\ \A i \in 1..Len(list) :
       /\ TaskOK(list[i], known)
       /\ list[i].call \in Calls => WaitedFor(list[i], state[list[i].call])
  /\ \A i, j \in 1..Len(list) :
       list[i].call \in Calls /\ list[i].call = list[j].call => i = j

StoresOK ==
  /\ cachedWallet \in Trusted \cup {NoMnemonic}
  /\ cloud \in Trusted \cup {NoMnemonic}
  /\ prefs \in Trusted \cup {NoMnemonic, Garbage}
  /\ disk \in Trusted \cup {NoMnemonic, Garbage}

IInv ==
  /\ TypeOK
  /\ CallsOK
  /\ QueueOK(channel, "channel", call)
  /\ QueueOK(replies, "reply", call)
  /\ TasksOK(tasks, call, Trusted)
  /\ StoresOK

-----------------------------------------------------------------------------
(* Sequences.                                                              *)

\* What RemoveAt, by which a task leaves the list, returns.
LEMMA RemoveAtIs ==
  ASSUME NEW S, NEW s \in Seq(S), NEW i \in 1..Len(s)
  PROVE  /\ RemoveAt(s, i) \in Seq(S)
         /\ Len(RemoveAt(s, i)) = Len(s) - 1
         /\ \A j \in 1..(Len(s) - 1) :
              RemoveAt(s, i)[j] = IF j < i THEN s[j] ELSE s[j + 1]
<1> DEFINE front == SubSeq(s, 1, i - 1)
           back == SubSeq(s, i + 1, Len(s))
<1>1. /\ Len(s) \in Nat /\ i \in Nat /\ i >= 1 /\ i <= Len(s)
      /\ \A j \in 1..Len(s) : s[j] \in S
  BY ElementOfSeq, LenProperties
<1>2. /\ front \in Seq(S) /\ Len(front) = i - 1
      /\ \A j \in 1..(i - 1) : front[j] = s[j]
  BY <1>1, SubSeqProperties
<1>3. /\ back \in Seq(S) /\ Len(back) = Len(s) - i
      /\ \A j \in 1..(Len(s) - i) : back[j] = s[i + j]
  BY <1>1, SubSeqProperties
<1>4. RemoveAt(s, i) = front \o back
  BY DEF RemoveAt
<1>5. /\ front \o back \in Seq(S)
      /\ Len(front \o back) = Len(s) - 1
      /\ \A j \in 1..(Len(s) - 1) :
           (front \o back)[j] = IF j < i THEN front[j] ELSE back[j - (i - 1)]
  <2> HIDE DEF front, back
  <2>1. /\ front \o back \in Seq(S)
        /\ Len(front \o back) = Len(front) + Len(back)
        /\ \A j \in 1..(Len(front) + Len(back)) :
             (front \o back)[j] = IF j <= Len(front) THEN front[j] ELSE back[j - Len(front)]
    BY <1>2, <1>3, ConcatProperties
  <2> QED BY <2>1, <1>1, <1>2, <1>3
<1> HIDE DEF front, back
<1>6. ASSUME NEW j \in 1..(Len(s) - 1)
      PROVE  (front \o back)[j] = IF j < i THEN s[j] ELSE s[j + 1]
  <2>1. CASE j < i
    BY <2>1, <1>1, <1>2, <1>5
  <2>2. CASE ~(j < i)
    <3>1. j - (i - 1) \in 1..(Len(s) - i) /\ i + (j - (i - 1)) = j + 1
      BY <2>2, <1>1
    <3> QED BY <3>1, <2>2, <1>3, <1>5
  <2> QED BY <2>1, <2>2
<1> QED BY <1>4, <1>5, <1>6

\* A function on 1..n is a sequence.
LEMMA FunctionIsSeq ==
  ASSUME NEW S, NEW n \in Nat, NEW f \in [1..n -> S]
  PROVE  f \in Seq(S) /\ Len(f) = n
<1>1. f \in Seq(S)
  BY SeqDef
<1>2. Len(f) \in Nat /\ 1..Len(f) = 1..n
  BY <1>1, LenProperties
<1> QED BY <1>1, <1>2

-----------------------------------------------------------------------------
(* Tasks and calls.                                                        *)

\* More phrases stored: what is said of a call or a task stays true.
LEMMA KnownGrows ==
  ASSUME NEW known, NEW more, known \subseteq more
  PROVE  /\ \A s \in CallState : CallOK(s, known) => CallOK(s, more)
         /\ \A t \in Task : TaskOK(t, known) => TaskOK(t, more)
BY DEF CallOK, TaskOK

\* A step of a call no task waits for.
LEMMA TasksKept ==
  ASSUME NEW f \in [Calls -> CallState], NEW list \in Seq(Task), NEW known, NEW more,
         TasksOK(list, f, known), known \subseteq more,
         NEW c \in Calls, f[c].at # "platform", NEW s \in CallState
  PROVE  TasksOK(list, [f EXCEPT ![c] = s], more)
<1>1. \A i \in 1..Len(list) : list[i] \in Task
  BY ElementOfSeq
<1>2. \A i \in 1..Len(list) : list[i].call \in Calls => list[i].call # c
  BY <1>1 DEF TasksOK, WaitedFor
<1>3. \A i \in 1..Len(list) : TaskOK(list[i], more)
  BY <1>1, KnownGrows DEF TasksOK
<1> QED BY <1>1, <1>2, <1>3 DEF TasksOK

\* A task is submitted, that c waits for or that nobody waits for.
LEMMA TaskSubmitted ==
  ASSUME NEW f \in [Calls -> CallState], NEW list \in Seq(Task), NEW known, NEW more,
         TasksOK(list, f, known), known \subseteq more,
         NEW c \in Calls, f[c].at # "platform", NEW s \in CallState,
         NEW t \in Task, TaskOK(t, more),
         \/ t.call = NoCall
         \/ t.call = c /\ WaitedFor(t, s)
  PROVE  /\ Append(list, t) \in Seq(Task)
         /\ TasksOK(Append(list, t), [f EXCEPT ![c] = s], more)
<1> DEFINE g == [f EXCEPT ![c] = s]
           longer == Append(list, t)
<1>1. \A i \in 1..Len(list) : list[i] \in Task
  BY ElementOfSeq
<1>2. \A i \in 1..Len(list) : list[i].call \in Calls => list[i].call # c
  BY <1>1 DEF TasksOK, WaitedFor
<1>3. /\ longer \in Seq(Task)
      /\ Len(longer) = Len(list) + 1
      /\ \A i \in 1..Len(list) : longer[i] = list[i]
      /\ longer[Len(list) + 1] = t
      /\ Len(list) \in Nat
  BY AppendProperties, LenProperties
<1>4. \A i \in 1..Len(longer) : i \in 1..Len(list) \/ i = Len(list) + 1
  BY <1>3
<1>5. TasksOK(list, g, more)
  BY TasksKept
<1>6. NoCall \notin Calls
  BY PlatformAssumption
<1> HIDE DEF longer
<1>7. ASSUME NEW i \in 1..Len(longer)
      PROVE  /\ TaskOK(longer[i], more)
             /\ longer[i].call \in Calls => WaitedFor(longer[i], g[longer[i].call])
  <2>1. CASE i \in 1..Len(list)
    BY <2>1, <1>3, <1>5 DEF TasksOK
  <2>2. CASE i = Len(list) + 1
    BY <2>2, <1>3, <1>6
  <2> QED BY <2>1, <2>2, <1>4
<1>8. ASSUME NEW i \in 1..Len(longer), NEW j \in 1..Len(longer),
             longer[i].call \in Calls, longer[i].call = longer[j].call
      PROVE  i = j
  BY <1>2, <1>3, <1>4, <1>5, <1>6, <1>8 DEF TasksOK
<1> QED BY <1>3, <1>7, <1>8 DEF TasksOK, longer

\* A task leaves the list, and the call that waited for it, if any, goes on.
LEMMA TaskLeaves ==
  ASSUME NEW f \in [Calls -> CallState], NEW list \in Seq(Task), NEW known, NEW more,
         TasksOK(list, f, known), known \subseteq more, NEW i \in 1..Len(list),
         NEW g \in [Calls -> CallState],
         \A c \in Calls : c # list[i].call => g[c] = f[c]
  PROVE  /\ RemoveAt(list, i) \in Seq(Task)
         /\ TasksOK(RemoveAt(list, i), g, more)
<1> DEFINE less == RemoveAt(list, i)
           old(j) == IF j < i THEN j ELSE j + 1
<1>1. /\ less \in Seq(Task)
      /\ Len(less) = Len(list) - 1
      /\ \A j \in 1..(Len(list) - 1) : less[j] = IF j < i THEN list[j] ELSE list[j + 1]
      /\ Len(list) \in Nat
  BY RemoveAtIs, LenProperties
<1>2. \A j \in 1..Len(list) : list[j] \in Task
  BY ElementOfSeq
<1> HIDE DEF less
<1>3. ASSUME NEW j \in 1..Len(less)
      PROVE  old(j) \in 1..Len(list) /\ old(j) # i /\ less[j] = list[old(j)]
  BY <1>1
<1>4. ASSUME NEW j \in 1..Len(less), NEW k \in 1..Len(less), old(j) = old(k)
      PROVE  j = k
  BY <1>1, <1>4
<1>5. ASSUME NEW j \in 1..Len(list), j # i, list[j].call \in Calls
      PROVE  list[j].call # list[i].call
  BY <1>5 DEF TasksOK
<1> HIDE DEF old
<1>6. ASSUME NEW j \in 1..Len(less)
      PROVE  /\ TaskOK(less[j], more)
             /\ less[j].call \in Calls => WaitedFor(less[j], g[less[j].call])
  <2>1. TaskOK(list[old(j)], known)
    BY <1>3 DEF TasksOK
  <2>2. TaskOK(list[old(j)], more)
    BY <2>1, <1>2, <1>3, KnownGrows
  <2>3. list[old(j)].call \in Calls => g[list[old(j)].call] = f[list[old(j)].call]
    BY <1>3, <1>5
  <2> QED BY <2>2, <2>3, <1>3 DEF TasksOK
<1>7. ASSUME NEW j \in 1..Len(less), NEW k \in 1..Len(less),
             less[j].call \in Calls, less[j].call = less[k].call
      PROVE  j = k
  <2>1. old(j) = old(k)
    BY <1>3, <1>7 DEF TasksOK
  <2> QED BY <2>1, <1>4
<1> QED BY <1>1, <1>6, <1>7 DEF TasksOK, less

\* A task that waits goes on: its kind and its call stay.
LEMMA TaskChanges ==
  ASSUME NEW f \in [Calls -> CallState], NEW list \in Seq(Task), NEW known, NEW more,
         TasksOK(list, f, known), known \subseteq more, NEW i \in 1..Len(list),
         NEW t \in Task, TaskOK(t, more), t.kind = list[i].kind, t.call = list[i].call,
         t.kind = "store" => t.m = list[i].m
  PROVE  /\ [list EXCEPT ![i] = t] \in Seq(Task)
         /\ TasksOK([list EXCEPT ![i] = t], f, more)
<1> DEFINE new == [list EXCEPT ![i] = t]
<1>1. /\ new \in Seq(Task) /\ Len(new) = Len(list)
      /\ \A j \in 1..Len(list) : new[j] = IF j = i THEN t ELSE list[j]
  BY ExceptSeq
<1>2. \A j \in 1..Len(list) : list[j] \in Task
  BY ElementOfSeq
<1> HIDE DEF new
<1>3. ASSUME NEW j \in 1..Len(list)
      PROVE  /\ TaskOK(new[j], more)
             /\ new[j].call \in Calls => WaitedFor(new[j], f[new[j].call])
  <2>1. CASE j = i
    BY <2>1, <1>1 DEF TasksOK, WaitedFor
  <2>2. CASE j # i
    BY <2>2, <1>1, <1>2, KnownGrows DEF TasksOK
  <2> QED BY <2>1, <2>2
<1>4. ASSUME NEW j \in 1..Len(list), NEW k \in 1..Len(list),
             new[j].call \in Calls, new[j].call = new[k].call
      PROVE  j = k
  BY <1>1, <1>4 DEF TasksOK
<1> QED BY <1>1, <1>3, <1>4 DEF TasksOK, new

-----------------------------------------------------------------------------
(* Steps of the Dart methods.                                              *)

\* A step that leaves the phrases stored and the environment as they are.
LEMMA TrustedKept ==
  ASSUME UNCHANGED <<env, everStored>>
  PROVE  Trusted' = Trusted
BY DEF Trusted

\* The phrases trusted are phrases.
LEMMA TrustedType ==
  ASSUME TypeOK
  PROVE  Trusted \subseteq Mnemonics
BY DEF Trusted, TypeOK

\* What the lemmas about the Dart half speak of.
LEMMA DartIs ==
  ASSUME IInv
  PROVE  Dart(Trusted)
BY TrustedType DEF IInv, TypeOK, DartTypeOK, CallsOK, StoresOK, Dart, DartOK

\* A step of Dart does not touch the platform.
LEMMA DartMoves ==
  ASSUME IInv, NEW c \in Calls, AppCalls(c) \/ Continuations(c), UNCHANGED androidVars
  PROVE  IInv'
<1>1. Moves(Trusted, c)
  BY DartIs, AppCallsStep, ContinuationsStep
<1>2. Trusted' = Trusted /\ tasks' = tasks
  BY <1>1, TrustedKept DEF Moves, androidVars
<1>3. DartOK(Trusted', call', channel', replies', cachedWallet')
  BY <1>1, <1>2 DEF Moves
<1>4. PICK s \in CallState : call' = [call EXCEPT ![c] = s]
  BY <1>1 DEF Moves
<1>5. /\ call \in [Calls -> CallState] /\ tasks \in Seq(Task)
      /\ TasksOK(tasks, call, Trusted) /\ call[c].at # "platform"
  BY <1>1 DEF IInv, TypeOK, DartTypeOK, Moves
<1>6. TasksOK(tasks', call', Trusted')
  BY <1>2, <1>4, <1>5, TasksKept
<1>7. CallsOK' /\ QueueOK(channel', "channel", call') /\ QueueOK(replies', "reply", call')
  BY <1>3 DEF CallsOK, DartOK
<1>8. TypeOK' /\ StoresOK'
  BY <1>1, <1>2, <1>3, TrustedType
     DEF IInv, TypeOK, DartTypeOK, StoresOK, DartOK, Moves, androidVars
<1> QED BY <1>6, <1>7, <1>8 DEF IInv

-----------------------------------------------------------------------------
(* Steps of the platform.                                                  *)

\* What is stored changes as it should, and only more phrases are known.
StoresChange ==
  /\ env' = env
  /\ cachedWallet' = cachedWallet
  /\ fresh' \subseteq Generated
  /\ everStored \subseteq everStored'
  /\ everStored' \subseteq Mnemonics
  /\ cloud' \in Trusted' \cup {NoMnemonic}
  /\ prefs' \in Trusted' \cup {NoMnemonic, Garbage}
  /\ disk' \in Trusted' \cup {NoMnemonic, Garbage}
  /\ e2ee' \in BOOLEAN

\* Then the rest of the invariant is about the calls, their queues and tasks.
LEMMA PlatformStep ==
  ASSUME IInv, StoresChange,
         call' \in [Calls -> CallState],
         \A c \in Calls : CallOK(call'[c], Trusted'),
         channel' \in Seq(Calls), QueueOK(channel', "channel", call'),
         replies' \in Seq(Calls), QueueOK(replies', "reply", call'),
         tasks' \in Seq(Task), TasksOK(tasks', call', Trusted')
  PROVE  IInv'
<1>1. /\ Trusted \subseteq Trusted'
      /\ Trusted' \subseteq Mnemonics
  BY TrustedType DEF StoresChange, Trusted, IInv
<1>2. StoresOK' /\ TypeOK'
  BY <1>1 DEF StoresChange, StoresOK, IInv, TypeOK, DartTypeOK
<1>3. CallsOK'
  BY DEF CallsOK
<1> QED BY <1>2, <1>3 DEF IInv

\* What was trusted stays so while more is stored.
LEMMA TrustedGrows ==
  ASSUME IInv, StoresChange
  PROVE  /\ Trusted \subseteq Trusted'
         /\ \A c \in Calls : CallOK(call[c], Trusted')
<1>1. Trusted \subseteq Trusted'
  BY TrustedType DEF StoresChange, Trusted, IInv
<1>2. \A c \in Calls : call[c] \in CallState /\ CallOK(call[c], Trusted)
  BY DEF IInv, TypeOK, DartTypeOK, CallsOK
<1> QED BY <1>1, <1>2, KnownGrows

\* The call whose request is at the head of the channel.
LEMMA RequestKnown ==
  ASSUME IInv, NEW c \in Calls, NEW method, Requested(c, method)
  PROVE  /\ call[c] \in CallState /\ call[c].at = "channel"
         /\ call[c].pc \in Points /\ Awaited[call[c].pc] = method
         /\ CallOK(call[c], Trusted)
         /\ env' = env
BY DartIs, RequestIs

\* A handler replies, and may submit a task nobody waits for.
LEMMA HandlerReplies ==
  ASSUME IInv, NEW c \in Calls, NEW method, Requested(c, method),
         NEW ok \in BOOLEAN, NEW val \in Mnemonics \cup {NoMnemonic} \cup BOOLEAN,
         Reply(c, ok, val), StoresChange,
         CallOK(Answered(call[c], ok, val), Trusted'),
         \/ tasks' = tasks
         \/ \E t \in Task : t.call = NoCall /\ TaskOK(t, Trusted') /\ tasks' = Append(tasks, t)
  PROVE  IInv'
<1> DEFINE s == Answered(call[c], ok, val)
<1>1. /\ call \in [Calls -> CallState] /\ channel \in Seq(Calls) /\ replies \in Seq(Calls)
      /\ tasks \in Seq(Task)
      /\ QueueOK(channel, "channel", call) /\ QueueOK(replies, "reply", call)
      /\ TasksOK(tasks, call, Trusted)
  BY DEF IInv, TypeOK, DartTypeOK
<1>2. call[c].at = "channel" /\ call[c] \in CallState
  BY RequestKnown
<1>3. s \in CallState /\ s.at = "reply"
  BY <1>2, AnsweredType
<1>4. call' = [call EXCEPT ![c] = s] /\ replies' = Append(replies, c)
  BY ReplySends
<1> HIDE DEF s
<1>5. /\ channel' \in Seq(Calls) /\ QueueOK(channel', "channel", call')
  BY <1>1, <1>3, <1>4, QueuePopped DEF Requested
<1>6. /\ replies' \in Seq(Calls) /\ QueueOK(replies', "reply", call')
  BY <1>1, <1>2, <1>3, <1>4, QueuePushed
<1>7. Trusted \subseteq Trusted' /\ \A d \in Calls : CallOK(call[d], Trusted')
  BY TrustedGrows
<1>8. tasks' \in Seq(Task) /\ TasksOK(tasks', call', Trusted')
  <2>1. CASE tasks' = tasks
    BY <2>1, <1>1, <1>2, <1>3, <1>4, <1>7, TasksKept
  <2>2. CASE \E t \in Task : t.call = NoCall /\ TaskOK(t, Trusted') /\ tasks' = Append(tasks, t)
    <3>1. PICK t \in Task :
            t.call = NoCall /\ TaskOK(t, Trusted') /\ tasks' = Append(tasks, t)
      BY <2>2
    <3> QED BY <3>1, <1>1, <1>2, <1>3, <1>4, <1>7, TaskSubmitted
  <2> QED BY <2>1, <2>2
<1>9. /\ call' \in [Calls -> CallState]
      /\ \A d \in Calls : CallOK(call'[d], Trusted')
  BY <1>1, <1>3, <1>4, <1>7 DEF s
<1> QED BY <1>5, <1>6, <1>8, <1>9, PlatformStep

\* A handler keeps the request and submits the task that will answer it.
LEMMA HandlerHolds ==
  ASSUME IInv, NEW c \in Calls, NEW method, Requested(c, method), Hold(c),
         StoresChange, NEW t \in Task, t.call = c, TaskOK(t, Trusted'),
         WaitedFor(t, [call[c] EXCEPT !.at = "platform"]),
         tasks' = Append(tasks, t)
  PROVE  IInv'
<1> DEFINE s == [call[c] EXCEPT !.at = "platform"]
<1>1. /\ call \in [Calls -> CallState] /\ channel \in Seq(Calls) /\ replies \in Seq(Calls)
      /\ tasks \in Seq(Task)
      /\ QueueOK(channel, "channel", call) /\ QueueOK(replies, "reply", call)
      /\ TasksOK(tasks, call, Trusted)
  BY DEF IInv, TypeOK, DartTypeOK
<1>2. call[c].at = "channel" /\ call[c] \in CallState /\ call[c].pc \in Points
  BY RequestKnown
<1>3. s \in CallState /\ s.at = "platform"
  BY <1>2 DEF CallState
<1>4. call' = [call EXCEPT ![c] = s] /\ replies' = replies
  BY DEF Hold
<1>5. Trusted \subseteq Trusted' /\ \A d \in Calls : CallOK(call[d], Trusted')
  BY TrustedGrows
<1>6. CallOK(s, Trusted')
  BY <1>2, <1>5, PointsAre DEF CallOK, CallState, Finished
<1> HIDE DEF s
<1>7. /\ channel' \in Seq(Calls) /\ QueueOK(channel', "channel", call')
  BY <1>1, <1>3, <1>4, QueuePopped DEF Requested
<1>8. /\ replies' \in Seq(Calls) /\ QueueOK(replies', "reply", call')
  BY <1>1, <1>2, <1>3, <1>4, QueueKept
<1>9. tasks' \in Seq(Task) /\ TasksOK(tasks', call', Trusted')
  BY <1>1, <1>2, <1>3, <1>4, <1>5, TaskSubmitted DEF s
<1>10. /\ call' \in [Calls -> CallState]
       /\ \A d \in Calls : CallOK(call'[d], Trusted')
  BY <1>1, <1>3, <1>4, <1>5, <1>6
<1> QED BY <1>7, <1>8, <1>9, <1>10, PlatformStep

\* A listener replies to the call that waited for its task.
LEMMA ListenerReplies ==
  ASSUME IInv, NEW i \in 1..Len(tasks), NEW c \in Calls, tasks[i].call = c,
         tasks' = RemoveAt(tasks, i),
         NEW ok \in BOOLEAN, NEW val \in Mnemonics \cup {NoMnemonic} \cup BOOLEAN,
         Reply(c, ok, val), StoresChange, UNCHANGED channel,
         CallOK(Answered(call[c], ok, val), Trusted')
  PROVE  IInv'
<1> DEFINE s == Answered(call[c], ok, val)
<1>1. /\ call \in [Calls -> CallState] /\ channel \in Seq(Calls) /\ replies \in Seq(Calls)
      /\ tasks \in Seq(Task)
      /\ QueueOK(channel, "channel", call) /\ QueueOK(replies, "reply", call)
      /\ TasksOK(tasks, call, Trusted)
  BY DEF IInv, TypeOK, DartTypeOK
<1>2. call[c].at = "platform" /\ call[c] \in CallState
  BY <1>1 DEF TasksOK, WaitedFor
<1>3. s \in CallState /\ s.at = "reply"
  BY <1>2, AnsweredType
<1>4. call' = [call EXCEPT ![c] = s] /\ replies' = Append(replies, c)
  BY ReplySends
<1> HIDE DEF s
<1>5. /\ channel' \in Seq(Calls) /\ QueueOK(channel', "channel", call')
  BY <1>1, <1>2, <1>3, <1>4, QueueKept
<1>6. /\ replies' \in Seq(Calls) /\ QueueOK(replies', "reply", call')
  BY <1>1, <1>2, <1>3, <1>4, QueuePushed
<1>7. Trusted \subseteq Trusted' /\ \A d \in Calls : CallOK(call[d], Trusted')
  BY TrustedGrows
<1>8. /\ call' \in [Calls -> CallState]
      /\ \A d \in Calls : CallOK(call'[d], Trusted')
      /\ \A d \in Calls : d # c => call'[d] = call[d]
  BY <1>1, <1>3, <1>4, <1>7 DEF s
<1>9. tasks' \in Seq(Task) /\ TasksOK(tasks', call', Trusted')
  BY <1>1, <1>7, <1>8, TaskLeaves
<1> QED BY <1>5, <1>6, <1>8, <1>9, PlatformStep

\* A step of the tasks and stores that no call sees.
LEMMA UnseenStep ==
  ASSUME IInv, StoresChange, UNCHANGED <<call, channel, replies>>,
         tasks' \in Seq(Task), TasksOK(tasks', call, Trusted')
  PROVE  IInv'
<1>1. \A d \in Calls : CallOK(call[d], Trusted')
  BY TrustedGrows
<1> QED BY <1>1, PlatformStep DEF IInv, TypeOK, DartTypeOK

\* The stores change as they should when a phrase is written to the preferences.
LEMMA PrefsWritten ==
  ASSUME IInv, NEW m \in Mnemonics, saveToSharedPref(m),
         UNCHANGED <<env, cachedWallet, fresh, cloud, e2ee>>
  PROVE  StoresChange /\ m \in Trusted'
<1>1. /\ prefs' = m /\ disk' \in {m, disk}
      /\ everStored' = everStored \cup ({disk'} \cap Mnemonics)
      /\ "commit" \notin env.faults => disk' = m
  BY DEF saveToSharedPref, Commit
<1>2. TypeOK /\ StoresOK /\ fresh \subseteq Generated /\ everStored \subseteq Mnemonics
      /\ e2ee \in BOOLEAN
  BY DEF IInv, TypeOK, DartTypeOK
<1>3. Trusted \subseteq Trusted' /\ m \in Trusted'
  BY <1>1, <1>2 DEF Trusted
<1> QED BY <1>1, <1>2, <1>3 DEF StoresChange, StoresOK

\* The same when they are cleared.
LEMMA PrefsCleared ==
  ASSUME IInv, Commit(NoMnemonic), UNCHANGED <<env, cachedWallet, fresh, cloud, e2ee, everStored>>
  PROVE  StoresChange
<1>1. prefs' = NoMnemonic /\ disk' \in {NoMnemonic, disk}
  BY DEF Commit
<1>2. TypeOK /\ StoresOK /\ fresh \subseteq Generated /\ everStored \subseteq Mnemonics
      /\ e2ee \in BOOLEAN
  BY DEF IInv, TypeOK, DartTypeOK
<1>3. Trusted' = Trusted
  BY TrustedKept
<1> QED BY <1>1, <1>2, <1>3 DEF StoresChange, StoresOK

\* The same when they are left alone.
LEMMA StoresKept ==
  ASSUME IInv, fresh' \subseteq Generated, e2ee' \in BOOLEAN,
         UNCHANGED <<env, cachedWallet, cloud, prefs, disk, everStored>>
  PROVE  StoresChange
BY TrustedKept DEF StoresChange, IInv, TypeOK, DartTypeOK, StoresOK

-----------------------------------------------------------------------------
(* The handlers and listeners of the plugin.                               *)

\* A task that has just been made.
LEMMA NewTaskType ==
  ASSUME NEW kind \in {"retrieve", "store", "delete"}, NEW c \in Calls \cup {NoCall},
         NEW m \in Mnemonics \cup {NoMnemonic}, NEW force \in BOOLEAN
  PROVE  /\ NewTask(kind, c, m, force) \in Task
         /\ NewTask(kind, c, m, force).kind = kind
         /\ NewTask(kind, c, m, force).call = c
         /\ NewTask(kind, c, m, force).m = m
         /\ NewTask(kind, c, m, force).st = "pending"
BY DEF NewTask, Task

\* A handler preserves the invariant.
LEMMA HandlersStep ==
  ASSUME IInv, NEW c \in Calls, Handlers(c)
  PROVE  IInv'
<1>1. /\ TypeOK /\ Trusted \subseteq Mnemonics /\ NoMnemonic \notin Mnemonics
      /\ fresh \subseteq Generated /\ Generated \subseteq Mnemonics /\ e2ee \in BOOLEAN
      /\ NoCall \notin Calls
  BY TrustedType, PhrasesAssumption, PlatformAssumption DEF IInv, TypeOK, DartTypeOK, Mnemonics
<1>2. CASE GenerateNewMnemonic(c)
  <2>1. PICK m \in fresh : Draw(c, m)
    BY <1>2 DEF GenerateNewMnemonic
  <2>2. /\ call[c] \in CallState /\ call[c].pc = "generate" /\ env' = env
    BY <1>2, RequestKnown, AwaitedIs DEF GenerateNewMnemonic
  <2>3. Reply(c, TRUE, m) /\ fresh' \subseteq Generated /\ m \in Mnemonics
    BY <1>1, <2>1 DEF Draw
  <2>4. StoresChange
    BY <1>1, <1>2, <2>2, <2>3, StoresKept DEF GenerateNewMnemonic, androidVars
  <2>5. CallOK(Answered(call[c], TRUE, m), Trusted')
    BY <2>2, <2>3, <2>4, TrustedGrows, PointsAre, AnsweredOK DEF Reading
  <2> QED
    BY <1>2, <2>3, <2>4, <2>5, HandlerReplies DEF GenerateNewMnemonic, androidVars
<1>3. CASE GetPrivateKeyFromMnemonic(c)
  <2>1. /\ call[c] \in CallState /\ call[c].pc \in {"checkKey", "key", "makeKey"}
        /\ env' = env
    BY <1>3, RequestKnown, AwaitedIs DEF GetPrivateKeyFromMnemonic
  <2>2. StoresChange
    BY <1>1, <1>3, <2>1, StoresKept DEF GetPrivateKeyFromMnemonic, androidVars
  <2>3. CallOK(call[c], Trusted')
    BY <2>2, TrustedGrows
  <2> DEFINE ok == KeyPhrase(c) \notin Invalid
  <2>4. ok \in BOOLEAN /\ Reply(c, ok, NoMnemonic)
    BY <1>3 DEF GetPrivateKeyFromMnemonic
  <2> HIDE DEF ok
  <2>5. CallOK(Answered(call[c], ok, NoMnemonic), Trusted')
    BY <2>1, <2>3, <2>4, PointsAre, AnsweredOK DEF Reading
  <2> QED
    BY <1>3, <2>2, <2>4, <2>5, HandlerReplies DEF GetPrivateKeyFromMnemonic, androidVars
<1>4. CASE ReadMnemonic(c)
  <2>1. PICK method \in {"getMnemonic", "mnemonicBackedUpToCloud"} : Requested(c, method)
    BY <1>4 DEF ReadMnemonic
  <2>2. /\ call[c] \in CallState /\ call[c].pc \in Reading \cup {"eligible"} /\ env' = env
    BY <2>1, RequestKnown, AwaitedIs
  <2>3. StoresChange
    BY <1>1, <1>4, <2>2, StoresKept DEF ReadMnemonic
  <2> DEFINE t == NewTask("retrieve", c, NoMnemonic, FALSE)
  <2>4. /\ t \in Task /\ t.kind = "retrieve" /\ t.call = c /\ t.st = "pending"
    BY DEF NewTask, Task
  <2>5. Hold(c) /\ tasks' = Append(tasks, t)
    BY <1>4 DEF ReadMnemonic, Submit
  <2> HIDE DEF t
  <2>6. TaskOK(t, Trusted')
    BY <2>4 DEF TaskOK
  <2>7. WaitedFor(t, [call[c] EXCEPT !.at = "platform"])
    BY <2>2, <2>4 DEF WaitedFor, CallState
  <2> QED BY <2>1, <2>3, <2>4, <2>5, <2>6, <2>7, HandlerHolds
<1>5. ASSUME Requested(c, "saveMnemonic")
      PROVE  /\ call[c] \in CallState /\ call[c].pc \in {"save", "updSave"} /\ env' = env
             /\ call[c].m \in Mnemonics
             /\ call[c].cfg.rejectOnCloudSaveFailure \in BOOLEAN
  BY <1>5, RequestKnown, AwaitedIs DEF CallOK, Carrying, CallState, StorageConfig
<1>6. CASE SaveToCloud(c)
  <2>1. /\ call[c] \in CallState /\ call[c].pc \in {"save", "updSave"} /\ env' = env
        /\ call[c].m \in Mnemonics
        /\ call[c].cfg.rejectOnCloudSaveFailure \in BOOLEAN
    BY <1>5, <1>6 DEF SaveToCloud
  <2>2. StoresChange
    BY <1>1, <1>6, <2>1, StoresKept DEF SaveToCloud
  <2> DEFINE t(d) == NewTask("store", d, call[c].m, call[c].cfg.rejectOnCloudSaveFailure)
  <2>3. ASSUME NEW d \in Calls \cup {NoCall}
        PROVE  /\ t(d) \in Task /\ t(d).kind = "store" /\ t(d).call = d
               /\ t(d).m = call[c].m /\ t(d).st = "pending"
    BY <2>1, NewTaskType
  <2>4. CASE Valid(c)
    <3>1. Hold(c) /\ tasks' = Append(tasks, t(c)) /\ Requested(c, "saveMnemonic")
      BY <1>6, <2>4 DEF SaveToCloud, Submit
    <3> HIDE DEF t
    <3>2. TaskOK(t(c), Trusted') /\ WaitedFor(t(c), [call[c] EXCEPT !.at = "platform"])
      BY <2>1, <2>3 DEF TaskOK, WaitedFor, CallState
    <3> QED BY <2>2, <2>3, <3>1, <3>2, HandlerHolds
  <2>5. CASE ~Valid(c)
    <3>1. /\ Reply(c, FALSE, NoMnemonic) /\ tasks' = Append(tasks, t(NoCall))
          /\ Requested(c, "saveMnemonic")
      BY <1>6, <2>5 DEF SaveToCloud, Submit
    <3> HIDE DEF t
    <3>2. TaskOK(t(NoCall), Trusted')
      BY <2>1, <2>3 DEF TaskOK
    <3>3. CallOK(Answered(call[c], FALSE, NoMnemonic), Trusted')
      BY <2>1, <2>2, TrustedGrows, PointsAre, AnsweredOK DEF Reading
    <3> QED BY <2>2, <2>3, <3>1, <3>2, <3>3, HandlerReplies
  <2> QED BY <2>4, <2>5
<1>7. CASE SaveToDevice(c)
  <2>1. /\ call[c] \in CallState /\ call[c].pc \in {"save", "updSave"} /\ env' = env
        /\ call[c].m \in Mnemonics /\ Requested(c, "saveMnemonic")
    BY <1>5, <1>7 DEF SaveToDevice
  <2>2. CASE call[c].cfg.rejectOnCloudSaveFailure
    <3>1. StoresChange
      BY <1>1, <1>7, <2>1, <2>2, StoresKept DEF SaveToDevice
    <3>2. CallOK(Answered(call[c], FALSE, NoMnemonic), Trusted')
      BY <2>1, <3>1, TrustedGrows, PointsAre, AnsweredOK DEF Reading
    <3> QED BY <1>7, <2>1, <2>2, <3>1, <3>2, HandlerReplies DEF SaveToDevice
  <2>3. CASE ~call[c].cfg.rejectOnCloudSaveFailure
    <3>1. StoresChange /\ call[c].m \in Trusted'
      BY <1>7, <2>1, <2>3, PrefsWritten DEF SaveToDevice
    <3> DEFINE ok == Valid(c)
    <3>2. ok \in BOOLEAN /\ Reply(c, ok, TRUE) /\ tasks' = tasks
      BY <1>7, <2>3 DEF SaveToDevice, Valid
    <3> HIDE DEF ok
    <3>3. CallOK(Answered(call[c], ok, TRUE), Trusted')
      BY <2>1, <3>1, <3>2, TrustedGrows, PointsAre, AnsweredOK DEF Reading
    <3> QED BY <2>1, <3>1, <3>2, <3>3, HandlerReplies
  <2> QED BY <2>2, <2>3
<1>8. ASSUME Submit(NewTask("delete", NoCall, NoMnemonic, FALSE))
      PROVE  \E t \in Task : t.call = NoCall /\ TaskOK(t, Trusted') /\ tasks' = Append(tasks, t)
  <2> DEFINE t == NewTask("delete", NoCall, NoMnemonic, FALSE)
  <2>1. /\ t \in Task /\ t.kind = "delete" /\ t.call = NoCall /\ t.m = NoMnemonic
    BY DEF NewTask, Task
  <2>2. tasks' = Append(tasks, t)
    BY <1>8 DEF Submit
  <2> HIDE DEF t
  <2> QED BY <2>1, <2>2 DEF TaskOK
<1>9. CASE DeleteCloudMnemonic(c)
  <2>1. /\ call[c] \in CallState /\ call[c].pc = "updDelete" /\ env' = env
    BY <1>9, RequestKnown, AwaitedIs DEF DeleteCloudMnemonic
  <2>2. StoresChange
    BY <1>1, <1>9, <2>1, StoresKept DEF DeleteCloudMnemonic
  <2>3. CallOK(Answered(call[c], TRUE, TRUE), Trusted')
    BY <2>1, <2>2, TrustedGrows, PointsAre, AnsweredOK DEF Reading
  <2> QED BY <1>8, <1>9, <2>2, <2>3, HandlerReplies DEF DeleteCloudMnemonic
<1>10. CASE DeleteMnemonic(c)
  <2>1. /\ call[c] \in CallState /\ call[c].pc = "delete" /\ env' = env
    BY <1>10, RequestKnown, AwaitedIs DEF DeleteMnemonic
  <2>2. StoresChange
    BY <1>10, <2>1, PrefsCleared DEF DeleteMnemonic, deleteFromSharedPref
  <2>3. CallOK(Answered(call[c], TRUE, TRUE), Trusted')
    BY <2>1, <2>2, TrustedGrows, PointsAre, AnsweredOK DEF Reading
  <2> QED BY <1>8, <1>10, <2>2, <2>3, HandlerReplies DEF DeleteMnemonic
<1> QED BY <1>2, <1>3, <1>4, <1>6, <1>7, <1>9, <1>10 DEF Handlers

\* Play services executes a call.
LEMMA ExecutionStep ==
  ASSUME IInv, NEW i \in 1..Len(tasks), ExecuteTask(i) \/ TaskFails(i)
  PROVE  IInv'
<1>1. /\ tasks \in Seq(Task) /\ tasks[i] \in Task
      /\ TasksOK(tasks, call, Trusted) /\ TaskOK(tasks[i], Trusted)
      /\ call \in [Calls -> CallState] /\ fresh \subseteq Generated
      /\ e2ee \in BOOLEAN /\ StoresOK /\ everStored \subseteq Mnemonics
  BY ElementOfSeq DEF IInv, TypeOK, DartTypeOK, TasksOK
<1>2. tasks[i].st = "pending" /\ UNCHANGED <<dartVars, prefs, disk, e2ee>>
  BY DEF ExecuteTask, TaskFails
<1>3. ASSUME StoresChange, NEW t \in Task, Settle(i, t), TaskOK(t, Trusted'),
             t.kind = tasks[i].kind, t.call = tasks[i].call,
             t.kind = "store" => t.m = tasks[i].m
      PROVE  IInv'
  <2>1. Trusted \subseteq Trusted'
    BY <1>3, TrustedGrows
  <2>2. CASE HasListener(t)
    BY <1>1, <1>2, <1>3, <2>1, <2>2, TaskChanges, UnseenStep DEF Settle, dartVars
  <2>3. CASE ~HasListener(t)
    BY <1>1, <1>2, <1>3, <2>1, <2>3, TaskLeaves, UnseenStep DEF Settle, dartVars
  <2> QED BY <2>2, <2>3
<1>4. CASE TaskFails(i)
  <2>1. StoresChange
    BY <1>1, <1>4, StoresKept DEF TaskFails, dartVars
  <2> DEFINE t == [tasks[i] EXCEPT !.st = "failed"]
  <2>2. /\ t \in Task /\ t.kind = tasks[i].kind /\ t.call = tasks[i].call
        /\ t.m = tasks[i].m /\ t.st = "failed" /\ t.live = tasks[i].live
    BY <1>1 DEF Task
  <2>3. Settle(i, t)
    BY <1>4 DEF TaskFails
  <2> HIDE DEF t
  <2>4. TaskOK(t, Trusted')
    BY <1>1, <2>2 DEF TaskOK
  <2> QED BY <1>3, <2>1, <2>2, <2>3, <2>4
<1>5. CASE ExecuteTask(i) /\ tasks[i].kind = "retrieve"
  <2>1. StoresChange
    BY <1>1, <1>5, StoresKept DEF ExecuteTask, dartVars
  <2> DEFINE t == [tasks[i] EXCEPT !.st = "ok", !.m = cloud]
  <2>2. cloud \in Trusted' \cup {NoMnemonic} /\ cloud \in Mnemonics \cup {NoMnemonic}
    BY <1>5, <2>1 DEF StoresChange, ExecuteTask, IInv, TypeOK
  <2>3. /\ t \in Task /\ t.kind = "retrieve" /\ t.call = tasks[i].call
        /\ t.m = cloud /\ t.live = tasks[i].live
    BY <1>1, <1>5, <2>2 DEF Task
  <2>4. Settle(i, t)
    BY <1>5 DEF ExecuteTask
  <2> HIDE DEF t
  <2>5. TaskOK(t, Trusted')
    BY <1>1, <1>5, <2>2, <2>3 DEF TaskOK
  <2> QED BY <1>3, <1>5, <2>1, <2>3, <2>4, <2>5
<1>6. CASE ExecuteTask(i) /\ tasks[i].kind # "retrieve"
  <2>1. /\ cloud' = tasks[i].m
        /\ everStored' = everStored \cup ({tasks[i].m} \cap Mnemonics)
        /\ env' = env
    BY <1>6 DEF ExecuteTask, dartVars
  <2>2. tasks[i].m \in Mnemonics \cup {NoMnemonic}
    BY <1>1 DEF Task
  <2>3. Trusted \subseteq Trusted' /\ (tasks[i].m \in Mnemonics => tasks[i].m \in Trusted')
    BY <1>1, <2>1, TrustedType DEF Trusted, IInv
  <2>4. StoresChange
    BY <1>1, <1>2, <2>1, <2>2, <2>3 DEF StoresChange, StoresOK, dartVars
  <2> DEFINE t == [tasks[i] EXCEPT !.st = "ok"]
  <2>5. /\ t \in Task /\ t.kind = tasks[i].kind /\ t.call = tasks[i].call
        /\ t.m = tasks[i].m /\ t.live = tasks[i].live
    BY <1>1 DEF Task
  <2>6. Settle(i, t)
    BY <1>6 DEF ExecuteTask
  <2> HIDE DEF t
  <2>7. TaskOK(t, Trusted')
    BY <1>1, <1>6, <2>3, <2>5 DEF TaskOK
  <2> QED BY <1>3, <2>4, <2>5, <2>6, <2>7
<1> QED BY <1>4, <1>5, <1>6

\* What isBackedUpToCloud and getMnemonic make of a phrase that was read.
LEMMA AnswerIs ==
  ASSUME NEW c \in Calls, call[c] \in CallState, call[c].pc \in Reading \cup {"eligible"},
         NEW known, known \subseteq Mnemonics, CallOK(call[c], known),
         NEW m \in known \cup {NoMnemonic}, NEW fromBlockstore \in BOOLEAN,
         Answer(c, m, fromBlockstore)
  PROVE  \E val \in Mnemonics \cup {NoMnemonic} \cup BOOLEAN :
           /\ Reply(c, TRUE, val)
           /\ CallOK(Answered(call[c], TRUE, val), known)
<1>1. call[c].pc \in Points
  BY PointsAre DEF Reading
<1>2. CASE call[c].pc \in Reading
  <2>1. Reply(c, TRUE, m)
    BY <1>1, <1>2, AwaitedIs DEF Answer
  <2>2. CallOK(Answered(call[c], TRUE, m), known)
    BY <1>1, <1>2, PointsAre, AnsweredOK DEF Reading
  <2> QED BY <2>1, <2>2
<1>3. CASE call[c].pc = "eligible"
  <2> DEFINE val == m # NoMnemonic /\ fromBlockstore
  <2>1. Reply(c, TRUE, val) /\ val \in BOOLEAN
    BY <1>1, <1>3, AwaitedIs DEF Answer, Reading
  <2> HIDE DEF val
  <2>2. CallOK(Answered(call[c], TRUE, val), known)
    BY <1>1, <1>3, <2>1, PointsAre, AnsweredOK DEF Reading
  <2> QED BY <2>1, <2>2
<1> QED BY <1>2, <1>3

\* The main thread runs a listener.
LEMMA ListenersStep ==
  ASSUME IInv, NEW i \in 1..Len(tasks), Listeners(i)
  PROVE  IInv'
<1>1. /\ tasks \in Seq(Task) /\ tasks[i] \in Task
      /\ TasksOK(tasks, call, Trusted) /\ TaskOK(tasks[i], Trusted)
      /\ tasks[i].call \in Calls => WaitedFor(tasks[i], call[tasks[i].call])
      /\ call \in [Calls -> CallState] /\ fresh \subseteq Generated
      /\ \A c \in Calls : CallOK(call[c], Trusted)
      /\ e2ee \in BOOLEAN /\ StoresOK /\ Trusted \subseteq Mnemonics
  BY ElementOfSeq, TrustedType DEF IInv, TypeOK, DartTypeOK, TasksOK, CallsOK
<1>2. CASE ListenerGone(i)
  <2>1. StoresChange
    BY <1>1, <1>2, StoresKept DEF ListenerGone, dartVars
  <2>2. Trusted \subseteq Trusted'
    BY <2>1, TrustedGrows
  <2>3. tasks' \in Seq(Task) /\ TasksOK(tasks', call, Trusted')
    BY <1>1, <1>2, <2>2, TaskLeaves DEF ListenerGone
  <2> QED BY <1>2, <2>1, <2>3, UnseenStep DEF ListenerGone, dartVars
<1>3. CASE RetrieveListener(i)
  <2> DEFINE c == tasks[i].call
  <2>1. /\ tasks' = RemoveAt(tasks, i) /\ env' = env
        /\ c \in Calls /\ call[c] \in CallState
        /\ call[c].pc \in Reading \cup {"eligible"}
        /\ UNCHANGED <<cachedWallet, channel, fresh, cloud, e2ee, everStored>>
    BY <1>1, <1>3 DEF RetrieveListener, CanReport, TaskOK, WaitedFor
  <2>2. ASSUME NEW m \in Trusted \cup {NoMnemonic}, NEW fromBlockstore \in BOOLEAN,
               Answer(c, m, fromBlockstore), StoresChange
        PROVE  IInv'
    <3>1. Trusted' = Trusted
      BY <2>1, TrustedKept
    <3>2. PICK val \in Mnemonics \cup {NoMnemonic} \cup BOOLEAN :
            Reply(c, TRUE, val) /\ CallOK(Answered(call[c], TRUE, val), Trusted)
      BY <1>1, <2>1, <2>2, AnswerIs
    <3> QED BY <2>1, <2>2, <3>1, <3>2, ListenerReplies
  <2>3. CASE tasks[i].st = "ok" /\ tasks[i].m # NoMnemonic
    <3>1. Answer(c, tasks[i].m, TRUE) /\ StoresChange
      BY <1>1, <1>3, <2>1, <2>3, StoresKept DEF RetrieveListener
    <3>2. tasks[i].m \in Trusted \cup {NoMnemonic}
      BY <1>1, <1>3, <2>3 DEF RetrieveListener, CanReport, TaskOK
    <3> QED BY <2>2, <3>1, <3>2
  <2>4. CASE ~(tasks[i].st = "ok" /\ tasks[i].m # NoMnemonic)
    <3>1. Answer(c, PrefsPhrase, FALSE) /\ readFromSharedPref
      BY <1>3, <2>4 DEF RetrieveListener
    <3>2. StoresChange
      BY <1>1, <2>1, <3>1, StoresKept, PrefsCleared DEF readFromSharedPref
    <3>3. PrefsPhrase \in Trusted \cup {NoMnemonic}
      BY <1>1 DEF PrefsPhrase, StoresOK
    <3> QED BY <2>2, <3>1, <3>2, <3>3
  <2> QED BY <2>3, <2>4
<1>4. CASE StoreListener(i)
  <2> DEFINE c == tasks[i].call
             fallsBack == tasks[i].st = "failed" /\ ~tasks[i].force
             ok == tasks[i].st = "ok" \/ fallsBack
  <2>1. /\ tasks' = RemoveAt(tasks, i) /\ env' = env
        /\ tasks[i].kind = "store" /\ tasks[i].m \in Mnemonics
        /\ UNCHANGED <<cachedWallet, channel, fresh, cloud, e2ee>>
        /\ SaveReply(c, ok) /\ ok \in BOOLEAN
        /\ c \in Calls \cup {NoCall}
    BY <1>1, <1>4 DEF StoreListener, CanReport, TaskOK, Task
  <2>2. StoresChange /\ (fallsBack => tasks[i].m \in Trusted')
    <3>1. CASE fallsBack
      BY <1>4, <2>1, <3>1, PrefsWritten DEF StoreListener
    <3>2. CASE ~fallsBack
      BY <1>1, <1>4, <2>1, <3>2, StoresKept DEF StoreListener
    <3> QED BY <3>1, <3>2
  <2>3. Trusted \subseteq Trusted'
    BY <2>2, TrustedGrows
  <2>4. ok => tasks[i].m \in Trusted'
    BY <1>1, <2>1, <2>2, <2>3 DEF TaskOK
  <2> HIDE DEF ok, fallsBack
  <2>5. CASE c = NoCall
    <3>1. UNCHANGED <<call, replies>>
      BY <2>1, <2>5 DEF SaveReply
    <3>2. tasks' \in Seq(Task) /\ TasksOK(tasks', call, Trusted')
      BY <1>1, <2>1, <2>3, TaskLeaves
    <3> QED BY <2>1, <2>2, <3>1, <3>2, UnseenStep
  <2>6. CASE c # NoCall
    <3>1. /\ c \in Calls /\ call[c] \in CallState /\ call[c].pc \in {"save", "updSave"}
          /\ call[c].m = tasks[i].m
      BY <1>1, <2>1, <2>6 DEF WaitedFor
    <3>2. Reply(c, ok, TRUE)
      BY <2>1, <2>6 DEF SaveReply
    <3>3. CallOK(Answered(call[c], ok, TRUE), Trusted')
      BY <2>2, <2>1, <2>4, <3>1, TrustedGrows, PointsAre, AnsweredOK DEF Reading
    <3> QED BY <2>1, <2>2, <3>1, <3>2, <3>3, ListenerReplies
  <2> QED BY <2>5, <2>6
<1> QED BY <1>2, <1>3, <1>4 DEF Listeners

-----------------------------------------------------------------------------
(* The other steps.                                                        *)

\* After the process has ended only the stores and the orphaned tasks are left.
LEMMA RestartStep ==
  ASSUME IInv, DartKilled, everStored' = everStored, e2ee' = FALSE,
         cloud' \in {cloud, NoMnemonic},
         prefs' \in {disk, NoMnemonic, Garbage}, disk' \in {disk, NoMnemonic, Garbage},
         \/ tasks' = <<>>
         \/ \E n \in 0..Len(tasks) : tasks' = OrphanedTasks(n)
  PROVE  IInv'
<1>1. Idle \in CallState /\ Idle.pc = "returned" /\ Idle.at = "none"
  BY DEF Idle, Ended, CallState, StorageConfig, Finished
<1>2. CallOK(Idle, Trusted')
  BY <1>1 DEF CallOK, Finished, Carrying, Reading
<1>3. Trusted' = Trusted
  BY TrustedKept DEF DartKilled
<1>4. /\ call' \in [Calls -> CallState] /\ \A c \in Calls : call'[c] = Idle
      /\ channel' = <<>> /\ replies' = <<>>
  BY <1>1 DEF DartKilled
<1>5. /\ channel' \in Seq(Calls) /\ QueueOK(channel', "channel", call')
      /\ replies' \in Seq(Calls) /\ QueueOK(replies', "reply", call')
  BY <1>4 DEF QueueOK
<1>6. tasks' \in Seq(Task) /\ TasksOK(tasks', call', Trusted')
  <2>1. CASE tasks' = <<>>
    BY <2>1 DEF TasksOK
  <2>2. CASE \E n \in 0..Len(tasks) : tasks' = OrphanedTasks(n)
    <3>1. PICK n \in 0..Len(tasks) : tasks' = OrphanedTasks(n)
      BY <2>2
    <3>2. /\ tasks \in Seq(Task) /\ Len(tasks) \in Nat /\ n \in Nat
          /\ \A i \in 1..n : i \in 1..Len(tasks) /\ tasks[i] \in Task
      BY ElementOfSeq, LenProperties DEF IInv, TypeOK
    <3>3. ASSUME NEW i \in 1..n
          PROVE  /\ [tasks[i] EXCEPT !.live = FALSE, !.call = NoCall] \in Task
                 /\ TaskOK([tasks[i] EXCEPT !.live = FALSE, !.call = NoCall], Trusted)
                 /\ [tasks[i] EXCEPT !.live = FALSE, !.call = NoCall].call = NoCall
      <4>1. tasks[i] \in Task /\ TaskOK(tasks[i], Trusted)
        BY <3>2 DEF IInv, TasksOK
      <4> QED BY <4>1 DEF Task, TaskOK
    <3>4. /\ tasks' \in Seq(Task) /\ Len(tasks') = n
          /\ \A i \in 1..n : tasks'[i] = [tasks[i] EXCEPT !.live = FALSE, !.call = NoCall]
      <4>1. tasks' = [i \in 1..n |-> [tasks[i] EXCEPT !.live = FALSE, !.call = NoCall]]
        BY <3>1 DEF OrphanedTasks
      <4>2. tasks' \in [1..n -> Task]
        BY <3>3, <4>1
      <4> QED BY <3>2, <4>1, <4>2, FunctionIsSeq
    <3> QED BY <1>3, <3>3, <3>4, PlatformAssumption DEF TasksOK
  <2> QED BY <2>1, <2>2
<1>7. TypeOK /\ StoresOK
  BY DEF IInv
<1>8. TypeOK' /\ StoresOK'
  BY <1>3, <1>4, <1>5, <1>6, <1>7 DEF TypeOK, DartTypeOK, StoresOK, DartKilled
<1> QED BY <1>2, <1>4, <1>5, <1>6, <1>8 DEF IInv, CallsOK

\* The invariant holds at the start.
LEMMA Initially ==
  Init => IInv
<1> SUFFICES ASSUME Init PROVE IInv
  OBVIOUS
<1>1. Idle \in CallState /\ Idle.pc = "returned" /\ Idle.at = "none"
  BY DEF Idle, Ended, CallState, StorageConfig, Finished
<1>2. CallOK(Idle, Trusted)
  BY <1>1 DEF CallOK, Finished, Carrying, Reading
<1>3. /\ call \in [Calls -> CallState] /\ \A c \in Calls : call[c] = Idle
      /\ channel = <<>> /\ replies = <<>> /\ tasks = <<>>
  BY <1>1 DEF Init, DartInit
<1>4. TypeOK /\ StoresOK
  <2>1. DartTypeOK
    BY <1>3 DEF Init, DartInit, DartTypeOK
  <2>2. tasks \in Seq(Task)
    BY <1>3
  <2> QED BY <2>1, <2>2 DEF Init, DartInit, TypeOK, StoresOK
<1>5. QueueOK(channel, "channel", call) /\ QueueOK(replies, "reply", call)
  BY <1>3 DEF QueueOK
<1>6. TasksOK(tasks, call, Trusted)
  BY <1>3 DEF TasksOK
<1> QED BY <1>2, <1>3, <1>4, <1>5, <1>6 DEF IInv, CallsOK

\* A step that changes nothing preserves it.
LEMMA Stuttering ==
  IInv /\ UNCHANGED vars => IInv'
<1> SUFFICES ASSUME IInv, UNCHANGED vars PROVE IInv'
  OBVIOUS
<1>1. Trusted' = Trusted
  BY TrustedKept DEF vars, dartVars, androidVars
<1> QED
  BY <1>1 DEF vars, dartVars, androidVars, IInv, TypeOK, DartTypeOK, CallsOK, StoresOK

\* Every step preserves it.
LEMMA Inductive ==
  IInv /\ [Next]_vars => IInv'
<1> SUFFICES ASSUME IInv, Next PROVE IInv'
  BY Stuttering
<1>1. ASSUME NEW c \in Calls, AppCalls(c) /\ UNCHANGED androidVars
      PROVE  IInv'
  BY <1>1, DartMoves
<1>2. ASSUME NEW c \in Calls, Continuations(c) /\ UNCHANGED androidVars
      PROVE  IInv'
  BY <1>2, DartMoves
<1>3. ASSUME NEW c \in Calls, Handlers(c)
      PROVE  IInv'
  BY <1>3, HandlersStep
<1>4. ASSUME NEW i \in 1..Len(tasks), ExecuteTask(i) \/ TaskFails(i) \/ Listeners(i)
      PROVE  IInv'
  BY <1>4, ExecutionStep, ListenersStep
<1>5. CASE EndToEndEncryptionAvailable
  <2>1. /\ tasks \in Seq(Task) /\ TasksOK(tasks, call, Trusted) /\ fresh \subseteq Generated
    BY DEF IInv, TypeOK, DartTypeOK
  <2>2. StoresChange
    BY <1>5, <2>1, StoresKept DEF EndToEndEncryptionAvailable, dartVars
  <2>3. Trusted' = Trusted
    BY <1>5, TrustedKept DEF EndToEndEncryptionAvailable, dartVars
  <2> QED BY <1>5, <2>1, <2>2, <2>3, UnseenStep DEF EndToEndEncryptionAvailable, dartVars
<1>6. CASE AppKilled
  BY <1>6, RestartStep DEF AppKilled
<1>7. CASE DeviceRestored
  BY <1>7, RestartStep DEF DeviceRestored
<1> QED BY <1>1, <1>2, <1>3, <1>4, <1>5, <1>6, <1>7 DEF Next

-----------------------------------------------------------------------------
(* The theorems.                                                           *)

\* The invariant holds in every state the wallet can reach: every call is in one
\* place, the reply it gets is the one its own task was made for, and what it
\* carries, reads or caches was stored.
THEOREM Invariant ==
  Spec => []IInv
<1> QED BY Initially, Inductive, PTL DEF Spec

\* Type correctness: in particular no phrase is ever the value of an undecryptable
\* file, and no Boolean reply of the channel is taken for a phrase.
THEOREM TypeCorrect ==
  Spec => []TypeOK
<1>1. IInv => TypeOK
  BY DEF IInv
<1> QED BY <1>1, Invariant, PTL

\* On a device whose preferences are written when commit() is called, whatever
\* else fails, is reordered, killed or restored: a cached wallet, which getWallet
\* hands out without asking the platform, was stored durably before.
THEOREM CachedStored ==
  ASSUME \A e \in Environments : "commit" \notin e.faults
  PROVE  Spec => []CachedWasStored
<1>1. IInv => CachedWasStored
  BY DEF IInv, TypeOK, DartTypeOK, StoresOK, Trusted, CachedWasStored
<1> QED BY <1>1, Invariant, PTL

-----------------------------------------------------------------------------
(* What a handler does, in detail.                                         *)

Values == Mnemonics \cup {NoMnemonic} \cup BOOLEAN

\* What a call carries.
SameCall(s, t) ==
  /\ s.pc = t.pc /\ s.op = t.op /\ s.cfg = t.cfg /\ s.overwrite = t.overwrite
  /\ s.m = t.m /\ s.r = t.r

Writes(m) == saveToSharedPref(m)
StoresSame == UNCHANGED <<prefs, disk, everStored>>

\* The store that a call asks Block Store for, whoever waits for it.
StoreOf(s, c) == NewTask("store", c, s.m, s.cfg.rejectOnCloudSaveFailure)

\* The handler of a save: with Block Store, for a valid phrase or one that is not, or
\* without it.
SaveHandled(c, u) ==
  LET t == call[c] IN
  \/ /\ t.cfg.saveToCloud /\ t.m \notin Invalid
     /\ u.at = "platform"
     /\ tasks' = Append(tasks, StoreOf(t, c)) /\ StoresSame
  \/ /\ t.cfg.saveToCloud /\ t.m \in Invalid
     /\ u.at = "reply" /\ ~u.ok
     /\ tasks' = Append(tasks, StoreOf(t, NoCall)) /\ StoresSame
  \/ /\ t.cfg.rejectOnCloudSaveFailure
     /\ u.at = "reply" /\ ~u.ok
     /\ UNCHANGED tasks /\ StoresSame
  \/ /\ ~t.cfg.rejectOnCloudSaveFailure
     /\ u.at = "reply" /\ (u.ok <=> t.m \notin Invalid)
     /\ UNCHANGED tasks /\ Writes(t.m)

ReadTask(c) == NewTask("retrieve", c, NoMnemonic, FALSE)
DeleteTask == NewTask("delete", NoCall, NoMnemonic, FALSE)

\* What the handler does to the tasks and the preferences, by what the call waits for.
PlaysPart(c, u) ==
  LET pc == call[c].pc IN
  \/ /\ pc = "generate"
     /\ u.at = "reply" /\ u.ok /\ u.val \in Mnemonics /\ UNCHANGED tasks /\ StoresSame
  \/ /\ pc \in {"checkKey", "key", "makeKey"}
     /\ u.at = "reply" /\ (u.ok <=> KeyPhrase(c) \notin Invalid)
     /\ UNCHANGED tasks /\ StoresSame
  \/ /\ pc \in Reading \cup {"eligible"}
     /\ u.at = "platform" /\ tasks' = Append(tasks, ReadTask(c)) /\ StoresSame
  \/ /\ pc \in {"save", "updSave"}
     /\ SaveHandled(c, u)
  \/ /\ pc = "updDelete"
     /\ u.at = "reply" /\ u.ok /\ u.val = TRUE
     /\ tasks' = Append(tasks, DeleteTask) /\ StoresSame
  \/ /\ pc = "delete"
     /\ u.at = "reply" /\ u.ok /\ u.val = TRUE
     /\ tasks' = Append(tasks, DeleteTask)
     /\ Commit(NoMnemonic) /\ UNCHANGED everStored

\* The handler of c leaves it in state u.
Handled(c, u) ==
  /\ call[c] \in CallState /\ call[c].at = "channel" /\ call[c].pc \in Points
  /\ channel # <<>> /\ c = Head(channel) /\ channel' = Tail(channel)
  /\ u \in CallState /\ SameCall(u, call[c])
  /\ call' = [call EXCEPT ![c] = u]
  /\ \/ u.at = "reply" /\ replies' = Append(replies, c)
     \/ u.at = "platform" /\ UNCHANGED replies
  /\ UNCHANGED <<env, cachedWallet, cloud>>
  /\ PlaysPart(c, u)

\* A handler that replies at once, and one that keeps the request.
LEMMA RepliedAtOnce ==
  ASSUME IInv, NEW c \in Calls, NEW method, Requested(c, method), UNCHANGED <<cachedWallet, cloud>>,
         NEW ok \in BOOLEAN, NEW val \in Values, Reply(c, ok, val),
         PlaysPart(c, Answered(call[c], ok, val))
  PROVE  Handled(c, Answered(call[c], ok, val))
<1> DEFINE u == Answered(call[c], ok, val)
<1>1. /\ call[c] \in CallState /\ call[c].at = "channel" /\ call[c].pc \in Points /\ env' = env
  BY RequestKnown
<1>2. u \in CallState /\ u.at = "reply" /\ SameCall(u, call[c])
  BY <1>1, AnsweredType, AnsweredKeeps DEF Values, SameCall
<1>3. call' = [call EXCEPT ![c] = u] /\ replies' = Append(replies, c)
  BY ReplySends
<1> HIDE DEF u
<1>4. PlaysPart(c, u)
  BY DEF u
<1>5. Handled(c, u)
  BY <1>1, <1>2, <1>3, <1>4 DEF Handled, Requested
<1> QED BY <1>5 DEF u

Kept(s) == [s EXCEPT !.at = "platform"]

LEMMA KeptIs ==
  ASSUME NEW s \in CallState
  PROVE  Kept(s) \in CallState /\ Kept(s).at = "platform" /\ SameCall(Kept(s), s)
BY DEF Kept, CallState, SameCall

LEMMA KeptByPlatform ==
  ASSUME IInv, NEW c \in Calls, NEW method, Requested(c, method), UNCHANGED <<cachedWallet, cloud>>,
         Hold(c), PlaysPart(c, Kept(call[c]))
  PROVE  Handled(c, Kept(call[c]))
<1> DEFINE u == Kept(call[c])
<1>1. /\ call[c] \in CallState /\ call[c].at = "channel" /\ call[c].pc \in Points /\ env' = env
  BY RequestKnown
<1>2. u \in CallState /\ u.at = "platform" /\ SameCall(u, call[c])
  BY <1>1, KeptIs
<1>3. call' = [call EXCEPT ![c] = u] /\ replies' = replies
  BY DEF Hold, Kept
<1> HIDE DEF u
<1>4. PlaysPart(c, u)
  BY DEF u
<1>5. Handled(c, u)
  BY <1>1, <1>2, <1>3, <1>4 DEF Handled, Requested
<1> QED BY <1>5 DEF u

LEMMA HandlersDo ==
  ASSUME IInv, NEW c \in Calls, Handlers(c)
  PROVE  \E u \in CallState : Handled(c, u)
<1>1. TRUE \in Values /\ NoMnemonic \in Values /\ TRUE \in BOOLEAN /\ FALSE \in BOOLEAN
  BY DEF Values
<1>2. ASSUME NEW method, Requested(c, method)
      PROVE  call[c] \in CallState /\ call[c].pc \in Points /\ Awaited[call[c].pc] = method
  BY <1>2, RequestKnown
<1>3. ASSUME NEW method, Requested(c, method), UNCHANGED <<cachedWallet, cloud>>,
             NEW ok \in BOOLEAN, NEW val \in Values, Reply(c, ok, val),
             PlaysPart(c, Answered(call[c], ok, val))
      PROVE  \E u \in CallState : Handled(c, u)
  <2> DEFINE u == Answered(call[c], ok, val)
  <2>1. u \in CallState
    BY <1>2, <1>3, AnsweredType DEF Values
  <2>2. Handled(c, u)
    BY <1>3, RepliedAtOnce
  <2> HIDE DEF u
  <2> QED BY <2>1, <2>2
<1>4. ASSUME NEW method, Requested(c, method), UNCHANGED <<cachedWallet, cloud>>,
             Hold(c), PlaysPart(c, Kept(call[c]))
      PROVE  \E u \in CallState : Handled(c, u)
  <2>1. Kept(call[c]) \in CallState
    BY <1>2, <1>4, KeptIs
  <2>2. Handled(c, Kept(call[c]))
    BY <1>4, KeptByPlatform
  <2> QED BY <2>1, <2>2
<1>5. ASSUME NEW method, Requested(c, method), NEW ok \in BOOLEAN, NEW val \in Values
      PROVE  /\ Answered(call[c], ok, val).at = "reply" /\ Answered(call[c], ok, val).ok = ok
             /\ Answered(call[c], ok, val).val = val
  BY <1>2, <1>5, AnsweredType DEF Values
<1>6. CASE GenerateNewMnemonic(c)
  <2>1. PICK m \in fresh : Draw(c, m)
    BY <1>6 DEF GenerateNewMnemonic
  <2>2. /\ Requested(c, "generateNewMnemonic") /\ Reply(c, TRUE, m)
        /\ m \in Values /\ m \in Mnemonics
        /\ UNCHANGED <<cachedWallet, cloud, tasks>> /\ StoresSame
    BY <1>6, <2>1 DEF GenerateNewMnemonic, Draw, androidVars, StoresSame, Values, IInv, TypeOK,
                      DartTypeOK, Mnemonics
  <2>3. call[c].pc = "generate"
    BY <1>2, <2>2, AwaitedIs
  <2>4. PlaysPart(c, Answered(call[c], TRUE, m))
    BY <1>1, <1>5, <2>2, <2>3 DEF PlaysPart
  <2> QED BY <1>1, <1>3, <2>2, <2>4
<1>7. CASE GetPrivateKeyFromMnemonic(c)
  <2> DEFINE ok == KeyPhrase(c) \notin Invalid
  <2>1. /\ Requested(c, "getPrivateKeyFromMnemonic") /\ Reply(c, ok, NoMnemonic) /\ ok \in BOOLEAN
        /\ UNCHANGED <<cachedWallet, cloud, tasks>> /\ StoresSame
    BY <1>7 DEF GetPrivateKeyFromMnemonic, androidVars, StoresSame
  <2>2. call[c].pc \in {"checkKey", "key", "makeKey"} /\ (ok <=> KeyPhrase(c) \notin Invalid)
    BY <1>2, <2>1, AwaitedIs
  <2> HIDE DEF ok
  <2>3. PlaysPart(c, Answered(call[c], ok, NoMnemonic))
    BY <1>1, <1>5, <2>1, <2>2 DEF PlaysPart
  <2> QED BY <1>1, <1>3, <2>1, <2>3
<1>8. CASE ReadMnemonic(c)
  <2>1. PICK method \in {"getMnemonic", "mnemonicBackedUpToCloud"} : Requested(c, method)
    BY <1>8 DEF ReadMnemonic
  <2>2. call[c].pc \in Reading \cup {"eligible"} /\ call[c] \in CallState
    BY <1>2, <2>1, AwaitedIs
  <2>3. /\ Hold(c) /\ tasks' = Append(tasks, ReadTask(c)) /\ StoresSame
        /\ UNCHANGED <<cachedWallet, cloud>>
    BY <1>8 DEF ReadMnemonic, Submit, ReadTask, StoresSame
  <2>4. PlaysPart(c, Kept(call[c]))
    BY <2>2, <2>3, KeptIs DEF PlaysPart
  <2> QED BY <1>4, <2>1, <2>3, <2>4
<1>9. ASSUME Requested(c, "saveMnemonic")
      PROVE  call[c].pc \in {"save", "updSave"} /\ call[c] \in CallState
  BY <1>2, <1>9, AwaitedIs
<1>10. CASE SaveToCloud(c)
  <2>1. /\ Requested(c, "saveMnemonic") /\ call[c].cfg.saveToCloud /\ StoresSame
        /\ UNCHANGED <<cachedWallet, cloud>>
    BY <1>10 DEF SaveToCloud, UsesBlockStore, StoresSame
  <2>2. CASE Valid(c)
    <3>1. Hold(c) /\ tasks' = Append(tasks, StoreOf(call[c], c)) /\ call[c].m \notin Invalid
      BY <1>10, <2>2 DEF SaveToCloud, Submit, StoreOf, Valid
    <3>2. SaveHandled(c, Kept(call[c]))
      BY <1>9, <2>1, <3>1, KeptIs DEF SaveHandled
    <3>3. PlaysPart(c, Kept(call[c]))
      BY <1>9, <2>1, <3>2 DEF PlaysPart
    <3> QED BY <1>4, <2>1, <3>1, <3>3
  <2>3. CASE ~Valid(c)
    <3>1. /\ Reply(c, FALSE, NoMnemonic) /\ tasks' = Append(tasks, StoreOf(call[c], NoCall))
          /\ call[c].m \in Invalid
      BY <1>10, <2>3 DEF SaveToCloud, Submit, StoreOf, Valid
    <3>2. SaveHandled(c, Answered(call[c], FALSE, NoMnemonic))
      BY <1>1, <1>5, <2>1, <3>1 DEF SaveHandled
    <3>3. PlaysPart(c, Answered(call[c], FALSE, NoMnemonic))
      BY <1>9, <2>1, <3>2 DEF PlaysPart
    <3> QED BY <1>1, <1>3, <2>1, <3>1, <3>3
  <2> QED BY <2>2, <2>3
<1>11. CASE SaveToDevice(c)
  <2>1. /\ Requested(c, "saveMnemonic") /\ UNCHANGED <<cachedWallet, cloud, tasks>>
    BY <1>11 DEF SaveToDevice
  <2>2. CASE call[c].cfg.rejectOnCloudSaveFailure
    <3>1. Reply(c, FALSE, NoMnemonic) /\ StoresSame
      BY <1>11, <2>2 DEF SaveToDevice, StoresSame
    <3>2. SaveHandled(c, Answered(call[c], FALSE, NoMnemonic))
      BY <1>1, <1>5, <2>1, <2>2, <3>1 DEF SaveHandled
    <3>3. PlaysPart(c, Answered(call[c], FALSE, NoMnemonic))
      BY <1>9, <2>1, <3>2 DEF PlaysPart
    <3> QED BY <1>1, <1>3, <2>1, <3>1, <3>3
  <2>3. CASE ~call[c].cfg.rejectOnCloudSaveFailure
    <3> DEFINE ok == Valid(c)
    <3>1. Reply(c, ok, TRUE) /\ Writes(call[c].m) /\ ok \in BOOLEAN
      BY <1>11, <2>3 DEF SaveToDevice, Writes, Valid
    <3>2. ok <=> call[c].m \notin Invalid
      BY DEF Valid
    <3> HIDE DEF ok
    <3>3. SaveHandled(c, Answered(call[c], ok, TRUE))
      BY <1>1, <1>5, <2>1, <2>3, <3>1, <3>2 DEF SaveHandled
    <3>4. PlaysPart(c, Answered(call[c], ok, TRUE))
      BY <1>9, <2>1, <3>3 DEF PlaysPart
    <3> QED BY <1>1, <1>3, <2>1, <3>1, <3>4
  <2> QED BY <2>2, <2>3
<1>12. CASE DeleteCloudMnemonic(c)
  <2>1. /\ Requested(c, "deleteCloudMnemonic") /\ Reply(c, TRUE, TRUE) /\ StoresSame
        /\ UNCHANGED <<cachedWallet, cloud>> /\ tasks' = Append(tasks, DeleteTask)
    BY <1>12 DEF DeleteCloudMnemonic, Submit, DeleteTask, StoresSame
  <2>2. call[c].pc = "updDelete"
    BY <1>2, <2>1, AwaitedIs
  <2>3. PlaysPart(c, Answered(call[c], TRUE, TRUE))
    BY <1>1, <1>5, <2>1, <2>2 DEF PlaysPart
  <2> QED BY <1>1, <1>3, <2>1, <2>3
<1>13. CASE DeleteMnemonic(c)
  <2>1. /\ Requested(c, "deleteMnemonic") /\ Reply(c, TRUE, TRUE)
        /\ Commit(NoMnemonic) /\ UNCHANGED everStored
        /\ UNCHANGED <<cachedWallet, cloud>> /\ tasks' = Append(tasks, DeleteTask)
    BY <1>13 DEF DeleteMnemonic, Submit, DeleteTask, deleteFromSharedPref
  <2>2. call[c].pc = "delete"
    BY <1>2, <2>1, AwaitedIs
  <2>3. PlaysPart(c, Answered(call[c], TRUE, TRUE))
    BY <1>1, <1>5, <2>1, <2>2 DEF PlaysPart
  <2> QED BY <1>1, <1>3, <2>1, <2>3
<1> QED BY <1>6, <1>7, <1>8, <1>10, <1>11, <1>12, <1>13 DEF Handlers

-----------------------------------------------------------------------------
(* What Play services and the listeners do, in detail.                     *)

\* The task that i becomes when it is executed, or fails.
Becomes(i, t) ==
  /\ t \in Task
  /\ t.kind = tasks[i].kind /\ t.call = tasks[i].call /\ t.force = tasks[i].force
  /\ t.live = tasks[i].live /\ (t.kind = "store" => t.m = tasks[i].m)
  /\ Settle(i, t)

\* Task i is executed or fails, and becomes t.
Played(i, t) ==
  /\ tasks[i].st = "pending" /\ InTurn(i, Executed)
  /\ Becomes(i, t)
  /\ UNCHANGED <<dartVars, prefs, disk, e2ee>>
  /\ \/ /\ t.st = "failed" /\ t.kind \in env.faults
        /\ UNCHANGED <<cloud, everStored>>
     \/ /\ t.st = "ok" /\ t.kind = "retrieve" /\ t.m = cloud
        /\ UNCHANGED <<cloud, everStored>>
     \/ /\ t.st = "ok" /\ t.kind = "store" /\ cloud' = t.m
        /\ everStored' = everStored \cup ({t.m} \cap Mnemonics)
     \/ /\ t.st = "ok" /\ t.kind = "delete" /\ cloud' = NoMnemonic
        /\ UNCHANGED everStored

LEMMA TasksPlayed ==
  ASSUME IInv, NEW i \in 1..Len(tasks), ExecuteTask(i) \/ TaskFails(i)
  PROVE  \E t \in Task : Played(i, t)
<1>1. /\ tasks[i] \in Task /\ TaskOK(tasks[i], Trusted)
      /\ cloud \in Mnemonics \cup {NoMnemonic} /\ NoMnemonic \notin Mnemonics
  BY ElementOfSeq, PhrasesAssumption DEF IInv, TypeOK, TasksOK
<1>2. CASE TaskFails(i)
  <2> DEFINE t == [tasks[i] EXCEPT !.st = "failed"]
  <2>1. /\ t \in Task /\ t.kind = tasks[i].kind /\ t.call = tasks[i].call
        /\ t.m = tasks[i].m /\ t.st = "failed" /\ t.live = tasks[i].live
        /\ t.force = tasks[i].force
    BY <1>1 DEF Task
  <2>2. Settle(i, t)
    BY <1>2 DEF TaskFails
  <2> HIDE DEF t
  <2>3. Played(i, t)
    BY <1>2, <2>1, <2>2 DEF Played, Becomes, TaskFails
  <2> QED BY <2>1, <2>3
<1>3. CASE ExecuteTask(i) /\ tasks[i].kind = "retrieve"
  <2> DEFINE t == [tasks[i] EXCEPT !.st = "ok", !.m = cloud]
  <2>1. /\ t \in Task /\ t.kind = "retrieve" /\ t.call = tasks[i].call
        /\ t.m = cloud /\ t.st = "ok" /\ t.live = tasks[i].live
        /\ t.force = tasks[i].force
    BY <1>1, <1>3 DEF Task
  <2>2. Settle(i, t)
    BY <1>3 DEF ExecuteTask
  <2> HIDE DEF t
  <2>3. Played(i, t)
    BY <1>3, <2>1, <2>2 DEF Played, Becomes, ExecuteTask
  <2> QED BY <2>1, <2>3
<1>4. CASE ExecuteTask(i) /\ tasks[i].kind # "retrieve"
  <2> DEFINE t == [tasks[i] EXCEPT !.st = "ok"]
  <2>1. /\ t \in Task /\ t.kind = tasks[i].kind /\ t.call = tasks[i].call
        /\ t.m = tasks[i].m /\ t.st = "ok" /\ t.live = tasks[i].live
        /\ t.force = tasks[i].force
    BY <1>1 DEF Task
  <2>2. Settle(i, t)
    BY <1>4 DEF ExecuteTask
  <2> HIDE DEF t
  <2>3. /\ cloud' = t.m
        /\ everStored' = everStored \cup ({t.m} \cap Mnemonics)
        /\ tasks[i].st = "pending" /\ InTurn(i, Executed) /\ UNCHANGED <<dartVars, prefs, disk, e2ee>>
    BY <1>4, <2>1 DEF ExecuteTask
  <2>4. t.kind \in {"store", "delete"} /\ (t.kind = "delete" => t.m = NoMnemonic)
    BY <1>1, <1>4, <2>1 DEF Task, TaskOK
  <2>5. t.kind = "delete" => everStored' = everStored
    BY <1>1, <2>3, <2>4
  <2>6. Played(i, t)
    BY <2>1, <2>2, <2>3, <2>4, <2>5 DEF Played, Becomes
  <2> QED BY <2>1, <2>6
<1> QED BY <1>2, <1>3, <1>4

\* A call is told by the listener of task i.
Informs(i, ok, val) ==
  LET t == tasks[i] IN
  /\ t.call \in Calls
  /\ call' = [call EXCEPT ![t.call] = Answered(call[t.call], ok, val)]
  /\ replies' = Append(replies, t.call)
  /\ t.kind = "retrieve" =>
       /\ ok = TRUE
       /\ call[t.call].pc \in Reading =>
            val = IF t.st = "ok" /\ t.m # NoMnemonic THEN t.m ELSE PrefsPhrase
       /\ call[t.call].pc = "eligible" =>
            val \in BOOLEAN /\ (val = TRUE => t.st = "ok" /\ t.m # NoMnemonic)
  /\ t.kind = "store" => (ok <=> t.st = "ok" \/ ~t.force)

\* Task i reports, and leaves the list.
Reports(i) ==
  LET t == tasks[i] IN
  /\ Executed(t)
  /\ t.live => InTurn(i, NotExecuted)
  /\ tasks' = RemoveAt(tasks, i)
  /\ UNCHANGED <<env, cachedWallet, channel, fresh, cloud, e2ee>>
  /\ \/ ~t.live
     \/ t.call = NoCall
     \/ t.call \in Calls /\ t.kind \in {"retrieve", "store"}
  /\ \/ UNCHANGED <<prefs, disk, everStored>>
     \/ t.kind = "retrieve" /\ t.live /\ prefs = Garbage /\ Commit(NoMnemonic) /\ UNCHANGED everStored
     \/ t.kind = "store" /\ t.live /\ t.st = "failed" /\ ~t.force /\ Writes(t.m)
  /\ t.kind = "store" /\ t.live /\ t.st = "failed" /\ ~t.force => Writes(t.m)
  /\ \/ UNCHANGED <<call, replies>> /\ (~t.live \/ t.call = NoCall)
     \/ \E ok \in BOOLEAN, val \in Values : Informs(i, ok, val)

LEMMA ListenersReport ==
  ASSUME IInv, NEW i \in 1..Len(tasks), Listeners(i)
  PROVE  Reports(i)
<1> DEFINE t == tasks[i]
<1>1. /\ t \in Task /\ TaskOK(t, Trusted) /\ Trusted \subseteq Mnemonics
      /\ t.call \in Calls => WaitedFor(t, call[t.call])
      /\ prefs \in Mnemonics \cup {NoMnemonic, Garbage}
  BY ElementOfSeq, TrustedType DEF IInv, TypeOK, TasksOK
<1>2. CASE ListenerGone(i)
  BY <1>2 DEF ListenerGone, Reports, dartVars
<1>3. CASE RetrieveListener(i)
  <2>1. /\ t.kind = "retrieve" /\ t.live /\ Executed(t) /\ InTurn(i, NotExecuted)
        /\ tasks' = RemoveAt(tasks, i) /\ t.call \in Calls /\ call[t.call].pc \in Reading \cup {"eligible"}
        /\ UNCHANGED <<env, cachedWallet, channel, fresh, cloud, e2ee, everStored>>
    BY <1>1, <1>3 DEF RetrieveListener, CanReport, TaskOK, WaitedFor
  <2>2. /\ PrefsPhrase \in Values /\ t.m \in Values
    BY <1>1 DEF PrefsPhrase, Values, Task
  <2>3. ASSUME NEW m \in Values, NEW fromBlockstore \in BOOLEAN, Answer(t.call, m, fromBlockstore)
        PROVE  \E val \in Values :
                 /\ Reply(t.call, TRUE, val)
                 /\ call[t.call].pc \in Reading => val = m
                 /\ call[t.call].pc = "eligible" =>
                      val \in BOOLEAN /\ (val = TRUE => m # NoMnemonic /\ fromBlockstore = TRUE)
    <3>1. call[t.call].pc \in Points
      BY <2>1, PointsAre DEF Reading
    <3>2. CASE call[t.call].pc \in Reading
      BY <2>3, <3>1, <3>2, AwaitedIs DEF Answer
    <3>3. CASE call[t.call].pc \notin Reading
      <4> DEFINE val == m # NoMnemonic /\ fromBlockstore
      <4>1. /\ val \in Values /\ Reply(t.call, TRUE, val) /\ val \in BOOLEAN
            /\ val = TRUE => m # NoMnemonic /\ fromBlockstore = TRUE
        BY <2>3, <3>1, <3>3, AwaitedIs DEF Answer, Values
      <4> HIDE DEF val
      <4> QED BY <3>3, <4>1
    <3> QED BY <3>2, <3>3
  <2>4. ASSUME NEW m \in Values, m = IF t.st = "ok" /\ t.m # NoMnemonic THEN t.m ELSE PrefsPhrase,
               NEW fromBlockstore \in BOOLEAN, Answer(t.call, m, fromBlockstore),
               fromBlockstore = TRUE => t.st = "ok" /\ t.m # NoMnemonic
        PROVE  \E ok \in BOOLEAN, val \in Values : Informs(i, ok, val)
    <3>1. PICK val \in Values :
            /\ Reply(t.call, TRUE, val)
            /\ call[t.call].pc \in Reading => val = m
            /\ call[t.call].pc = "eligible" =>
                 val \in BOOLEAN /\ (val = TRUE => m # NoMnemonic /\ fromBlockstore = TRUE)
      BY <2>3, <2>4
    <3>2. TRUE \in BOOLEAN /\ Informs(i, TRUE, val)
      BY <2>1, <2>4, <3>1, ReplySends DEF Informs
    <3> QED BY <3>2
  <2>5. CASE t.st = "ok" /\ t.m # NoMnemonic
    <3>1. Answer(t.call, t.m, TRUE) /\ UNCHANGED <<prefs, disk>>
      BY <1>3, <2>5 DEF RetrieveListener
    <3>2. \E ok \in BOOLEAN, val \in Values : Informs(i, ok, val)
      BY <2>2, <2>4, <2>5, <3>1
    <3> QED BY <2>1, <3>1, <3>2 DEF Reports
  <2>6. CASE ~(t.st = "ok" /\ t.m # NoMnemonic)
    <3>1. Answer(t.call, PrefsPhrase, FALSE) /\ readFromSharedPref
      BY <1>3, <2>6 DEF RetrieveListener
    <3>2. \E ok \in BOOLEAN, val \in Values : Informs(i, ok, val)
      BY <2>2, <2>4, <2>6, <3>1
    <3>3. UNCHANGED <<prefs, disk>> \/ (prefs = Garbage /\ Commit(NoMnemonic))
      BY <3>1 DEF readFromSharedPref
    <3> QED BY <2>1, <3>2, <3>3 DEF Reports
  <2> QED BY <2>5, <2>6
<1>4. CASE StoreListener(i)
  <2> DEFINE fallsBack == t.st = "failed" /\ ~t.force
             ok == t.st = "ok" \/ fallsBack
  <2>1. /\ t.kind = "store" /\ t.live /\ Executed(t) /\ InTurn(i, NotExecuted)
        /\ tasks' = RemoveAt(tasks, i) /\ t.call \in Calls \cup {NoCall}
        /\ UNCHANGED <<env, cachedWallet, channel, fresh, cloud, e2ee>>
        /\ SaveReply(t.call, ok) /\ ok \in BOOLEAN
        /\ (ok <=> t.st = "ok" \/ ~t.force)
    BY <1>1, <1>4 DEF StoreListener, CanReport, Task, Executed
  <2>2. IF fallsBack THEN Writes(t.m) ELSE UNCHANGED <<prefs, disk, everStored>>
    BY <1>4 DEF StoreListener, Writes
  <2>3. \/ UNCHANGED <<call, replies>> /\ t.call = NoCall
        \/ \E o \in BOOLEAN, val \in Values : Informs(i, o, val)
    <3> HIDE DEF ok
    <3>1. CASE t.call = NoCall
      BY <2>1, <3>1 DEF SaveReply
    <3>2. CASE t.call # NoCall
      <4>1. Reply(t.call, ok, TRUE) /\ TRUE \in Values
        BY <2>1, <3>2 DEF SaveReply, Values
      <4>2. Informs(i, ok, TRUE)
        BY <2>1, <3>2, <4>1, ReplySends DEF Informs
      <4> QED BY <2>1, <4>1, <4>2
    <3> QED BY <3>1, <3>2
  <2> QED BY <2>1, <2>2, <2>3 DEF Reports
<1> QED BY <1>2, <1>3, <1>4 DEF Listeners

-----------------------------------------------------------------------------
(* The order of the Block Store calls, and what they were made for.        *)

\* What is suspended is what the app of the environment calls.
AppOK == \A c \in Calls : Runs(call[c], env)

\* Block Store is asked to store a valid phrase for a call that is to save to it, which
\* waits; an invalid phrase is stored for nobody.
Fits(task, f) ==
  /\ task.kind = "delete" => task.st = "pending"
  /\ task.call \in Calls => task.live
  /\ task.kind = "store" /\ task.live /\ task.call = NoCall => task.m \in Invalid
  /\ task.kind = "store" /\ task.call \in Calls =>
       /\ task.m \notin Invalid
       /\ f[task.call].cfg.saveToCloud
       /\ task.force = f[task.call].cfg.rejectOnCloudSaveFailure

\* The calls of an earlier process come first, and so do those that are executed.
InOrder(list) ==
  \A i, j \in 1..Len(list) : i < j =>
    /\ list[i].live => list[j].live
    /\ "reorder" \notin env.faults /\ Executed(list[j]) => Executed(list[i])

ListOK(list, f) == (\A i \in 1..Len(list) : Fits(list[i], f)) /\ InOrder(list)

PlayInv == IInv /\ AppOK /\ ListOK(tasks, call)

\* Where a task was in the list that it is left in when task i leaves.
Old(i, j) == IF j < i THEN j ELSE j + 1

LEMMA LeftInOrder ==
  ASSUME NEW list \in Seq(Task), NEW i \in 1..Len(list)
  PROVE  /\ RemoveAt(list, i) \in Seq(Task)
         /\ \A j \in 1..Len(RemoveAt(list, i)) :
              /\ Old(i, j) \in 1..Len(list) /\ Old(i, j) # i
              /\ RemoveAt(list, i)[j] = list[Old(i, j)]
         /\ \A j, k \in 1..Len(RemoveAt(list, i)) : j < k <=> Old(i, j) < Old(i, k)
         /\ \A k \in 1..Len(list) \ {i} : \E j \in 1..Len(RemoveAt(list, i)) : Old(i, j) = k
<1> DEFINE less == RemoveAt(list, i)
<1>1. /\ less \in Seq(Task)
      /\ Len(less) = Len(list) - 1
      /\ \A j \in 1..(Len(list) - 1) : less[j] = IF j < i THEN list[j] ELSE list[j + 1]
      /\ Len(list) \in Nat
  BY RemoveAtIs, LenProperties
<1> HIDE DEF less
<1>2. \A j \in 1..Len(less) : /\ Old(i, j) \in 1..Len(list) /\ Old(i, j) # i
                              /\ less[j] = list[Old(i, j)]
  BY <1>1 DEF Old
<1>3. \A j, k \in 1..Len(less) : j < k <=> Old(i, j) < Old(i, k)
  BY <1>1 DEF Old
<1>4. ASSUME NEW k \in 1..Len(list) \ {i}
      PROVE  \E j \in 1..Len(less) : Old(i, j) = k
  <2>1. CASE k < i
    <3>1. k \in 1..Len(less) /\ Old(i, k) = k
      BY <1>1, <2>1 DEF Old
    <3> QED BY <3>1
  <2>2. CASE i < k
    <3>1. k - 1 \in 1..Len(less) /\ Old(i, k - 1) = k
      BY <1>1, <2>2 DEF Old
    <3> QED BY <3>1
  <2> QED BY <2>1, <2>2
<1>5. /\ less \in Seq(Task)
      /\ \A j \in 1..Len(less) : /\ Old(i, j) \in 1..Len(list) /\ Old(i, j) # i
                                 /\ less[j] = list[Old(i, j)]
      /\ \A j, k \in 1..Len(less) : j < k <=> Old(i, j) < Old(i, k)
      /\ \A k \in 1..Len(list) \ {i} : \E j \in 1..Len(less) : Old(i, j) = k
  BY <1>1, <1>2, <1>3, <1>4
<1> QED BY <1>5 DEF less

\* Task i leaves.
LEMMA ListLeft ==
  ASSUME NEW list \in Seq(Task), NEW f, ListOK(list, f), NEW i \in 1..Len(list), NEW g,
         \A c \in Calls : g[c].cfg = f[c].cfg
  PROVE  ListOK(RemoveAt(list, i), g)
<1> DEFINE less == RemoveAt(list, i)
<1>1. /\ less \in Seq(Task)
      /\ \A j \in 1..Len(less) : /\ Old(i, j) \in 1..Len(list)
                                 /\ less[j] = list[Old(i, j)]
      /\ \A j, k \in 1..Len(less) : j < k <=> Old(i, j) < Old(i, k)
  <2> USE LeftInOrder
  <2>1. less \in Seq(Task)
    OBVIOUS
  <2>2. \A j \in 1..Len(less) : Old(i, j) \in 1..Len(list) /\ less[j] = list[Old(i, j)]
    OBVIOUS
  <2>3. \A j, k \in 1..Len(less) : j < k <=> Old(i, j) < Old(i, k)
    OBVIOUS
  <2> QED BY <2>1, <2>2, <2>3
<1> HIDE DEF less
<1>2. \A j \in 1..Len(less) : Fits(less[j], g)
  BY <1>1 DEF ListOK, Fits
<1>3. InOrder(less)
  BY <1>1 DEF ListOK, InOrder
<1> QED BY <1>2, <1>3 DEF ListOK, less

\* A task at the end of the list.
LEMMA PushedIs ==
  ASSUME NEW list \in Seq(Task), NEW t \in Task
  PROVE  /\ Append(list, t) \in Seq(Task)
         /\ Len(Append(list, t)) = Len(list) + 1 /\ Len(list) \in Nat
         /\ \A i \in 1..Len(list) : Append(list, t)[i] = list[i]
         /\ Append(list, t)[Len(list) + 1] = t
         /\ \A i \in 1..(Len(list) + 1) : i \in 1..Len(list) \/ i = Len(list) + 1
<1>1. Len(list) \in Nat
  BY LenProperties
<1>2. \A i \in 1..(Len(list) + 1) : i \in 1..Len(list) \/ i = Len(list) + 1
  BY <1>1
<1> QED BY <1>1, <1>2, AppendProperties

\* A task is made.
LEMMA ListPushed ==
  ASSUME NEW list \in Seq(Task), NEW f, ListOK(list, f), NEW t \in Task, Fits(t, f),
         t.live, t.st = "pending", NEW g, \A c \in Calls : g[c].cfg = f[c].cfg
  PROVE  ListOK(Append(list, t), g)
<1> DEFINE longer == Append(list, t)
<1>1. /\ Len(longer) = Len(list) + 1 /\ Len(list) \in Nat
      /\ \A i \in 1..Len(list) : longer[i] = list[i]
      /\ longer[Len(list) + 1] = t
      /\ \A i \in 1..Len(longer) : i \in 1..Len(list) \/ i = Len(list) + 1
  BY PushedIs
<1> HIDE DEF longer
<1>2. \A i \in 1..Len(longer) : i \in 1..Len(list) \/ i = Len(list) + 1
  BY <1>1
<1>3. \A i \in 1..Len(longer) : Fits(longer[i], g)
  BY <1>1, <1>2 DEF ListOK, Fits
<1>4. ASSUME NEW i \in 1..Len(longer), NEW j \in 1..Len(longer), i < j
      PROVE  /\ longer[i].live => longer[j].live
             /\ "reorder" \notin env.faults /\ Executed(longer[j]) => Executed(longer[i])
  <2>1. i \in 1..Len(list)
    BY <1>1, <1>4
  <2>2. CASE j = Len(list) + 1
    BY <1>1, <2>2 DEF Executed
  <2>3. CASE j \in 1..Len(list)
    BY <1>1, <1>4, <2>1, <2>3 DEF ListOK, InOrder
  <2> QED BY <1>2, <2>2, <2>3
<1>5. InOrder(longer)
  BY <1>4 DEF InOrder
<1> QED BY <1>3, <1>5 DEF ListOK, longer

\* Task i is executed, or fails.
LEMMA ListPlayed ==
  ASSUME NEW list \in Seq(Task), NEW f, ListOK(list, f), NEW i \in 1..Len(list),
         NEW t \in Task, t.kind = list[i].kind, t.call = list[i].call, t.live = list[i].live,
         t.force = list[i].force, t.kind = "store" => t.m = list[i].m,
         t.kind # "delete", Executed(t),
         \/ "reorder" \in env.faults
         \/ \A j \in 1..(i - 1) : Executed(list[j])
  PROVE  ListOK([list EXCEPT ![i] = t], f)
<1> DEFINE new == [list EXCEPT ![i] = t]
<1>1. /\ Len(new) = Len(list) /\ Len(list) \in Nat
      /\ \A j \in 1..Len(list) : new[j] = IF j = i THEN t ELSE list[j]
  BY ExceptSeq, LenProperties
<1> HIDE DEF new
<1>2. \A j \in 1..Len(new) : Fits(new[j], f)
  BY <1>1 DEF ListOK, Fits
<1>3. ASSUME NEW j \in 1..Len(list), NEW k \in 1..Len(list), j < k
      PROVE  /\ new[j].live => new[k].live
             /\ "reorder" \notin env.faults /\ Executed(new[k]) => Executed(new[j])
  <2>1. /\ list[j].live => list[k].live
        /\ "reorder" \notin env.faults /\ Executed(list[k]) => Executed(list[j])
    BY <1>3 DEF ListOK, InOrder
  <2>2. CASE k = i
    <3>1. j \in 1..(i - 1)
      BY <1>3, <2>2
    <3> QED BY <1>1, <1>3, <2>1, <2>2, <3>1
  <2>3. CASE k # i
    BY <1>1, <1>3, <2>1, <2>3
  <2> QED BY <2>2, <2>3
<1>4. InOrder(new)
  BY <1>1, <1>3 DEF InOrder
<1> QED BY <1>2, <1>4 DEF ListOK, new

\* The same list, while calls go on that no task waits for.
LEMMA ListKept ==
  ASSUME NEW list \in Seq(Task), NEW f, ListOK(list, f), NEW g,
         \A i \in 1..Len(list) : list[i].call \in Calls => g[list[i].call] = f[list[i].call]
  PROVE  ListOK(list, g)
BY DEF ListOK, Fits

\* Nobody waits for a call that Dart or a handler goes on with.
LEMMA NotAwaited ==
  ASSUME IInv, NEW c \in Calls, call[c].at # "platform"
  PROVE  \A i \in 1..Len(tasks) : tasks[i].call # c
BY DEF IInv, TasksOK, WaitedFor

\* Facts about every state.
LEMMA PKnown ==
  ASSUME PlayInv
  PROVE  /\ IInv /\ Dart(Trusted) /\ call \in [Calls -> CallState]
         /\ \A c \in Calls : CallOK(call[c], Trusted) /\ Runs(call[c], env)
         /\ NoMnemonic \notin Mnemonics /\ Garbage \notin Mnemonics \cup {NoMnemonic}
         /\ NoCall \notin Calls
         /\ tasks \in Seq(Task) /\ Len(tasks) \in Nat
         /\ \A i \in 1..Len(tasks) :
              /\ tasks[i] \in Task /\ TaskOK(tasks[i], Trusted) /\ Fits(tasks[i], call)
              /\ tasks[i].call \in Calls => WaitedFor(tasks[i], call[tasks[i].call])
         /\ \A i, j \in 1..Len(tasks) :
              tasks[i].call \in Calls /\ tasks[i].call = tasks[j].call => i = j
         /\ InOrder(tasks)
         /\ cloud \in Mnemonics \cup {NoMnemonic}
<1>1. IInv /\ AppOK /\ ListOK(tasks, call)
  BY DEF PlayInv
<1>2. tasks \in Seq(Task)
  BY <1>1 DEF IInv, TypeOK
<1>3. Len(tasks) \in Nat /\ \A i \in 1..Len(tasks) : tasks[i] \in Task
  BY <1>2, ElementOfSeq, LenProperties
<1>4. Dart(Trusted)
  BY <1>1, DartIs
<1> QED BY <1>1, <1>2, <1>3, <1>4, PhrasesAssumption, PlatformAssumption
        DEF IInv, TypeOK, DartTypeOK, CallsOK, AppOK, TasksOK, ListOK

\* What a step of Dart does.
LEMMA DartDoes ==
  ASSUME PlayInv, NEW c \in Calls, AppCalls(c) \/ Continuations(c), UNCHANGED androidVars
  PROVE  /\ \E s \in CallState : /\ Sends(c, s) /\ Goes(call[c], s, env)
                                 /\ Caches(call[c], cachedWallet, cachedWallet')
         /\ env' = env /\ call[c].at # "platform"
         /\ UNCHANGED <<cloud, prefs, disk, tasks, everStored>>
         /\ \A i \in 1..Len(tasks) : tasks[i].call # c
<1>1. Moves(Trusted, c)
  BY PKnown, AppCallsStep, ContinuationsStep
<1>2. env' = env /\ call[c].at # "platform"
  BY <1>1 DEF Moves
<1>3. DartGoes(c)
  BY PKnown, AppCallsGo, ContinuationsGo
<1> QED BY <1>2, <1>3, PKnown, NotAwaited DEF DartGoes, androidVars

LEMMA PlayDart ==
  ASSUME PlayInv, NEW c \in Calls, AppCalls(c) \/ Continuations(c), UNCHANGED androidVars
  PROVE  AppOK' /\ ListOK(tasks, call)'
<1>1. PICK s \in CallState : Sends(c, s) /\ Goes(call[c], s, env)
  BY DartDoes
<1>2. /\ env' = env /\ tasks' = tasks
      /\ call'[c] = s /\ \A d \in Calls \ {c} : call'[d] = call[d]
      /\ \A i \in 1..Len(tasks) : tasks[i].call # c
  BY <1>1, DartDoes, PKnown DEF Sends
<1>3. AppOK'
  BY <1>1, <1>2, PKnown DEF AppOK, Goes
<1>4. \A i \in 1..Len(tasks) : tasks[i].call \in Calls => call'[tasks[i].call] = call[tasks[i].call]
  BY <1>2
<1>5. ListOK(tasks, call')
  BY <1>4, PKnown, ListKept DEF PlayInv
<1>6. ListOK(tasks, call)'
  BY <1>2, <1>5 DEF ListOK, InOrder
<1> QED BY <1>3, <1>6

\* The task that a handler makes, by what its call waits for.
Makes(c, new) ==
  LET t == call[c] IN
  /\ tasks' = Append(tasks, new)
  /\ Fits(new, call) /\ new.live /\ new.st = "pending"
  /\ \/ /\ new.kind = "retrieve" /\ new.call = c /\ new.m = NoMnemonic
        /\ t.pc \in Reading \cup {"eligible"}
     \/ /\ new.kind = "delete" /\ new.call = NoCall
        /\ t.pc \in {"updDelete", "delete"}
     \/ /\ new.kind = "store" /\ new.call = (IF t.m \in Invalid THEN NoCall ELSE c)
        /\ new.m = t.m /\ new.force = t.cfg.rejectOnCloudSaveFailure
        /\ t.pc \in {"save", "updSave"} /\ t.cfg.saveToCloud

LEMMA TaskMade ==
  ASSUME PlayInv, NEW c \in Calls, NEW u \in CallState, Handled(c, u)
  PROVE  UNCHANGED tasks \/ \E new \in Task : Makes(c, new)
<1> DEFINE t == call[c]
<1>1. /\ t \in CallState /\ t.at = "channel" /\ t.pc \in Points /\ PlaysPart(c, u)
      /\ c # NoCall
  BY PKnown DEF Handled
<1>2. CASE t.pc \in Reading \cup {"eligible"} /\ tasks' = Append(tasks, ReadTask(c))
  <2>1. ReadTask(c) \in Task
    BY NewTaskType DEF ReadTask
  <2>2. Makes(c, ReadTask(c))
    BY <1>2, PKnown DEF Makes, ReadTask, NewTask, Fits
  <2> QED BY <2>1, <2>2
<1>3. CASE t.pc \in {"updDelete", "delete"} /\ tasks' = Append(tasks, DeleteTask)
  <2>1. DeleteTask \in Task
    BY NewTaskType DEF DeleteTask
  <2>2. Makes(c, DeleteTask)
    BY <1>3, PKnown DEF Makes, DeleteTask, NewTask, Fits
  <2> QED BY <2>1, <2>2
<1>4. ASSUME t.pc \in {"save", "updSave"}, t.cfg.saveToCloud,
             NEW d, d = IF t.m \in Invalid THEN NoCall ELSE c,
             tasks' = Append(tasks, StoreOf(t, d))
      PROVE  \E new \in Task : Makes(c, new)
  <2>1. t.m \in Mnemonics /\ t.cfg.rejectOnCloudSaveFailure \in BOOLEAN
    BY <1>1, <1>4, PKnown DEF CallOK, Carrying, CallState, StorageConfig
  <2>2. StoreOf(t, d) \in Task
    BY <1>4, <2>1, NewTaskType DEF StoreOf
  <2> DEFINE new == StoreOf(t, d)
  <2>3. /\ new.kind = "store" /\ new.call = d /\ new.m = t.m /\ new.live = TRUE
        /\ new.force = t.cfg.rejectOnCloudSaveFailure /\ new.st = "pending"
        /\ tasks' = Append(tasks, new)
    BY <1>4 DEF StoreOf, NewTask
  <2> HIDE DEF new
  <2>4. Fits(new, call)
    BY <1>4, <2>3, PKnown DEF Fits
  <2>5. Makes(c, new)
    BY <1>4, <2>3, <2>4 DEF Makes
  <2> QED BY <2>2, <2>5 DEF new
<1>5. CASE t.pc \in {"save", "updSave"} /\ SaveHandled(c, u)
  <2>1. \/ UNCHANGED tasks
        \/ t.cfg.saveToCloud /\ t.m \notin Invalid /\ tasks' = Append(tasks, StoreOf(t, c))
        \/ t.cfg.saveToCloud /\ t.m \in Invalid /\ tasks' = Append(tasks, StoreOf(t, NoCall))
    BY <1>5 DEF SaveHandled
  <2> QED BY <1>4, <1>5, <2>1
<1> QED BY <1>1, <1>2, <1>3, <1>5 DEF PlaysPart

LEMMA PlayHandled ==
  ASSUME PlayInv, NEW c \in Calls, NEW u \in CallState, Handled(c, u)
  PROVE  AppOK' /\ ListOK(tasks, call)'
<1> DEFINE t == call[c]
<1>1. /\ t \in CallState /\ t.at = "channel" /\ env' = env
      /\ call'[c] = u /\ SameCall(u, t) /\ \A d \in Calls \ {c} : call'[d] = call[d]
  BY PKnown DEF Handled
<1>2. AppOK'
  BY <1>1, PKnown DEF AppOK, SameCall, Runs
<1>3. \A d \in Calls : call'[d].cfg = call[d].cfg
  BY <1>1 DEF SameCall
<1>4. ListOK(tasks', call')
  <2>1. CASE UNCHANGED tasks
    <3>1. \A i \in 1..Len(tasks) :
            tasks[i].call \in Calls => call'[tasks[i].call] = call[tasks[i].call]
      BY <1>1, PKnown, NotAwaited
    <3> QED BY <2>1, <3>1, PKnown, ListKept DEF PlayInv
  <2>2. CASE \E new \in Task : Makes(c, new)
    BY <1>3, <2>2, PKnown, ListPushed DEF PlayInv, Makes
  <2> QED BY <2>1, <2>2, TaskMade
<1> QED BY <1>1, <1>2, <1>4 DEF ListOK, InOrder

LEMMA PlayExecuted ==
  ASSUME PlayInv, NEW i \in 1..Len(tasks), NEW t \in Task, Played(i, t)
  PROVE  AppOK' /\ ListOK(tasks, call)'
<1>1. UNCHANGED <<env, call>> /\ Becomes(i, t) /\ Executed(t)
      /\ \/ "reorder" \in env.faults
         \/ \A j \in 1..(i - 1) : Executed(tasks[j])
  BY DEF Played, dartVars, InTurn, Executed
<1>2. AppOK'
  BY <1>1, PKnown DEF AppOK
<1>3. ListOK(tasks', call)
  <2>1. CASE HasListener(t)
    <3>1. tasks' = [tasks EXCEPT ![i] = t] /\ t.kind # "delete"
      BY <1>1, <2>1 DEF Becomes, Settle, HasListener
    <3>2. ListOK([tasks EXCEPT ![i] = t], call)
      BY <1>1, <3>1, PKnown, ListPlayed DEF PlayInv, Becomes
    <3> QED BY <3>1, <3>2
  <2>2. CASE ~HasListener(t)
    BY <1>1, <2>2, PKnown, ListLeft DEF PlayInv, Becomes, Settle
  <2> QED BY <2>1, <2>2
<1> QED BY <1>1, <1>2, <1>3 DEF ListOK, InOrder

\* The call that is told keeps what it carries.
LEMMA InformedIs ==
  ASSUME PlayInv, NEW i \in 1..Len(tasks), NEW ok \in BOOLEAN, NEW val \in Values, Informs(i, ok, val)
  PROVE  LET c == tasks[i].call IN
         /\ c \in Calls /\ call[c].at = "platform" /\ call[c] \in CallState /\ call'[c] \in CallState
         /\ SameCall(call'[c], call[c]) /\ call'[c].at = "reply"
         /\ call'[c].ok = ok /\ call'[c].val = val
         /\ \A d \in Calls \ {c} : call'[d] = call[d]
<1> DEFINE c == tasks[i].call
<1>1. c \in Calls /\ call[c].at = "platform" /\ call[c] \in CallState
  BY PKnown DEF Informs, WaitedFor
<1> DEFINE u == Answered(call[c], ok, val)
<1>2. call[c] \in CallState /\ val \in Mnemonics \cup {NoMnemonic} \cup BOOLEAN
  BY <1>1 DEF Values
<1>3. /\ u \in CallState /\ u.at = "reply" /\ u.ok = ok /\ u.val = val
      /\ u.pc = call[c].pc /\ u.m = call[c].m /\ u.r = call[c].r
  <2> HIDE DEF c
  <2> QED BY <1>2, AnsweredType
<1>4. u.op = call[c].op /\ u.cfg = call[c].cfg /\ u.overwrite = call[c].overwrite
  <2> HIDE DEF c
  <2> QED BY <1>2, AnsweredKeeps
<1>5. call' = [call EXCEPT ![c] = u]
  BY DEF Informs
<1> HIDE DEF u
<1>6. SameCall(u, call[c])
  BY <1>3, <1>4 DEF SameCall
<1>7. call'[c] = u /\ \A d \in Calls \ {c} : call'[d] = call[d]
  BY <1>1, <1>5, PKnown
<1> QED BY <1>1, <1>3, <1>6, <1>7

LEMMA PlayReports ==
  ASSUME PlayInv, NEW i \in 1..Len(tasks), Reports(i)
  PROVE  AppOK' /\ ListOK(tasks, call)'
<1>1. tasks' = RemoveAt(tasks, i) /\ env' = env
  BY DEF Reports
<1>2. \A c \in Calls : SameCall(call'[c], call[c])
  <2>1. CASE UNCHANGED call
    BY <2>1 DEF SameCall
  <2>2. CASE \E ok \in BOOLEAN, val \in Values : Informs(i, ok, val)
    <3>1. PICK ok \in BOOLEAN, val \in Values : Informs(i, ok, val)
      BY <2>2
    <3> QED BY <3>1, InformedIs DEF SameCall
  <2> QED BY <2>1, <2>2 DEF Reports
<1>3. AppOK'
  BY <1>1, <1>2, PKnown DEF AppOK, SameCall, Runs
<1>4. ListOK(RemoveAt(tasks, i), call')
  BY <1>2, PKnown, ListLeft DEF PlayInv, SameCall
<1> QED BY <1>1, <1>3, <1>4 DEF ListOK, InOrder

\* The orphaned tasks.
LEMMA OrphansAre ==
  ASSUME PlayInv, NEW n \in 0..Len(tasks), tasks' = OrphanedTasks(n)
  PROVE  /\ tasks' \in Seq(Task) /\ Len(tasks') = n
         /\ \A i \in 1..n : /\ i \in 1..Len(tasks) /\ tasks'[i] \in Task
                            /\ tasks'[i].kind = tasks[i].kind /\ tasks'[i].st = tasks[i].st
                            /\ tasks'[i].m = tasks[i].m /\ tasks'[i].force = tasks[i].force
                            /\ tasks'[i].call = NoCall /\ tasks'[i].live = FALSE
<1>1. n \in Nat /\ \A i \in 1..n : i \in 1..Len(tasks) /\ tasks[i] \in Task
  BY PKnown
<1> DEFINE new(i) == [tasks[i] EXCEPT !.live = FALSE, !.call = NoCall]
<1>2. ASSUME NEW i \in 1..n
      PROVE  /\ new(i) \in Task
             /\ new(i).kind = tasks[i].kind /\ new(i).st = tasks[i].st
             /\ new(i).m = tasks[i].m /\ new(i).force = tasks[i].force
             /\ new(i).call = NoCall /\ new(i).live = FALSE
  BY <1>1 DEF Task
<1>3. tasks' = [i \in 1..n |-> new(i)]
  BY DEF OrphanedTasks
<1> HIDE DEF new
<1>4. tasks' \in [1..n -> Task] /\ \A i \in 1..n : tasks'[i] = new(i)
  BY <1>2, <1>3
<1>5. tasks' \in Seq(Task) /\ Len(tasks') = n
  BY <1>1, <1>4, FunctionIsSeq
<1> QED BY <1>1, <1>2, <1>4, <1>5

\* The process has ended.
LEMMA PlayEnds ==
  ASSUME PlayInv, DartKilled,
         \/ tasks' = <<>>
         \/ \E n \in 0..Len(tasks) : tasks' = OrphanedTasks(n)
  PROVE  AppOK' /\ ListOK(tasks, call)'
<1>1. env' = env /\ \A c \in Calls : call'[c] = Idle
  BY DEF DartKilled
<1>2. Idle.pc \notin Points
  BY PointsAre DEF Idle, Ended
<1>3. AppOK'
  BY <1>1, <1>2 DEF AppOK, Runs
<1>4. ListOK(tasks', call')
  <2>1. CASE tasks' = <<>>
    BY <2>1 DEF ListOK, InOrder
  <2>2. CASE \E n \in 0..Len(tasks) : tasks' = OrphanedTasks(n)
    <3>1. PICK n \in 0..Len(tasks) : tasks' = OrphanedTasks(n)
      BY <2>2
    <3>2. /\ Len(tasks') = n
          /\ \A i \in 1..n : /\ i \in 1..Len(tasks)
                             /\ tasks'[i].kind = tasks[i].kind /\ tasks'[i].st = tasks[i].st
                             /\ tasks'[i].call = NoCall /\ tasks'[i].live = FALSE
      BY <3>1, OrphansAre
    <3>3. \A i \in 1..Len(tasks') : Fits(tasks'[i], call')
      BY <3>2, PKnown DEF Fits
    <3>4. InOrder(tasks')
      BY <3>2, PKnown DEF InOrder, Executed
    <3> QED BY <3>3, <3>4 DEF ListOK
  <2> QED BY <2>1, <2>2
<1> QED BY <1>1, <1>3, <1>4 DEF ListOK, InOrder

LEMMA PlayInitially ==
  Init => PlayInv
<1> SUFFICES ASSUME Init PROVE PlayInv
  OBVIOUS
<1>1. (\A c \in Calls : call[c] = Idle) /\ tasks = <<>>
  BY DEF Init, DartInit
<1>2. Idle.pc \notin Points
  BY PointsAre DEF Idle, Ended
<1>3. AppOK
  BY <1>1, <1>2 DEF AppOK, Runs
<1>4. ListOK(tasks, call)
  BY <1>1 DEF ListOK, InOrder
<1> QED BY <1>3, <1>4, Initially DEF PlayInv

\* The steps, for what is proved about each of them.
LEMMA StepsAre ==
  ASSUME PlayInv, [Next]_vars
  PROVE  \/ \E c \in Calls : (AppCalls(c) \/ Continuations(c)) /\ UNCHANGED androidVars
         \/ \E c \in Calls, u \in CallState : Handled(c, u)
         \/ \E i \in 1..Len(tasks), t \in Task : Played(i, t)
         \/ \E i \in 1..Len(tasks) : Reports(i)
         \/ AppKilled
         \/ DeviceRestored
         \/ UNCHANGED <<env, cachedWallet, call, channel, replies, cloud, prefs, disk, tasks, everStored>>
<1>1. IInv
  BY DEF PlayInv
<1>2. ASSUME NEW c \in Calls, Handlers(c)
      PROVE  \E d \in Calls, u \in CallState : Handled(d, u)
  BY <1>1, <1>2, HandlersDo
<1>3. ASSUME NEW i \in 1..Len(tasks), ExecuteTask(i) \/ TaskFails(i)
      PROVE  \E j \in 1..Len(tasks), t \in Task : Played(j, t)
  BY <1>1, <1>3, TasksPlayed
<1>4. ASSUME NEW i \in 1..Len(tasks), Listeners(i)
      PROVE  \E j \in 1..Len(tasks) : Reports(j)
  BY <1>1, <1>4, ListenersReport
<1>5. CASE EndToEndEncryptionAvailable \/ UNCHANGED vars
  BY <1>5 DEF EndToEndEncryptionAvailable, vars, dartVars, androidVars
<1> QED BY <1>2, <1>3, <1>4, <1>5 DEF Next

LEMMA PlayInductive ==
  PlayInv /\ [Next]_vars => PlayInv'
<1> SUFFICES ASSUME PlayInv, [Next]_vars PROVE PlayInv'
  OBVIOUS
<1>1. IInv'
  BY Inductive DEF PlayInv
<1>2. AppOK' /\ ListOK(tasks, call)'
  <2>1. CASE UNCHANGED <<env, cachedWallet, call, channel, replies, cloud, prefs, disk, tasks, everStored>>
    BY <2>1 DEF PlayInv, AppOK, ListOK, InOrder
  <2>2. CASE AppKilled \/ DeviceRestored
    BY <2>2, PlayEnds DEF AppKilled, DeviceRestored
  <2> QED BY <2>1, <2>2, StepsAre, PlayDart, PlayHandled, PlayExecuted, PlayReports
<1> QED BY <1>1, <1>2 DEF PlayInv


-----------------------------------------------------------------------------
(* The preferences, while wallets are moved.                               *)

\* A call that is to delete the cloud copy, or is about to be, has seen to it that the
\* preferences' file holds a phrase; so has every delete that Block Store has been asked
\* for.  The file is what the map is.
PrefsHeld ==
  SafeMoves(env) =>
    /\ prefs = disk
    /\ \A c \in Calls :
         \/ call[c].pc = "updDelete"
         \/ call[c].pc = "updSave" /\ call[c].at = "reply" /\ call[c].ok /\ ~call[c].cfg.saveToCloud
         => disk \in Mnemonics
    /\ \A i \in 1..Len(tasks) : tasks[i].kind = "delete" => disk \in Mnemonics

PrefsInv == PlayInv /\ PrefsHeld

\* Where commit() does not fail, the file is what the map is.
LEMMA CommitIs ==
  ASSUME "commit" \notin env.faults, NEW m, Commit(m)
  PROVE  prefs' = m /\ disk' = m
BY DEF Commit

\* No call deletes the wallet that the app does not have deleted.
LEMMA NoDelete ==
  ASSUME PlayInv, "permanentlyDeleteWallet" \notin env.ops, NEW c \in Calls
  PROVE  call[c].pc # "delete"
BY PKnown, PointsAre DEF Runs, Waits

\* What a handler leaves in the preferences, where commit() does not fail.
LEMMA HandlerWrites ==
  ASSUME PlayInv, NEW c \in Calls, NEW u \in CallState, Handled(c, u),
         "commit" \notin env.faults, call[c].pc # "delete"
  PROVE  \/ UNCHANGED <<prefs, disk, everStored>>
         \/ /\ call[c].m \in Mnemonics /\ prefs' = call[c].m /\ disk' = call[c].m
            /\ call[c].pc \in {"save", "updSave"} /\ everStored' = everStored \cup {call[c].m}
            /\ ~call[c].cfg.rejectOnCloudSaveFailure /\ UNCHANGED tasks
            /\ u.at = "reply" /\ (u.ok <=> call[c].m \notin Invalid)
<1> DEFINE t == call[c]
<1>1. PlaysPart(c, u) /\ CallOK(t, Trusted)
  BY PKnown DEF Handled
<1>2. CASE t.pc \in {"save", "updSave"}
  <2>1. t.m \in Mnemonics
    BY <1>1, <1>2 DEF CallOK, Carrying
  <2>2. SaveHandled(c, u)
    BY <1>1, <1>2 DEF PlaysPart, Reading
  <2>3. CASE /\ ~t.cfg.rejectOnCloudSaveFailure
             /\ u.at = "reply" /\ (u.ok <=> t.m \notin Invalid)
             /\ UNCHANGED tasks /\ Writes(t.m)
    <3>1. prefs' = t.m /\ disk' = t.m /\ everStored' = everStored \cup ({t.m} \cap Mnemonics)
      BY <2>3, CommitIs DEF Writes, saveToSharedPref
    <3> QED BY <1>2, <2>1, <2>3, <3>1
  <2> QED BY <2>2, <2>3 DEF SaveHandled, StoresSame
<1>3. CASE t.pc \notin {"save", "updSave"}
  BY <1>1, <1>3 DEF PlaysPart, StoresSame
<1> QED BY <1>2, <1>3

LEMMA PrefsDart ==
  ASSUME PrefsInv, NEW c \in Calls, AppCalls(c) \/ Continuations(c), UNCHANGED androidVars
  PROVE  PrefsHeld'
<1>1. PlayInv
  BY DEF PrefsInv
<1>2. PICK s \in CallState : Sends(c, s) /\ Goes(call[c], s, env)
  BY <1>1, DartDoes
<1>3. /\ UNCHANGED <<env, prefs, disk, tasks>>
      /\ call'[c] = s /\ \A d \in Calls \ {c} : call'[d] = call[d]
      /\ s.at # "reply"
  BY <1>1, <1>2, DartDoes, PKnown DEF Sends
<1> SUFFICES ASSUME SafeMoves(env), NEW d \in Calls,
                    \/ call'[d].pc = "updDelete"
                    \/ /\ call'[d].pc = "updSave" /\ call'[d].at = "reply" /\ call'[d].ok
                       /\ ~call'[d].cfg.saveToCloud
             PROVE  disk \in Mnemonics
  BY <1>3 DEF PrefsInv, PrefsHeld
<1>4. CASE d # c
  BY <1>3, <1>4 DEF PrefsInv, PrefsHeld
<1>5. CASE d = c
  <2>1. Heard(call[c], "updSave") /\ ~call[c].cfg.saveToCloud
    BY <1>2, <1>3, <1>5 DEF Goes
  <2> QED BY <2>1 DEF Heard, PrefsInv, PrefsHeld
<1> QED BY <1>4, <1>5

LEMMA PrefsHandled ==
  ASSUME PrefsInv, NEW c \in Calls, NEW u \in CallState, Handled(c, u)
  PROVE  PrefsHeld'
<1> DEFINE t == call[c]
<1>1. PlayInv
  BY DEF PrefsInv
<1>2. /\ env' = env /\ PlaysPart(c, u) /\ SameCall(u, t)
      /\ call'[c] = u /\ \A d \in Calls \ {c} : call'[d] = call[d]
      /\ CallOK(t, Trusted)
  BY <1>1, PKnown DEF Handled
<1> SUFFICES ASSUME SafeMoves(env) PROVE PrefsHeld'
  BY <1>2 DEF PrefsHeld
<1>3. /\ prefs = disk
      /\ \A d \in Calls :
           \/ call[d].pc = "updDelete"
           \/ call[d].pc = "updSave" /\ call[d].at = "reply" /\ call[d].ok /\ ~call[d].cfg.saveToCloud
           => disk \in Mnemonics
      /\ \A i \in 1..Len(tasks) : tasks[i].kind = "delete" => disk \in Mnemonics
  BY DEF PrefsInv, PrefsHeld
<1>4. "commit" \notin env.faults /\ t.pc # "delete"
  BY <1>1, NoDelete DEF SafeMoves
<1>5. \/ UNCHANGED <<prefs, disk>>
      \/ t.m \in Mnemonics /\ prefs' = t.m /\ disk' = t.m
  BY <1>1, <1>4, HandlerWrites
<1>6. prefs' = disk' /\ (disk \in Mnemonics => disk' \in Mnemonics)
  BY <1>3, <1>5
<1>7. ASSUME NEW d \in Calls,
             \/ call'[d].pc = "updDelete"
             \/ /\ call'[d].pc = "updSave" /\ call'[d].at = "reply" /\ call'[d].ok
                /\ ~call'[d].cfg.saveToCloud
      PROVE  disk' \in Mnemonics
  <2>1. CASE d # c \/ u.pc = "updDelete"
    BY <1>2, <1>3, <1>6, <1>7, <2>1 DEF SameCall
  <2>2. CASE d = c /\ u.pc = "updSave"
    <3>1. t.pc = "updSave" /\ ~t.cfg.saveToCloud /\ u.at = "reply" /\ u.ok
      BY <1>2, <1>7, <2>2 DEF SameCall
    <3>2. SaveHandled(c, u)
      BY <1>2, <3>1 DEF PlaysPart, Reading
    <3>3. Writes(t.m)
      BY <3>1, <3>2 DEF SaveHandled
    <3>4. t.m \in Mnemonics
      BY <1>2, <3>1 DEF CallOK, Carrying
    <3> QED BY <1>4, <3>3, <3>4, CommitIs DEF Writes, saveToSharedPref
  <2> QED BY <1>2, <1>7, <2>1, <2>2
<1>8. ASSUME NEW i \in 1..Len(tasks'), tasks'[i].kind = "delete"
      PROVE  disk' \in Mnemonics
  <2>1. CASE UNCHANGED tasks
    BY <1>3, <1>6, <1>8, <2>1
  <2>2. CASE \E new \in Task : Makes(c, new)
    <3>1. PICK new \in Task : Makes(c, new)
      BY <2>2
    <3>2. tasks \in Seq(Task) /\ tasks' = Append(tasks, new)
      BY <1>1, <3>1, PKnown DEF Makes
    <3>3. CASE i \in 1..Len(tasks)
      BY <1>3, <1>6, <1>8, <3>2, <3>3, PushedIs
    <3>4. CASE i = Len(tasks) + 1
      <4>1. new.kind = "delete"
        BY <1>8, <3>2, <3>4, PushedIs
      <4>2. t.pc = "updDelete"
        BY <1>4, <3>1, <4>1 DEF Makes
      <4> QED BY <1>3, <1>6, <4>2
    <3> QED BY <3>2, <3>3, <3>4, PushedIs
  <2> QED BY <1>1, <2>1, <2>2, TaskMade
<1> QED BY <1>6, <1>7, <1>8 DEF PrefsHeld

LEMMA PrefsExecuted ==
  ASSUME PrefsInv, NEW i \in 1..Len(tasks), NEW t \in Task, Played(i, t)
  PROVE  PrefsHeld'
<1>1. PlayInv /\ tasks \in Seq(Task)
  BY PKnown DEF PrefsInv
<1>2. UNCHANGED <<env, call, prefs, disk>> /\ Becomes(i, t)
  BY DEF Played, dartVars
<1> SUFFICES ASSUME SafeMoves(env), NEW j \in 1..Len(tasks'), tasks'[j].kind = "delete"
             PROVE  disk \in Mnemonics
  BY <1>2 DEF PrefsInv, PrefsHeld
<1>3. \E k \in 1..Len(tasks) : tasks[k].kind = "delete"
  <2>1. CASE HasListener(t)
    <3>1. tasks' = [tasks EXCEPT ![i] = t] /\ t.kind = tasks[i].kind
      BY <1>2, <2>1 DEF Becomes, Settle
    <3> QED BY <1>1, <3>1, ExceptSeq
  <2>2. CASE ~HasListener(t)
    <3>1. tasks' = RemoveAt(tasks, i)
      BY <1>2, <2>2 DEF Becomes, Settle
    <3> QED BY <1>1, <3>1, LeftInOrder
  <2> QED BY <2>1, <2>2
<1> QED BY <1>3 DEF PrefsInv, PrefsHeld

\* What a listener leaves in the preferences, where commit() does not fail.
LEMMA ReportWrites ==
  ASSUME PlayInv, NEW i \in 1..Len(tasks), Reports(i), "commit" \notin env.faults
  PROVE  \/ UNCHANGED <<prefs, disk, everStored>>
         \/ prefs = Garbage /\ prefs' = NoMnemonic /\ disk' = NoMnemonic /\ UNCHANGED everStored
         \/ /\ tasks[i].m \in Mnemonics /\ prefs' = tasks[i].m /\ disk' = tasks[i].m
            /\ tasks[i].kind = "store" /\ tasks[i].live
            /\ tasks[i].st = "failed" /\ ~tasks[i].force
            /\ everStored' = everStored \cup {tasks[i].m}
<1> DEFINE t == tasks[i]
<1>1. t.kind = "store" => t.m \in Mnemonics
  BY PKnown DEF TaskOK
<1>2. CASE t.kind = "retrieve" /\ t.live /\ prefs = Garbage /\ Commit(NoMnemonic) /\ UNCHANGED everStored
  BY <1>2, CommitIs
<1>3. CASE t.kind = "store" /\ t.live /\ t.st = "failed" /\ ~t.force /\ Writes(t.m)
  <2>1. prefs' = t.m /\ disk' = t.m /\ everStored' = everStored \cup ({t.m} \cap Mnemonics)
    BY <1>3, CommitIs DEF Writes, saveToSharedPref
  <2> QED BY <1>1, <1>3, <2>1
<1> QED BY <1>2, <1>3 DEF Reports

LEMMA PrefsReports ==
  ASSUME PrefsInv, NEW i \in 1..Len(tasks), Reports(i)
  PROVE  PrefsHeld'
<1> DEFINE t == tasks[i]
<1>1. PlayInv /\ tasks \in Seq(Task) /\ Garbage \notin Mnemonics
  BY PKnown DEF PrefsInv
<1>2. tasks' = RemoveAt(tasks, i) /\ env' = env
  BY DEF Reports
<1> SUFFICES ASSUME SafeMoves(env) PROVE PrefsHeld'
  BY <1>2 DEF PrefsHeld
<1>3. /\ prefs = disk
      /\ \A d \in Calls :
           \/ call[d].pc = "updDelete"
           \/ call[d].pc = "updSave" /\ call[d].at = "reply" /\ call[d].ok /\ ~call[d].cfg.saveToCloud
           => disk \in Mnemonics
      /\ \A j \in 1..Len(tasks) : tasks[j].kind = "delete" => disk \in Mnemonics
  BY DEF PrefsInv, PrefsHeld
<1>4. prefs' = disk' /\ (disk \in Mnemonics => disk' \in Mnemonics)
  <2>1. "commit" \notin env.faults
    BY DEF SafeMoves
  <2> QED BY <1>1, <1>3, <2>1, ReportWrites
<1>5. ASSUME NEW j \in 1..Len(tasks'), tasks'[j].kind = "delete"
      PROVE  disk' \in Mnemonics
  <2>1. \E k \in 1..Len(tasks) : tasks[k].kind = "delete"
    BY <1>1, <1>2, <1>5, LeftInOrder
  <2> QED BY <1>3, <1>4, <2>1
<1>6. ASSUME NEW d \in Calls,
             \/ call'[d].pc = "updDelete"
             \/ /\ call'[d].pc = "updSave" /\ call'[d].at = "reply" /\ call'[d].ok
                /\ ~call'[d].cfg.saveToCloud
      PROVE  \/ call[d].pc = "updDelete"
             \/ /\ call[d].pc = "updSave" /\ call[d].at = "reply" /\ call[d].ok
                /\ ~call[d].cfg.saveToCloud
  <2>1. CASE UNCHANGED call
    BY <1>6, <2>1
  <2>2. CASE \E ok \in BOOLEAN, val \in Values : Informs(i, ok, val)
    <3>1. PICK ok \in BOOLEAN, val \in Values : Informs(i, ok, val)
      BY <2>2
    <3> DEFINE c == t.call
    <3>2. /\ c \in Calls /\ SameCall(call'[c], call[c])
          /\ \A b \in Calls \ {c} : call'[b] = call[b]
      BY <1>1, <3>1, InformedIs
    <3>3. call[c].pc = "updSave" => call[c].cfg.saveToCloud
      <4>1. WaitedFor(t, call[c]) /\ Fits(t, call) /\ c # NoCall
        BY <1>1, <3>2, PKnown
      <4>2. t.kind \in {"retrieve", "store"}
        BY <3>2, <4>1 DEF Reports, Fits
      <4> QED BY <3>2, <4>1, <4>2 DEF WaitedFor, Fits, Reading
    <3> QED BY <1>6, <3>2, <3>3 DEF SameCall
  <2> QED BY <2>1, <2>2 DEF Reports
<1> QED BY <1>3, <1>4, <1>5, <1>6 DEF PrefsHeld

LEMMA PrefsEnds ==
  ASSUME PrefsInv, AppKilled \/ DeviceRestored
  PROVE  PrefsHeld'
<1>1. PlayInv
  BY DEF PrefsInv
<1>2. /\ env' = env /\ prefs' = disk' /\ \A c \in Calls : call'[c] = Idle
  BY DEF AppKilled, DeviceRestored, DartKilled
<1>3. Idle.pc = "returned"
  BY DEF Idle, Ended
<1> SUFFICES ASSUME SafeMoves(env), NEW i \in 1..Len(tasks'), tasks'[i].kind = "delete"
             PROVE  disk' \in Mnemonics
  BY <1>2, <1>3 DEF PrefsHeld
<1>4. CASE DeviceRestored
  <2>1. tasks' = <<>>
    BY <1>4 DEF DeviceRestored
  <2> QED BY <2>1
<1>5. CASE AppKilled
  <2>1. PICK n \in 0..Len(tasks) : tasks' = OrphanedTasks(n)
    BY <1>5 DEF AppKilled
  <2>2. i \in 1..Len(tasks) /\ tasks[i].kind = "delete"
    BY <1>1, <2>1, OrphansAre
  <2>3. disk' = disk
    BY <1>5 DEF AppKilled
  <2> QED BY <2>2, <2>3 DEF PrefsInv, PrefsHeld
<1> QED BY <1>4, <1>5

LEMMA PrefsInitially ==
  Init => PrefsInv
<1> SUFFICES ASSUME Init PROVE PrefsInv
  OBVIOUS
<1>1. /\ \A c \in Calls : call[c].pc = "returned"
      /\ prefs = disk /\ tasks = <<>>
  BY DEF Init, DartInit, Idle, Ended
<1>2. PrefsHeld
  BY <1>1 DEF PrefsHeld
<1> QED BY <1>2, PlayInitially DEF PrefsInv

LEMMA PrefsInductive ==
  PrefsInv /\ [Next]_vars => PrefsInv'
<1> SUFFICES ASSUME PrefsInv, [Next]_vars PROVE PrefsInv'
  OBVIOUS
<1>1. PlayInv /\ PlayInv'
  BY PlayInductive DEF PrefsInv
<1>2. PrefsHeld'
  <2>1. CASE UNCHANGED <<env, cachedWallet, call, channel, replies, cloud, prefs, disk, tasks, everStored>>
    BY <2>1 DEF PrefsInv, PrefsHeld
  <2> QED BY <1>1, <2>1, StepsAre, PrefsDart, PrefsHandled, PrefsExecuted, PrefsReports, PrefsEnds
<1> QED BY <1>1, <1>2 DEF PrefsInv

\* The environment never changes.
LEMMA SameEnv ==
  ASSUME PlayInv, [Next]_vars
  PROVE  env' = env
<1>1. ASSUME NEW c \in Calls, (AppCalls(c) \/ Continuations(c)) /\ UNCHANGED androidVars
      PROVE  env' = env
  BY <1>1, DartDoes
<1> QED BY <1>1, StepsAre DEF Handled, Played, Reports, AppKilled, DeviceRestored, DartKilled, dartVars

\* The invariant of the preferences holds in every state.
THEOREM PrefsInvariant ==
  Spec => []PrefsInv
<1> QED BY PrefsInitially, PrefsInductive, PTL DEF Spec

\* While nothing deletes the wallet and the preferences' file is written when it should
\* be: any number of concurrent moves, Block Store calls that fail or are executed out of
\* order, and processes that end leave the only wallet ever stored in Block Store or in
\* the file.  A delete that nobody waits for finds the phrase in the file, whenever it is
\* executed.
THEOREM NeverLostByMoves ==
  Spec => NeverLost
<1> DEFINE Stays(m) == everStored' = {m} /\ m \in {cloud, disk} => m \in {cloud', disk'}
<1>1. ASSUME PrefsInv, PrefsInv', [Next]_vars, SafeMoves(env), ~DeviceRestored, NEW m \in Mnemonics
      PROVE  Stays(m)
  <2> SUFFICES ASSUME everStored' = {m}, m \in {cloud, disk} PROVE m \in {cloud', disk'}
    OBVIOUS
  <2>1. /\ PlayInv /\ "commit" \notin env.faults /\ "permanentlyDeleteWallet" \notin env.ops
        /\ prefs = disk /\ \A i \in 1..Len(tasks) : tasks[i].kind = "delete" => disk \in Mnemonics
        /\ NoMnemonic \notin Mnemonics /\ Garbage \notin Mnemonics
    BY <1>1, PKnown DEF PrefsInv, PrefsHeld, SafeMoves
  <2>2. env' = env
    BY <1>1, <2>1, SameEnv
  <2>3. cloud' \in {m, NoMnemonic} /\ disk' \in {m, NoMnemonic, Garbage}
    BY <1>1, <2>1, <2>2 DEF PrefsInv, PlayInv, IInv, StoresOK, Trusted
  <2>4. CASE UNCHANGED <<cloud, disk>>
    BY <2>4
  <2>5. ASSUME NEW c \in Calls, (AppCalls(c) \/ Continuations(c)) /\ UNCHANGED androidVars
        PROVE  UNCHANGED <<cloud, disk>>
    BY <2>5 DEF androidVars
  <2>6. ASSUME NEW c \in Calls, NEW u \in CallState, Handled(c, u)
        PROVE  m \in {cloud', disk'}
    <3>1. call[c].pc # "delete" /\ cloud' = cloud
      BY <2>1, <2>6, NoDelete DEF Handled
    <3>2. disk' = disk \/ disk' \in Mnemonics
      BY <2>1, <2>6, <3>1, HandlerWrites
    <3> QED BY <2>1, <2>3, <3>1, <3>2
  <2>7. ASSUME NEW i \in 1..Len(tasks), NEW t \in Task, Played(i, t)
        PROVE  m \in {cloud', disk'}
    <3>1. disk' = disk /\ t.kind = tasks[i].kind
      BY <2>7 DEF Played, Becomes
    <3>2. CASE cloud' = cloud
      BY <3>1, <3>2
    <3>3. CASE t.kind = "store" /\ cloud' = t.m
      <4>1. t.m \in Mnemonics
        BY <2>1, <2>7, <3>1, <3>3, PKnown DEF Played, Becomes, TaskOK
      <4> QED BY <2>1, <2>3, <3>3, <4>1
    <3>4. CASE t.kind = "delete"
      BY <2>1, <2>3, <3>1, <3>4
    <3> QED BY <2>7, <3>2, <3>3, <3>4 DEF Played
  <2>8. ASSUME NEW i \in 1..Len(tasks), Reports(i)
        PROVE  m \in {cloud', disk'}
    <3>1. cloud' = cloud
      BY <2>8 DEF Reports
    <3>2. \/ disk' = disk
          \/ prefs = Garbage
          \/ disk' \in Mnemonics
      BY <2>1, <2>8, ReportWrites
    <3> QED BY <2>1, <2>3, <3>1, <3>2
  <2>9. AppKilled => UNCHANGED <<cloud, disk>>
    BY DEF AppKilled
  <2> QED BY <1>1, <2>1, <2>4, <2>5, <2>6, <2>7, <2>8, <2>9, StepsAre
<1>2. PrefsInv /\ PrefsInv' /\ [Next]_vars
        => (SafeMoves(env) => DeviceRestored \/ \A m \in Mnemonics : Stays(m))
  BY <1>1
<1>3. Spec => [][SafeMoves(env) =>
                   \/ DeviceRestored
                   \/ \A m \in Mnemonics : Stays(m)]_vars
  BY <1>2, PrefsInvariant, PTL DEF Spec
<1> QED BY <1>3 DEF NeverLost

-----------------------------------------------------------------------------
(* An app that awaits each call.                                           *)

Deleting(list) == \E i \in 1..Len(list) : list[i].kind = "delete"

\* No store is under way that no call waits for.
Clean(list) == \A i \in 1..Len(list) : list[i].kind = "store" => list[i].call \in Calls

\* The one task that is waited for was made last, and what it says is what is in Block
\* Store when it says so.
Steadily(list, settled) ==
  \A i \in 1..Len(list) :
    /\ list[i].live
    /\ list[i].call \in Calls => /\ i = Len(list)
                                 /\ list[i].st = "ok" => list[i].m = settled
    /\ list[i].kind = "retrieve" => list[i].st # "failed"

\* How far a call has come, with what is in Block Store and what the preferences hold: a
\* move has read the stored phrase, has saved it, has asked for the cloud copy to be
\* deleted; a save that was to reject is in Block Store.
Tracks(s, settled, held, clean) ==
  LET stored == IF settled # NoMnemonic THEN settled ELSE held IN
  /\ s.pc = "updRead" /\ s.at = "reply" /\ s.ok => s.val = stored /\ clean
  /\ s.pc = "updSave" /\ (s.at # "reply" \/ s.ok) => s.m = stored /\ clean
  /\ s.pc = "updSave" /\ s.at = "reply" /\ s.ok /\ ~s.cfg.saveToCloud => held = stored
  /\ s.pc = "updDelete" => held = stored /\ stored # NoMnemonic /\ clean
  /\ s.pc = "updDelete" /\ s.at = "reply" => settled = NoMnemonic
  /\ /\ (s.pc = "save" /\ s.at = "reply" /\ s.ok) \/ s.pc = "makeKey"
     /\ s.cfg.saveToCloud /\ s.cfg.rejectOnCloudSaveFailure
     => settled = s.m /\ clean

SteadyOK ==
  Steady(env) =>
    /\ Alone
    /\ Steadily(tasks, SettledCloud)
    /\ \A c \in Calls : Tracks(call[c], SettledCloud, PrefsPhrase, Clean(tasks))

SteadyInv == PlayInv /\ SteadyOK

MovePoints == {"updRead", "updSave", "updDelete"}

\* What is stored stays, while a move runs and no invalid phrase is stored.
StoredStays ==
  /\ Steady(env) /\ everStored' \cap Invalid = {}
  /\ \E c \in Calls : call[c].pc \in MovePoints
  => Stored' = Stored

LEMMA SteadyOnes ==
  ASSUME Steady(env)
  PROVE  /\ env.serial
         /\ \A kind \in {"retrieve", "delete", "commit", "reorder", "kill", "restore"} :
              kind \notin env.faults
BY DEF Steady

\* The deletes under way are not executed yet.
LEMMA SettledIs ==
  /\ PlayInv => SettledCloud = IF Deleting(tasks) THEN NoMnemonic ELSE cloud
  /\ PlayInv' => SettledCloud' = IF Deleting(tasks') THEN NoMnemonic ELSE cloud'
<1>1. ASSUME NEW list \in Seq(Task), NEW f, ListOK(list, f)
      PROVE  (\E i \in DOMAIN list : list[i].kind = "delete" /\ list[i].st = "pending")
               <=> Deleting(list)
  <2>1. DOMAIN list = 1..Len(list)
    BY LenProperties
  <2> QED BY <1>1, <2>1 DEF ListOK, Fits, Deleting
<1>2. PlayInv => tasks \in Seq(Task) /\ ListOK(tasks, call)
  BY DEF PlayInv, IInv, TypeOK
<1>3. PlayInv' => tasks' \in Seq(Task) /\ \A i \in 1..Len(tasks') : Fits(tasks'[i], call')
  BY DEF PlayInv, IInv, TypeOK, ListOK
<1>4. PlayInv' => DOMAIN tasks' = 1..Len(tasks')
  BY <1>3, LenProperties
<1>5. PlayInv' => SettledCloud' = IF Deleting(tasks') THEN NoMnemonic ELSE cloud'
  BY <1>3, <1>4 DEF SettledCloud, Deleting, Fits
<1> QED BY <1>1, <1>2, <1>5 DEF SettledCloud

\* The lists that tasks join, change in and leave.
LEMMA PushedTo ==
  ASSUME NEW list \in Seq(Task), NEW t \in Task
  PROVE  /\ Deleting(Append(list, t)) <=> Deleting(list) \/ t.kind = "delete"
         /\ Clean(Append(list, t)) <=> Clean(list) /\ (t.kind = "store" => t.call \in Calls)
<1> DEFINE longer == Append(list, t)
<1>1. /\ Len(longer) = Len(list) + 1 /\ Len(list) \in Nat
      /\ \A i \in 1..Len(list) : longer[i] = list[i]
      /\ longer[Len(list) + 1] = t
      /\ \A i \in 1..Len(longer) : i \in 1..Len(list) \/ i = Len(list) + 1
  BY PushedIs
<1> HIDE DEF longer
<1>2. Len(list) + 1 \in 1..Len(longer) /\ \A i \in 1..Len(list) : i \in 1..Len(longer)
  BY <1>1
<1>3. /\ Deleting(longer) <=> Deleting(list) \/ t.kind = "delete"
      /\ Clean(longer) <=> Clean(list) /\ (t.kind = "store" => t.call \in Calls)
  BY <1>1, <1>2 DEF Deleting, Clean
<1> QED BY <1>3 DEF longer

LEMMA ChangedIn ==
  ASSUME NEW list \in Seq(Task), NEW i \in 1..Len(list), NEW t \in Task,
         t.kind = list[i].kind, t.call = list[i].call
  PROVE  LET new == [list EXCEPT ![i] = t] IN
         /\ Len(new) = Len(list)
         /\ \A j \in 1..Len(list) : new[j] = IF j = i THEN t ELSE list[j]
         /\ Deleting(new) <=> Deleting(list)
         /\ Clean(new) <=> Clean(list)
<1> DEFINE new == [list EXCEPT ![i] = t]
<1>1. /\ Len(new) = Len(list)
      /\ \A j \in 1..Len(list) : new[j] = IF j = i THEN t ELSE list[j]
  BY ExceptSeq
<1> HIDE DEF new
<1>2. /\ Deleting(new) <=> Deleting(list)
      /\ Clean(new) <=> Clean(list)
  BY <1>1 DEF Deleting, Clean
<1> QED BY <1>1, <1>2 DEF new

LEMMA LeftBehind ==
  ASSUME NEW list \in Seq(Task), NEW i \in 1..Len(list)
  PROVE  LET less == RemoveAt(list, i) IN
         /\ Len(less) = Len(list) - 1
         /\ Deleting(list) <=> Deleting(less) \/ list[i].kind = "delete"
         /\ Clean(list) => Clean(less)
<1> DEFINE less == RemoveAt(list, i)
<1>1. Len(less) = Len(list) - 1
  BY RemoveAtIs
<1>2. \A j \in 1..Len(less) : /\ Old(i, j) \in 1..Len(list)
                              /\ less[j] = list[Old(i, j)]
  BY LeftInOrder
<1>3. \A k \in 1..Len(list) \ {i} : \E j \in 1..Len(less) : Old(i, j) = k
  BY LeftInOrder
<1> HIDE DEF less
<1>4. Clean(list) => Clean(less)
  BY <1>2 DEF Clean
<1>5. Deleting(less) => Deleting(list)
  BY <1>2 DEF Deleting
<1>6. Deleting(list) => Deleting(less) \/ list[i].kind = "delete"
  BY <1>2, <1>3 DEF Deleting
<1>7. list[i].kind = "delete" => Deleting(list)
  BY DEF Deleting
<1> QED BY <1>1, <1>4, <1>5, <1>6, <1>7 DEF less

\* The awaited task stays the last, and what it says stays true, when another leaves.
LEMMA SteadilyLeft ==
  ASSUME NEW list \in Seq(Task), NEW i \in 1..Len(list), NEW settled, Steadily(list, settled),
         list[i].call \notin Calls
  PROVE  Steadily(RemoveAt(list, i), settled)
<1> DEFINE less == RemoveAt(list, i)
<1>1. Len(less) = Len(list) - 1 /\ Len(list) \in Nat
  BY RemoveAtIs, LenProperties
<1>2. \A j \in 1..Len(less) : /\ Old(i, j) \in 1..Len(list)
                              /\ less[j] = list[Old(i, j)]
  BY LeftInOrder
<1> HIDE DEF less
<1>3. ASSUME NEW j \in 1..Len(less), less[j].call \in Calls
      PROVE  j = Len(less)
  <2>1. Old(i, j) = Len(list)
    BY <1>2, <1>3 DEF Steadily
  <2> QED BY <1>1, <2>1 DEF Old
<1>4. Steadily(less, settled)
  BY <1>2, <1>3 DEF Steadily
<1> QED BY <1>4 DEF less

\* Calls that have ended, and calls that a stray store would disturb.
LEMMA RestTracks ==
  ASSUME NEW s, s.pc \in Finished, NEW settled, NEW held, NEW clean
  PROVE  Tracks(s, settled, held, clean)
BY DEF Tracks, Finished

LEMMA StrayTracks ==
  ASSUME NEW s, NEW settled, NEW held, Tracks(s, settled, held, FALSE),
         NEW settled2, NEW held2, NEW clean2
  PROVE  Tracks(s, settled2, held2, clean2)
BY DEF Tracks

LEMMA CleanTracks ==
  ASSUME NEW s, NEW settled, NEW held, NEW clean \in BOOLEAN, Tracks(s, settled, held, clean),
         NEW clean2 \in BOOLEAN, clean => clean2
  PROVE  Tracks(s, settled, held, clean2)
BY DEF Tracks

\* Facts about every state of such an app.
LEMMA SKnown ==
  ASSUME SteadyInv, Steady(env)
  PROVE  /\ PlayInv /\ Alone /\ Steadily(tasks, SettledCloud)
         /\ \A c \in Calls : Tracks(call[c], SettledCloud, PrefsPhrase, Clean(tasks))
         /\ SettledCloud = (IF Deleting(tasks) THEN NoMnemonic ELSE cloud)
         /\ Stored = (IF SettledCloud # NoMnemonic THEN SettledCloud ELSE PrefsPhrase)
BY SettledIs DEF SteadyInv, SteadyOK, Stored

\* While c runs, the others rest.
LEMMA OthersRest ==
  ASSUME PlayInv, Alone, NEW c \in Calls, call[c].at # "none", NEW d \in Calls \ {c}
  PROVE  call[d].pc \in Finished /\ call[d].at = "none"
<1>1. CallOK(call[c], Trusted) /\ CallOK(call[d], Trusted)
  BY PKnown
<1>2. Active(c)
  BY <1>1 DEF CallOK, Active
<1> QED BY <1>1, <1>2 DEF Alone, Active, CallOK

LEMMA SteadyDart ==
  ASSUME SteadyInv, NEW c \in Calls, AppCalls(c) \/ Continuations(c), UNCHANGED androidVars
  PROVE  SteadyOK' /\ StoredStays
<1> DEFINE t == call[c]
<1>1. PlayInv
  BY DEF SteadyInv
<1>2. PICK s \in CallState : Sends(c, s) /\ Goes(t, s, env)
  BY <1>1, DartDoes
<1>3. /\ UNCHANGED <<env, cloud, prefs, tasks>>
      /\ call'[c] = s /\ \A d \in Calls \ {c} : call'[d] = call[d]
      /\ s.at # "reply"
  BY <1>1, <1>2, DartDoes, PKnown DEF Sends
<1>4. SettledCloud' = SettledCloud /\ PrefsPhrase' = PrefsPhrase /\ Stored' = Stored
  BY <1>3 DEF SettledCloud, PrefsPhrase, Stored
<1> SUFFICES ASSUME Steady(env)
             PROVE  /\ Alone'
                    /\ \A d \in Calls : Tracks(call'[d], SettledCloud, PrefsPhrase, Clean(tasks))
  BY <1>3, <1>4, SKnown DEF SteadyOK, StoredStays, Clean, Steadily
<1>5. Alone'
  BY <1>1, PKnown, SKnown, SteadyOnes, StaysAlone
<1>6. Tracks(t, SettledCloud, PrefsPhrase, Clean(tasks))
  BY SKnown
<1>7. /\ s.pc = "updSave" => Heard(t, "updRead") /\ s.m = t.val /\ t.val # NoMnemonic
      /\ s.pc = "updDelete" => Heard(t, "updSave") /\ ~t.cfg.saveToCloud
      /\ s.pc = "makeKey" => Heard(t, "save") /\ s.m = t.m /\ s.cfg = t.cfg
  <2>1. s.pc = "makeKey" => s.at = "channel"
    BY <1>2 DEF Sends, Finished
  <2> QED BY <1>2, <2>1 DEF Goes, Heard
<1>8. t.pc = "updSave" => t.m # NoMnemonic
  BY <1>1, PKnown DEF CallOK, Carrying
<1>9. Tracks(s, SettledCloud, PrefsPhrase, Clean(tasks))
  BY <1>3, <1>6, <1>7, <1>8 DEF Tracks, Heard
<1> QED BY <1>3, <1>5, <1>9, SKnown

\* What a handler does to what is in Block Store, once the deletes are executed.
LEMMA HandlerSettles ==
  ASSUME PlayInv, PlayInv', NEW c \in Calls, NEW u \in CallState, Handled(c, u)
  PROVE  LET t == call[c] IN
         /\ t.pc \notin {"updDelete", "delete"} => SettledCloud' = SettledCloud
         /\ t.pc \in {"updDelete", "delete"} => SettledCloud' = NoMnemonic
         /\ Clean(tasks) /\ (t.pc \in {"save", "updSave"} => t.m \notin Invalid) => Clean(tasks')
<1> DEFINE t == call[c]
<1>1. /\ cloud' = cloud /\ tasks \in Seq(Task)
      /\ SettledCloud = (IF Deleting(tasks) THEN NoMnemonic ELSE cloud)
      /\ SettledCloud' = (IF Deleting(tasks') THEN NoMnemonic ELSE cloud')
  BY PKnown, SettledIs DEF Handled
<1>2. CASE UNCHANGED tasks /\ t.pc \notin {"updDelete", "delete"}
  BY <1>1, <1>2
<1>3. CASE \E new \in Task : Makes(c, new)
  <2>1. PICK new \in Task : Makes(c, new)
    BY <1>3
  <2>2. /\ Deleting(tasks') <=> Deleting(tasks) \/ new.kind = "delete"
        /\ Clean(tasks') <=> Clean(tasks) /\ (new.kind = "store" => new.call \in Calls)
    BY <1>1, <2>1, PushedTo DEF Makes
  <2>3. /\ t.pc \notin {"updDelete", "delete"} => new.kind # "delete"
        /\ t.pc \in {"updDelete", "delete"} => new.kind = "delete"
        /\ new.kind = "store" => /\ t.pc \in {"save", "updSave"}
                                 /\ t.m \notin Invalid => new.call = c
    BY <2>1 DEF Makes, Reading
  <2> QED BY <1>1, <2>2, <2>3
<1>4. t.pc \in {"updDelete", "delete"} => tasks' # tasks
  <2> SUFFICES ASSUME t.pc \in {"updDelete", "delete"} PROVE tasks' # tasks
    OBVIOUS
  <2>1. tasks' = Append(tasks, DeleteTask)
    BY DEF Handled, PlaysPart, Reading
  <2>2. DeleteTask \in Task
    BY NewTaskType DEF DeleteTask
  <2>3. Len(tasks') = Len(tasks) + 1 /\ Len(tasks) \in Nat
    BY <1>1, <2>1, <2>2, PushedIs
  <2> QED BY <2>3
<1> QED BY <1>2, <1>3, <1>4, TaskMade

LEMMA SteadyHandled ==
  ASSUME SteadyInv, PlayInv', NEW c \in Calls, NEW u \in CallState, Handled(c, u)
  PROVE  SteadyOK' /\ StoredStays
<1> DEFINE t == call[c]
<1>1. /\ PlayInv /\ env' = env /\ PlaysPart(c, u) /\ SameCall(u, t) /\ t \in CallState
      /\ t.at = "channel" /\ t.pc \in Points /\ NoMnemonic \notin Mnemonics /\ Garbage \notin Mnemonics
      /\ call'[c] = u /\ \A d \in Calls \ {c} : call'[d] = call[d]
      /\ CallOK(t, Trusted) /\ tasks \in Seq(Task) /\ Len(tasks) \in Nat
  BY PKnown DEF Handled, SteadyInv
<1> SUFFICES ASSUME Steady(env)
             PROVE  /\ Alone' /\ Steadily(tasks', SettledCloud')
                    /\ \A d \in Calls : Tracks(call'[d], SettledCloud', PrefsPhrase', Clean(tasks'))
                    /\ t.pc \in MovePoints => Stored' = Stored
  <2>1. ASSUME Steady(env), t.pc \notin MovePoints, NEW d \in Calls
        PROVE  call[d].pc \notin MovePoints
    <3>1. d # c => call[d].pc \in Finished
      BY <1>1, <2>1, OthersRest, SKnown
    <3> QED BY <2>1, <3>1 DEF MovePoints, Finished
  <2> QED BY <1>1, <2>1 DEF SteadyOK, StoredStays, Steadily, Clean
<1>2. /\ Alone /\ Steadily(tasks, SettledCloud)
      /\ Tracks(t, SettledCloud, PrefsPhrase, Clean(tasks))
      /\ Stored = (IF SettledCloud # NoMnemonic THEN SettledCloud ELSE PrefsPhrase)
      /\ Stored' = (IF SettledCloud' # NoMnemonic THEN SettledCloud' ELSE PrefsPhrase')
  BY SKnown DEF Stored
<1>3. \A d \in Calls \ {c} : call[d].pc \in Finished /\ call[d].at = "none"
  BY <1>1, <1>2, OthersRest
<1>4. Alone'
  BY <1>1, <1>2, <1>3 DEF Alone, Active, SameCall
<1>5. \A i \in 1..Len(tasks) : tasks[i].call \notin Calls
  BY <1>1, <1>3, PKnown DEF WaitedFor
<1>6. Steadily(tasks', SettledCloud')
  <2>1. CASE UNCHANGED tasks
    BY <1>2, <1>5, <2>1 DEF Steadily
  <2>2. CASE \E new \in Task : Makes(c, new)
    <3>1. PICK new \in Task : Makes(c, new)
      BY <2>2
    <3>2. /\ Len(tasks') = Len(tasks) + 1
          /\ \A i \in 1..Len(tasks) : tasks'[i] = tasks[i]
          /\ tasks'[Len(tasks) + 1] = new /\ new.live /\ new.st = "pending"
          /\ \A i \in 1..(Len(tasks) + 1) : i \in 1..Len(tasks) \/ i = Len(tasks) + 1
      BY <1>1, <3>1, PushedIs DEF Makes
    <3> QED BY <1>2, <1>5, <3>2 DEF Steadily
  <2> QED BY <1>1, <2>1, <2>2, TaskMade
<1>7. /\ t.pc \notin {"updDelete", "delete"} => SettledCloud' = SettledCloud
      /\ t.pc = "updDelete" => SettledCloud' = NoMnemonic
      /\ Clean(tasks) /\ (t.pc \in {"save", "updSave"} => t.m \notin Invalid) => Clean(tasks')
  BY <1>1, HandlerSettles
<1>8. t.pc # "delete" =>
        \/ UNCHANGED <<prefs, disk, everStored>>
        \/ /\ t.m \in Mnemonics /\ prefs' = t.m
           /\ t.pc \in {"save", "updSave"} /\ ~t.cfg.rejectOnCloudSaveFailure
           /\ u.at = "reply" /\ (u.ok <=> t.m \notin Invalid)
  BY <1>1, HandlerWrites, SteadyOnes
<1>9. t.pc # "delete" =>
        \/ PrefsPhrase' = PrefsPhrase
        \/ /\ t.m \in Mnemonics /\ PrefsPhrase' = t.m
           /\ t.pc \in {"save", "updSave"} /\ ~t.cfg.rejectOnCloudSaveFailure
           /\ u.at = "reply" /\ (u.ok <=> t.m \notin Invalid)
  BY <1>1, <1>8 DEF PrefsPhrase
<1>10. /\ Tracks(u, SettledCloud', PrefsPhrase', Clean(tasks'))
       /\ t.pc \in MovePoints => Stored' = Stored
  <2> USE <1>1, <1>2, <1>7, <1>9 DEF SameCall
  <2>1. CASE t.pc = "updRead"
    <3>1. u.at = "platform" /\ PrefsPhrase' = PrefsPhrase
      BY <2>1 DEF PlaysPart, Reading
    <3> QED BY <2>1, <3>1 DEF Tracks, MovePoints
  <2>2. CASE t.pc = "updSave"
    <3>1. t.m = Stored /\ Clean(tasks)
      BY <2>2 DEF Tracks
    <3>2. Stored' = Stored
      BY <2>2, <3>1
    <3>3. /\ u.at = "reply" /\ u.ok => PrefsPhrase' = t.m /\ t.m \notin Invalid
          /\ u.at # "reply" => t.m \notin Invalid
      <4>1. SaveHandled(c, u)
        BY <2>2 DEF PlaysPart, Reading
      <4>2. ASSUME Writes(t.m) PROVE PrefsPhrase' = t.m
        <5>1. prefs' = t.m /\ t.m \in Mnemonics
          BY <2>2, <4>2 DEF Writes, saveToSharedPref, Commit, CallOK, Carrying
        <5> QED BY <5>1 DEF PrefsPhrase
      <4> QED BY <4>1, <4>2 DEF SaveHandled
    <3> QED BY <2>2, <3>1, <3>2, <3>3 DEF Tracks
  <2>3. CASE t.pc = "updDelete"
    <3>1. PrefsPhrase = Stored /\ Stored # NoMnemonic /\ Clean(tasks)
      BY <2>3 DEF Tracks
    <3>2. PrefsPhrase' = PrefsPhrase /\ SettledCloud' = NoMnemonic /\ Clean(tasks')
      BY <2>3, <3>1
    <3> QED BY <2>3, <3>1, <3>2 DEF Tracks
  <2>4. CASE t.pc = "save"
    <3>1. SaveHandled(c, u)
      BY <2>4 DEF PlaysPart, Reading
    <3>2. ~(u.at = "reply" /\ u.ok /\ t.cfg.rejectOnCloudSaveFailure)
      BY <3>1 DEF SaveHandled
    <3> QED BY <2>4, <3>2 DEF Tracks, MovePoints
  <2>5. CASE t.pc = "makeKey"
    <3>1. SettledCloud' = SettledCloud /\ (Clean(tasks) => Clean(tasks'))
      BY <2>5
    <3> QED BY <2>5, <3>1 DEF Tracks, MovePoints
  <2>6. CASE t.pc \notin MovePoints \cup {"save", "makeKey"}
    BY <2>6 DEF Tracks, MovePoints
  <2> QED BY <2>1, <2>2, <2>3, <2>4, <2>5, <2>6 DEF MovePoints
<1>11. \A d \in Calls \ {c} : Tracks(call'[d], SettledCloud', PrefsPhrase', Clean(tasks'))
  BY <1>1, <1>3, RestTracks
<1> QED BY <1>1, <1>4, <1>6, <1>10, <1>11

\* Every task before task i is executed: none of them is a delete.
LEMMA EarlierExecuted ==
  ASSUME PlayInv, NEW i \in 1..Len(tasks), \A j \in 1..(i - 1) : Executed(tasks[j]),
         i = Len(tasks), tasks[i].kind # "delete"
  PROVE  ~Deleting(tasks)
<1>1. ASSUME NEW j \in 1..Len(tasks), tasks[j].kind = "delete" PROVE FALSE
  <2>1. tasks[j].st = "pending"
    BY <1>1, PKnown DEF Fits
  <2>2. j \in 1..(i - 1)
    BY <1>1, PKnown
  <2> QED BY <2>1, <2>2 DEF Executed
<1> QED BY <1>1 DEF Deleting

\* What Play services does to what is in Block Store.
LEMMA ExecutionSettles ==
  ASSUME SteadyInv, Steady(env), PlayInv', NEW i \in 1..Len(tasks), NEW t \in Task, Played(i, t)
  PROVE  /\ t.kind = tasks[i].kind /\ t.call = tasks[i].call /\ t.live
         /\ \/ t.kind # "delete" /\ tasks' = [tasks EXCEPT ![i] = t]
            \/ t.kind = "delete" /\ tasks' = RemoveAt(tasks, i)
         /\ ~(t.kind = "store" /\ t.st = "ok") => SettledCloud' = SettledCloud
         /\ t.call \in Calls /\ t.st = "ok" => t.m = SettledCloud'
         /\ Clean(tasks) => Clean(tasks')
<1>1. /\ PlayInv /\ Steadily(tasks, SettledCloud)
      /\ SettledCloud = (IF Deleting(tasks) THEN NoMnemonic ELSE cloud)
      /\ SettledCloud' = (IF Deleting(tasks') THEN NoMnemonic ELSE cloud')
      /\ tasks \in Seq(Task)
  BY SKnown, SettledIs, PKnown
<1>2. /\ t.kind = tasks[i].kind /\ t.call = tasks[i].call /\ t.live = tasks[i].live
      /\ Settle(i, t)
      /\ t.kind = "store" => t.m = tasks[i].m
      /\ "reorder" \notin env.faults => \A j \in 1..(i - 1) : Executed(tasks[j])
  BY DEF Played, Becomes, InTurn
<1>3. t.live /\ \A j \in 1..(i - 1) : Executed(tasks[j])
  BY <1>1, <1>2, SteadyOnes DEF Steadily
<1>4. CASE t.kind # "delete"
  <2>1. tasks' = [tasks EXCEPT ![i] = t]
    BY <1>2, <1>3, <1>4 DEF Settle, HasListener
  <2>2. (Deleting(tasks') <=> Deleting(tasks)) /\ (Clean(tasks') <=> Clean(tasks))
    BY <1>1, <1>2, <2>1, ChangedIn
  <2>3. t.kind = "retrieve" \/ t.st = "failed" => cloud' = cloud
    BY <1>4 DEF Played
  <2>4. t.call \in Calls => ~Deleting(tasks)
    <3>1. t.call \in Calls => i = Len(tasks)
      BY <1>1, <1>2 DEF Steadily
    <3> QED BY <1>1, <1>2, <1>3, <1>4, <3>1, EarlierExecuted
  <2>5. t.kind = "store" \/ t.kind = "retrieve"
    BY <1>4 DEF Task
  <2>6. t.st = "ok" => t.m = cloud'
    BY <1>4, <2>5 DEF Played
  <2>7. t.st \in {"ok", "failed"}
    BY DEF Played
  <2> QED BY <1>1, <1>2, <1>3, <1>4, <2>1, <2>2, <2>3, <2>4, <2>5, <2>6, <2>7
<1>5. CASE t.kind = "delete"
  <2>1. tasks' = RemoveAt(tasks, i)
    BY <1>2, <1>5 DEF Settle, HasListener
  <2>2. (Clean(tasks) => Clean(tasks')) /\ Deleting(tasks)
    BY <1>1, <1>2, <1>5, <2>1, LeftBehind
  <2>3. cloud' = NoMnemonic
    BY <1>5, SteadyOnes DEF Played
  <2>4. t.call \notin Calls
    BY <1>1, <1>2, <1>5, PKnown DEF TaskOK
  <2> QED BY <1>1, <1>2, <1>3, <1>5, <2>1, <2>2, <2>3, <2>4
<1> QED BY <1>4, <1>5

LEMMA SteadyExecuted ==
  ASSUME SteadyInv, PlayInv', NEW i \in 1..Len(tasks), NEW t \in Task, Played(i, t)
  PROVE  SteadyOK' /\ StoredStays
<1>1. /\ UNCHANGED <<env, call, prefs>> /\ tasks[i].st = "pending"
      /\ PrefsPhrase' = PrefsPhrase
  BY DEF Played, dartVars, PrefsPhrase
<1> SUFFICES ASSUME Steady(env)
             PROVE  /\ Alone /\ Steadily(tasks', SettledCloud')
                    /\ \A d \in Calls : Tracks(call[d], SettledCloud', PrefsPhrase, Clean(tasks'))
                    /\ /\ everStored' \cap Invalid = {}
                       /\ \E c \in Calls : call[c].pc \in MovePoints
                       => Stored' = Stored
  BY <1>1 DEF SteadyOK, StoredStays, Alone, Active, Steadily, Clean
<1>2. /\ PlayInv /\ Alone /\ Steadily(tasks, SettledCloud)
      /\ \A c \in Calls : Tracks(call[c], SettledCloud, PrefsPhrase, Clean(tasks))
      /\ Stored = (IF SettledCloud # NoMnemonic THEN SettledCloud ELSE PrefsPhrase)
      /\ Stored' = (IF SettledCloud' # NoMnemonic THEN SettledCloud' ELSE PrefsPhrase')
      /\ tasks \in Seq(Task) /\ Len(tasks) \in Nat
      /\ NoMnemonic \notin Mnemonics
  BY SKnown, PKnown DEF Stored
<1>3. /\ t.kind = tasks[i].kind /\ t.call = tasks[i].call /\ t.live
      /\ \/ t.kind # "delete" /\ tasks' = [tasks EXCEPT ![i] = t]
         \/ t.kind = "delete" /\ tasks' = RemoveAt(tasks, i)
      /\ ~(t.kind = "store" /\ t.st = "ok") => SettledCloud' = SettledCloud
      /\ t.call \in Calls /\ t.st = "ok" => t.m = SettledCloud'
      /\ Clean(tasks) => Clean(tasks')
  BY ExecutionSettles
<1>4. Steadily(tasks', SettledCloud')
  <2>1. CASE t.kind # "delete" /\ tasks' = [tasks EXCEPT ![i] = t]
    <3>1. /\ Len(tasks') = Len(tasks)
          /\ \A j \in 1..Len(tasks) : tasks'[j] = IF j = i THEN t ELSE tasks[j]
      BY <1>2, <1>3, <2>1, ChangedIn
    <3>2. t.kind = "retrieve" => t.st # "failed"
      BY SteadyOnes DEF Played
    <3>3. ASSUME NEW j \in 1..Len(tasks), j # i, tasks[j].call \in Calls, tasks[j].st = "ok"
          PROVE  FALSE
      <4>1. i < j /\ Executed(tasks[j])
        BY <1>2, <3>3 DEF Steadily, Executed
      <4>2. Executed(tasks[i])
        BY <1>2, <4>1, PKnown, SteadyOnes DEF InOrder
      <4> QED BY <1>1, <4>2 DEF Executed
    <3> QED BY <1>2, <1>3, <3>1, <3>2, <3>3 DEF Steadily
  <2>2. CASE t.kind = "delete" /\ tasks' = RemoveAt(tasks, i)
    <3>1. tasks[i].call \notin Calls
      BY <1>2, <1>3, <2>2, PKnown DEF TaskOK
    <3> QED BY <1>2, <1>3, <2>2, <3>1, SteadilyLeft
  <2> QED BY <1>3, <2>1, <2>2
<1>5. CASE SettledCloud' = SettledCloud
  <2>1. Clean(tasks) \in BOOLEAN /\ Clean(tasks') \in BOOLEAN
    BY DEF Clean
  <2> QED BY <1>1, <1>2, <1>3, <1>4, <1>5, <2>1, CleanTracks
<1>6. CASE t.kind = "store" /\ t.st = "ok" /\ t.call \notin Calls
  <2>1. ~Clean(tasks)
    BY <1>3, <1>6 DEF Clean
  <2>2. \A c \in Calls : Tracks(call[c], SettledCloud', PrefsPhrase, Clean(tasks'))
    <3>1. Clean(tasks) = FALSE
      BY <2>1 DEF Clean
    <3> QED BY <1>2, <3>1, StrayTracks
  <2>3. t.m \in Invalid /\ t.m \in everStored'
    <3>1. t.m = tasks[i].m /\ everStored' = everStored \cup ({t.m} \cap Mnemonics)
      BY <1>6 DEF Played, Becomes
    <3>2. tasks[i].call = NoCall /\ tasks[i].m \in Invalid /\ tasks[i].m \in Mnemonics
      BY <1>2, <1>3, <1>6, PKnown DEF Fits, TaskOK, Steadily, Task
    <3> QED BY <3>1, <3>2
  <2> QED BY <1>2, <1>4, <2>2, <2>3
<1>7. CASE t.kind = "store" /\ t.st = "ok" /\ t.call \in Calls
  <2> DEFINE c == t.call
  <2>1. /\ c \in Calls /\ call[c].at = "platform" /\ call[c].pc \in {"save", "updSave"}
        /\ t.m = call[c].m /\ t.m \in Mnemonics
    <3>1. WaitedFor(tasks[i], call[c]) /\ TaskOK(tasks[i], Trusted) /\ t.m = tasks[i].m
      BY <1>2, <1>3, <1>7, PKnown DEF Played, Becomes
    <3> QED BY <1>3, <1>7, <3>1 DEF WaitedFor, TaskOK
  <2>2. \A d \in Calls \ {c} : call[d].pc \in Finished
    BY <1>2, <2>1, OthersRest
  <2>3. SettledCloud' = t.m /\ SettledCloud' # NoMnemonic
    BY <1>2, <1>3, <1>7, <2>1
  <2>4. Tracks(call[c], SettledCloud, PrefsPhrase, Clean(tasks))
    BY <1>2, <2>1
  <2>5. Tracks(call[c], SettledCloud', PrefsPhrase, Clean(tasks'))
    BY <1>3, <2>1, <2>3, <2>4 DEF Tracks
  <2>6. call[c].pc = "updSave" => Stored' = Stored
    BY <1>2, <2>1, <2>3, <2>4 DEF Tracks
  <2>7. \A d \in Calls : Tracks(call[d], SettledCloud', PrefsPhrase, Clean(tasks'))
    BY <2>2, <2>5, RestTracks
  <2>8. (\E d \in Calls : call[d].pc \in MovePoints) => call[c].pc = "updSave"
    BY <2>1, <2>2 DEF MovePoints, Finished
  <2> QED BY <1>2, <1>4, <2>6, <2>7, <2>8
<1> QED BY <1>3, <1>5, <1>6, <1>7

\* A task that a call waits for reports when it is the only one.
LEMMA ReportsLast ==
  ASSUME SteadyInv, Steady(env), NEW i \in 1..Len(tasks), Reports(i), tasks[i].call \in Calls
  PROVE  i = 1 /\ Len(tasks) = 1
<1>1. /\ PlayInv /\ tasks[i].live /\ i = Len(tasks) /\ InOrder(tasks) /\ Len(tasks) \in Nat
  BY SKnown, PKnown DEF Steadily
<1>2. Executed(tasks[i]) /\ \A j \in 1..(i - 1) : ~Executed(tasks[j])
  BY <1>1, SteadyOnes DEF Reports, InTurn, Executed, NotExecuted
<1>3. \A j \in 1..(i - 1) : Executed(tasks[j])
  BY <1>1, <1>2, SteadyOnes DEF InOrder
<1>4. ~(1 \in 1..(i - 1))
  BY <1>2, <1>3
<1> QED BY <1>1, <1>4

LEMMA SteadyReports ==
  ASSUME SteadyInv, PlayInv', NEW i \in 1..Len(tasks), Reports(i)
  PROVE  SteadyOK' /\ StoredStays
<1> DEFINE t == tasks[i]
<1>1. /\ UNCHANGED <<env, cloud>> /\ tasks' = RemoveAt(tasks, i) /\ Executed(t)
  BY DEF Reports
<1> SUFFICES ASSUME Steady(env)
             PROVE  /\ Alone' /\ Steadily(tasks', SettledCloud')
                    /\ \A d \in Calls : Tracks(call'[d], SettledCloud', PrefsPhrase', Clean(tasks'))
                    /\ /\ everStored' \cap Invalid = {}
                       /\ \E c \in Calls : call[c].pc \in MovePoints
                       => Stored' = Stored
  BY <1>1 DEF SteadyOK, StoredStays, Steadily, Clean
<1>2. /\ PlayInv /\ Alone /\ Steadily(tasks, SettledCloud)
      /\ \A c \in Calls : Tracks(call[c], SettledCloud, PrefsPhrase, Clean(tasks))
      /\ SettledCloud = (IF Deleting(tasks) THEN NoMnemonic ELSE cloud)
      /\ SettledCloud' = (IF Deleting(tasks') THEN NoMnemonic ELSE cloud')
      /\ Stored = (IF SettledCloud # NoMnemonic THEN SettledCloud ELSE PrefsPhrase)
      /\ Stored' = (IF SettledCloud' # NoMnemonic THEN SettledCloud' ELSE PrefsPhrase')
      /\ tasks \in Seq(Task) /\ Len(tasks) \in Nat /\ t.live /\ t \in Task
      /\ NoMnemonic \notin Mnemonics /\ Garbage \notin Mnemonics /\ NoCall \notin Calls
      /\ TaskOK(t, Trusted) /\ Fits(t, call) /\ Trusted \subseteq Mnemonics
  BY SKnown, SettledIs, PKnown, TrustedType DEF Stored, Steadily, PlayInv, IInv
<1>3. t.kind # "delete"
  BY <1>1, <1>2 DEF Fits, Executed
<1>4. SettledCloud' = SettledCloud /\ (Clean(tasks) => Clean(tasks'))
  BY <1>1, <1>2, <1>3, LeftBehind
<1>5. \/ PrefsPhrase' = PrefsPhrase
      \/ /\ t.m \in Mnemonics /\ PrefsPhrase' = t.m /\ t.m \in everStored'
         /\ t.kind = "store" /\ t.st = "failed" /\ ~t.force
  <2>1. \/ UNCHANGED <<prefs, disk, everStored>>
        \/ prefs = Garbage /\ prefs' = NoMnemonic
        \/ /\ t.m \in Mnemonics /\ prefs' = t.m /\ t.kind = "store"
           /\ t.st = "failed" /\ ~t.force /\ everStored' = everStored \cup {t.m}
    BY <1>2, SteadyOnes, ReportWrites
  <2> QED BY <1>2, <2>1 DEF PrefsPhrase
<1>6. CASE t.call \notin Calls
  <2>1. UNCHANGED call /\ t.call = NoCall
    BY <1>2, <1>6 DEF Reports, Informs, Task
  <2>2. t.kind = "store" /\ t.m \in Invalid
    BY <1>2, <1>3, <1>6, <2>1 DEF TaskOK, Fits, Task
  <2>3. Clean(tasks) = FALSE
    BY <1>6, <2>2 DEF Clean
  <2>4. \A d \in Calls : Tracks(call'[d], SettledCloud', PrefsPhrase', Clean(tasks'))
    BY <1>2, <2>1, <2>3, StrayTracks
  <2>5. Alone'
    BY <1>2, <2>1 DEF Alone, Active
  <2>6. Steadily(tasks', SettledCloud')
    BY <1>1, <1>2, <1>4, <1>6, SteadilyLeft
  <2>7. everStored' \cap Invalid = {} => Stored' = Stored
    BY <1>2, <1>4, <1>5, <2>2
  <2> QED BY <2>4, <2>5, <2>6, <2>7
<1>7. CASE t.call \in Calls
  <2> DEFINE c == t.call
  <2>1. i = 1 /\ Len(tasks) = 1
    BY <1>7, ReportsLast
  <2>2. Len(tasks') = 0
    <3>1. Len(RemoveAt(tasks, i)) = Len(tasks) - 1
      BY <1>1, <1>2, RemoveAtIs
    <3> QED BY <1>1, <2>1, <3>1
  <2>3. Steadily(tasks', SettledCloud') /\ Clean(tasks') /\ Clean(tasks)
    BY <1>7, <2>1, <2>2 DEF Steadily, Clean
  <2>4. PICK ok \in BOOLEAN, val \in Values : Informs(i, ok, val)
    BY <1>2, <1>7 DEF Reports
  <2> DEFINE s == call[c]
             u == call'[c]
  <2>5. /\ c \in Calls /\ s.at = "platform" /\ SameCall(u, s) /\ u.at = "reply"
        /\ u.ok = ok /\ u.val = val
        /\ \A d \in Calls \ {c} : call'[d] = call[d]
    BY <1>2, <2>4, InformedIs
  <2>6. \A d \in Calls \ {c} : call[d].pc \in Finished
    BY <1>2, <2>5, OthersRest
  <2>7. Alone'
    BY <1>2, <2>5, <2>6 DEF Alone, Active
  <2>8. /\ Tracks(s, SettledCloud, PrefsPhrase, TRUE)
        /\ WaitedFor(t, s)
    <3>1. Clean(tasks) = TRUE
      BY <2>3 DEF Clean
    <3> QED BY <1>2, <2>5, <3>1, PKnown
  <2>9. /\ t.st = "ok" => t.m = SettledCloud
        /\ t.st \in {"ok", "failed"} /\ (t.kind = "retrieve" => t.st = "ok")
    BY <1>1, <1>2, <1>7 DEF Steadily, Executed, Task
  <2>10. CASE t.kind = "retrieve"
    <3>1. s.pc \in Reading \cup {"eligible"}
      BY <2>8, <2>10 DEF WaitedFor
    <3>2. PrefsPhrase' = PrefsPhrase /\ Stored' = Stored
      BY <1>2, <1>4, <1>5, <2>10
    <3>3. s.pc = "updRead" => val = Stored
      BY <1>2, <2>4, <2>9, <2>10 DEF Informs, Reading
    <3>4. Tracks(u, SettledCloud', PrefsPhrase', TRUE)
      BY <1>2, <2>5, <3>1, <3>2, <3>3 DEF Tracks, SameCall, Reading
    <3> QED BY <2>3, <2>5, <2>6, <2>7, <3>2, <3>4, RestTracks
  <2>11. CASE t.kind = "store"
    <3>1. /\ s.pc \in {"save", "updSave"} /\ t.m = s.m /\ t.m \in Mnemonics
          /\ s.cfg.saveToCloud /\ t.force = s.cfg.rejectOnCloudSaveFailure
          /\ ok <=> t.st = "ok" \/ ~t.force
      BY <1>2, <1>7, <2>4, <2>8, <2>11 DEF WaitedFor, Fits, TaskOK, Informs
    <3>2. s.pc = "updSave" => s.m = Stored /\ Stored' = Stored
      BY <1>2, <1>4, <1>5, <2>5, <2>8, <3>1 DEF Tracks
    <3>3. t.st = "ok" => SettledCloud' = s.m
      BY <1>4, <2>9, <3>1
    <3>4. s.pc = "updSave" => Tracks(u, SettledCloud', PrefsPhrase', TRUE)
      BY <1>2, <2>5, <3>1, <3>2 DEF Tracks, SameCall
    <3>5. s.pc = "save" => Tracks(u, SettledCloud', PrefsPhrase', TRUE)
      BY <2>5, <3>1, <3>3 DEF Tracks, SameCall
    <3>6. (\E d \in Calls : call[d].pc \in MovePoints) => s.pc = "updSave"
      BY <2>5, <2>6, <3>1 DEF MovePoints, Finished
    <3> QED BY <2>3, <2>5, <2>6, <2>7, <3>1, <3>2, <3>4, <3>5, <3>6, RestTracks
  <2> QED BY <1>2, <1>3, <2>10, <2>11 DEF Task
<1> QED BY <1>6, <1>7

LEMMA SteadyInitially ==
  Init => SteadyInv
<1> SUFFICES ASSUME Init PROVE SteadyInv
  OBVIOUS
<1>1. (\A c \in Calls : call[c].pc = "returned") /\ tasks = <<>>
  BY DEF Init, DartInit, Idle, Ended
<1>2. \A c \in Calls : call[c].pc \in Finished
  BY <1>1 DEF Finished
<1>3. \A c \in Calls : Tracks(call[c], SettledCloud, PrefsPhrase, Clean(tasks))
  BY <1>2, RestTracks
<1>4. SteadyOK
  BY <1>1, <1>2, <1>3 DEF SteadyOK, Alone, Active, Steadily
<1> QED BY <1>4, PlayInitially DEF SteadyInv

LEMMA SteadyStep ==
  ASSUME SteadyInv, [Next]_vars
  PROVE  SteadyInv' /\ StoredStays
<1>1. PlayInv /\ PlayInv'
  BY PlayInductive DEF SteadyInv
<1>2. SteadyOK' /\ StoredStays
  <2>1. CASE UNCHANGED <<env, cachedWallet, call, channel, replies, cloud, prefs, disk, tasks, everStored>>
    <3>1. SettledCloud' = SettledCloud /\ PrefsPhrase' = PrefsPhrase /\ Stored' = Stored
      BY <2>1 DEF SettledCloud, PrefsPhrase, Stored
    <3> QED BY <2>1, <3>1 DEF SteadyInv, SteadyOK, StoredStays, Alone, Active, Steadily, Clean
  <2>2. CASE AppKilled \/ DeviceRestored
    <3>1. ~Steady(env) /\ env' = env
      BY <2>2, SteadyOnes DEF AppKilled, DeviceRestored, DartKilled
    <3> QED BY <3>1 DEF SteadyOK, StoredStays
  <2> QED BY <1>1, <2>1, <2>2, StepsAre, SteadyDart, SteadyHandled, SteadyExecuted, SteadyReports
<1> QED BY <1>1, <1>2 DEF SteadyInv

\* The invariant of an app that awaits each call holds in every state.
THEOREM SteadyInvariant ==
  Spec => []SteadyInv
<1>1. SteadyInv /\ [Next]_vars => SteadyInv'
  BY SteadyStep
<1> QED BY <1>1, SteadyInitially, PTL DEF Spec

\* updateWalletStorage never changes which wallet is stored, whatever copies earlier
\* calls have left in the two stores and whether or not a Block Store call fails, as long
\* as no invalid phrase is stored: the phrase it has read is the stored one until it has
\* written it, and the copy it leaves is that phrase.
THEOREM KeptByMoves ==
  Spec => MovesKeepWallet
<1>1. ASSUME SteadyInv, [Next]_vars, Steady(env), everStored' \cap Invalid = {}
      PROVE  UpdateKeepsStored
  <2> SUFFICES ASSUME NEW c \in Calls, Updates(c) PROVE Stored' = Stored
    BY DEF UpdateKeepsStored
  <2>1. call[c] \in CallState /\ Runs(call[c], env)
    BY <1>1, PKnown DEF SteadyInv
  <2>2. call[c].pc \in Points /\ call[c].op = "updateWalletStorage"
    BY <2>1 DEF Updates, Running, CallState, Finished
  <2>3. call[c].pc \in MovePoints
    BY <2>1, <2>2, PointsAre DEF Runs, Waits, Savers, MovePoints
  <2> QED BY <1>1, <2>3, SteadyStep DEF StoredStays
<1>2. SteadyInv /\ [Next]_vars
        => (Steady(env) /\ everStored' \cap Invalid = {} => UpdateKeepsStored)
  BY <1>1
<1>3. Spec => [][Steady(env) /\ everStored' \cap Invalid = {} => UpdateKeepsStored]_vars
  BY <1>2, SteadyInvariant, PTL DEF Spec
<1> QED BY <1>3 DEF MovesKeepWallet

\* The step in which a call returns is one of Dart.
LEMMA ReturnsAre ==
  ASSUME SteadyInv, [Next]_vars, Steady(env), NEW c \in Calls, Ends(c, "returned"),
         call[c].op # "none"
  PROVE  /\ \E s \in CallState : Goes(call[c], s, env) /\ s.pc = "returned"
         /\ call[c].pc \in Points /\ call[c].at = "reply" /\ Runs(call[c], env)
         /\ SettledCloud' = SettledCloud
<1>1. /\ PlayInv /\ call[c] \in CallState /\ Runs(call[c], env) /\ call \in [Calls -> CallState]
      /\ call[c].pc \in Points /\ call'[c].pc = "returned" /\ call'[c].op = call[c].op
  BY PKnown DEF SteadyInv, Ends, Running, CallState, Finished
<1>2. "returned" \notin Points
  BY PointsAre
<1>3. ASSUME NEW d \in Calls, AppCalls(d) \/ Continuations(d), UNCHANGED androidVars
      PROVE  /\ \E s \in CallState : Goes(call[c], s, env) /\ s.pc = "returned"
             /\ call[c].at = "reply" /\ SettledCloud' = SettledCloud
  <2>1. PICK s \in CallState : Sends(d, s) /\ Goes(call[d], s, env)
    BY <1>1, <1>3, DartDoes
  <2>2. d = c /\ s.pc = "returned"
    BY <1>1, <1>2, <2>1 DEF Sends
  <2>3. call[c].at = "reply"
    BY <1>1, <2>1, <2>2, PointsAre DEF Goes, Finished
  <2>4. SettledCloud' = SettledCloud
    BY <1>3 DEF androidVars, SettledCloud
  <2> QED BY <2>1, <2>2, <2>3, <2>4
<1>4. ASSUME NEW d \in Calls, NEW u \in CallState, Handled(d, u)
      PROVE  FALSE
  <2>1. call'[c].pc = call[c].pc
    BY <1>1, <1>4 DEF Handled, SameCall
  <2> QED BY <1>1, <1>2, <2>1
<1>5. ASSUME NEW i \in 1..Len(tasks), Reports(i)
      PROVE  FALSE
  <2>1. call'[c].pc = call[c].pc
    <3>1. CASE UNCHANGED call
      BY <3>1
    <3>2. CASE \E ok \in BOOLEAN, val \in Values : Informs(i, ok, val)
      BY <1>1, <3>2, InformedIs DEF SameCall
    <3> QED BY <1>5, <3>1, <3>2 DEF Reports
  <2> QED BY <1>1, <1>2, <2>1
<1>6. ~(AppKilled \/ DeviceRestored)
  BY SteadyOnes DEF AppKilled, DeviceRestored
<1>7. ~UNCHANGED call
  BY <1>1, <1>2
<1>8. ASSUME NEW i \in 1..Len(tasks), NEW t \in Task, Played(i, t)
      PROVE  FALSE
  BY <1>7, <1>8 DEF Played, dartVars
<1> QED BY <1>1, <1>3, <1>4, <1>5, <1>6, <1>7, <1>8, StepsAre

\* A move to the device returns when it has asked for the cloud copy to be deleted, and
\* nothing has stored a phrase there since.
THEOREM CloudLeftByMoves ==
  Spec => MovesLeaveCloud
<1>1. ASSUME SteadyInv, [Next]_vars, Steady(env), NEW c \in Calls,
             Ends(c, "returned"), Updates(c), ~call[c].cfg.saveToCloud
      PROVE  SettledCloud' = NoMnemonic
  <2>1. call[c].op = "updateWalletStorage" /\ Tracks(call[c], SettledCloud, PrefsPhrase, Clean(tasks))
    BY <1>1, SKnown DEF Updates
  <2>2. PICK s \in CallState : Goes(call[c], s, env) /\ s.pc = "returned"
    BY <1>1, <2>1, ReturnsAre
  <2>3. /\ call[c].pc \in Points /\ call[c].at = "reply" /\ Runs(call[c], env)
        /\ SettledCloud' = SettledCloud
    BY <1>1, <2>1, ReturnsAre
  <2>4. call[c].pc \in MovePoints
    BY <2>1, <2>3, PointsAre DEF Runs, Waits, Savers, MovePoints
  <2>5. call[c].pc = "updDelete"
    BY <1>1, <2>2, <2>4 DEF Goes, MovePoints
  <2> QED BY <2>1, <2>3, <2>5 DEF Tracks
<1>2. SteadyInv /\ [Next]_vars => (Steady(env) => LocalUpdateLeavesCloud)
  BY <1>1 DEF LocalUpdateLeavesCloud
<1>3. Spec => [][Steady(env) => LocalUpdateLeavesCloud]_vars
  BY <1>2, SteadyInvariant, PTL DEF Spec
<1> QED BY <1>3 DEF MovesLeaveCloud

\* A create or import that is to reject when the cloud save fails returns when Block
\* Store has its phrase, deletes under way counted, and not one that another call stored.
THEOREM RejectionHonoured ==
  Spec => RejectHonoured
<1>1. ASSUME SteadyInv, [Next]_vars, Steady(env), NEW c \in Calls,
             Ends(c, "returned"), Saves(c),
             call[c].cfg.saveToCloud, call[c].cfg.rejectOnCloudSaveFailure
      PROVE  SettledCloud' = call[c].m
  <2>1. call[c].op \in Savers /\ Tracks(call[c], SettledCloud, PrefsPhrase, Clean(tasks))
    BY <1>1, SKnown DEF Saves, Savers
  <2>2. PICK s \in CallState : Goes(call[c], s, env) /\ s.pc = "returned"
    BY <1>1, <2>1, ReturnsAre DEF Savers
  <2>3. /\ call[c].pc \in Points /\ call[c].at = "reply" /\ Runs(call[c], env)
        /\ SettledCloud' = SettledCloud
    BY <1>1, <2>1, ReturnsAre DEF Savers
  <2>4. call[c].pc \in {"generate", "checkRead", "checkKey", "save", "makeKey"}
    BY <2>1, <2>3, PointsAre DEF Runs, Waits, Savers
  <2>5. call[c].pc = "makeKey"
    BY <2>2, <2>4 DEF Goes
  <2> QED BY <1>1, <2>1, <2>3, <2>5 DEF Tracks
<1>2. SteadyInv /\ [Next]_vars => (Steady(env) => RejectOnCloudFailure)
  BY <1>1 DEF RejectOnCloudFailure
<1>3. Spec => [][Steady(env) => RejectOnCloudFailure]_vars
  BY <1>2, SteadyInvariant, PTL DEF Spec
<1> QED BY <1>3 DEF RejectHonoured

-----------------------------------------------------------------------------
(* What the cache will hold, with one store in use.                        *)
(*                                                                         *)
(* Between Block Store and the queue of replies there is a third queue: a  *)
(* phrase that was read or stored waits in a task for its listener.        *)

\* The task will tell its call a phrase, from which the call derives a wallet.
Teller(task, f) ==
  /\ task.call \in Calls /\ task.st = "ok" /\ task.m # NoMnemonic
  /\ f[task.call].pc \in {"read", "checkRead", "save"}

NoneTells(list, f) == \A i \in 1..Len(list) : ~Teller(list[i], f)

\* The last task that tells a phrase tells the stored one.
LastTells(list, f, stored) ==
  \E i \in 1..Len(list) :
    /\ Teller(list[i], f) /\ list[i].m = stored
    /\ \A j \in 1..Len(list) : i < j => ~Teller(list[j], f)

\* A store that an earlier process has asked for.
Orphan(task) == task.kind = "store" /\ ~task.live /\ task.st = "pending"

Idling == cachedWallet = NoMnemonic /\ \A c \in Calls : Distance(call[c]) = 0

\* Only the preferences are used, or only Block Store.
KeptOnDevice ==
  /\ cloud = NoMnemonic
  /\ \A cfg \in env.configs : ~cfg.saveToCloud
  /\ \A i \in 1..Len(tasks) : /\ tasks[i].kind = "retrieve"
                              /\ tasks[i].st = "ok" => tasks[i].m = NoMnemonic

KeptInCloud ==
  /\ prefs = NoMnemonic /\ disk = NoMnemonic /\ "reorder" \notin env.faults
  /\ \A cfg \in env.configs : cfg.saveToCloud /\ cfg.rejectOnCloudSaveFailure
  /\ \A i \in 1..Len(tasks) : /\ tasks[i].kind # "delete"
                              /\ tasks[i].kind = "store" => tasks[i].force

\* No call that derives a wallet will be refused; the last wallet that will be cached is
\* the stored one; and a store that may still come meets an app that has cached nothing.
CacheHeld ==
  /\ \A c \in Calls : DerivesOK(call[c])
  /\ \/ NoneTells(tasks, call) /\ Latest(call, channel, replies, cachedWallet, Stored)
     \/ LastTells(tasks, call, Stored)
  /\ (\E i \in 1..Len(tasks) : Orphan(tasks[i])) => Idling

CacheOK ==
  /\ Queued(channel, "channel", call) /\ Queued(replies, "reply", call)
  /\ OneStore(env) =>
       /\ KeptOnDevice \/ KeptInCloud
       /\ everStored \cap Invalid = {} => CacheHeld

CacheInv == PlayInv /\ CacheOK

LEMMA OneStoreOnes ==
  ASSUME OneStore(env)
  PROVE  /\ "permanentlyDeleteWallet" \notin env.ops /\ "updateWalletStorage" \notin env.ops
         /\ "commit" \notin env.faults
         /\ \/ \A cfg \in env.configs : ~cfg.saveToCloud
            \/ /\ \A cfg \in env.configs : cfg.saveToCloud /\ cfg.rejectOnCloudSaveFailure
               /\ "reorder" \notin env.faults
BY DEF OneStore

\* What is stored, with one store in use.
LEMMA OneStored ==
  /\ PlayInv /\ KeptOnDevice => Stored = PrefsPhrase
  /\ PlayInv /\ KeptInCloud => Stored = cloud
  /\ PlayInv' /\ KeptOnDevice' => Stored' = PrefsPhrase'
  /\ PlayInv' /\ KeptInCloud' => Stored' = cloud'
<1>1. Garbage # NoMnemonic
  BY PlatformAssumption
<1>2. /\ KeptOnDevice \/ KeptInCloud => ~Deleting(tasks)
      /\ KeptOnDevice' \/ KeptInCloud' => ~Deleting(tasks')
  BY DEF KeptOnDevice, KeptInCloud, Deleting
<1>3. /\ PlayInv /\ (KeptOnDevice \/ KeptInCloud) => SettledCloud = cloud
      /\ PlayInv' /\ (KeptOnDevice' \/ KeptInCloud') => SettledCloud' = cloud'
  BY <1>2, SettledIs
<1>4. /\ KeptOnDevice => cloud = NoMnemonic
      /\ KeptOnDevice' => cloud' = NoMnemonic
      /\ KeptInCloud => prefs = NoMnemonic
      /\ KeptInCloud' => prefs' = NoMnemonic
  BY DEF KeptOnDevice, KeptInCloud
<1> QED BY <1>1, <1>3, <1>4 DEF Stored, PrefsPhrase

\* The lists that tasks join, change in and leave, and who is told.
LEMMA TellsSame ==
  ASSUME NEW list, NEW f, NEW g, NEW stored,
         \A i \in 1..Len(list) : list[i].call \in Calls => g[list[i].call].pc = f[list[i].call].pc
  PROVE  /\ NoneTells(list, f) <=> NoneTells(list, g)
         /\ LastTells(list, f, stored) <=> LastTells(list, g, stored)
<1>1. \A i \in 1..Len(list) : Teller(list[i], f) <=> Teller(list[i], g)
  BY DEF Teller
<1> QED BY <1>1 DEF NoneTells, LastTells

LEMMA TellsPushed ==
  ASSUME NEW list \in Seq(Task), NEW t \in Task, t.st = "pending", NEW f, NEW stored
  PROVE  /\ NoneTells(list, f) => NoneTells(Append(list, t), f)
         /\ LastTells(list, f, stored) => LastTells(Append(list, t), f, stored)
<1> DEFINE longer == Append(list, t)
<1>1. /\ Len(longer) = Len(list) + 1 /\ Len(list) \in Nat
      /\ \A i \in 1..Len(list) : longer[i] = list[i] /\ i \in 1..Len(longer)
      /\ \A i \in 1..Len(longer) : i \in 1..Len(list) \/ longer[i] = t
  BY PushedIs
<1>2. ~Teller(t, f)
  BY DEF Teller
<1> HIDE DEF longer
<1>3. NoneTells(list, f) => NoneTells(longer, f)
  BY <1>1, <1>2 DEF NoneTells
<1>4. LastTells(list, f, stored) => LastTells(longer, f, stored)
  BY <1>1, <1>2 DEF LastTells
<1> QED BY <1>3, <1>4 DEF longer

LEMMA TellsChanged ==
  ASSUME NEW list \in Seq(Task), NEW i \in 1..Len(list), list[i].st = "pending",
         NEW t \in Task, NEW f, NEW stored
  PROVE  LET new == [list EXCEPT ![i] = t] IN
         /\ ~Teller(t, f) =>
              /\ NoneTells(list, f) => NoneTells(new, f)
              /\ LastTells(list, f, stored) => LastTells(new, f, stored)
         /\ Teller(t, f) /\ (\A j \in 1..Len(list) : i < j => ~Teller(list[j], f))
              => LastTells(new, f, t.m)
<1> DEFINE new == [list EXCEPT ![i] = t]
<1>1. /\ Len(new) = Len(list) /\ Len(list) \in Nat
      /\ \A j \in 1..Len(list) : new[j] = IF j = i THEN t ELSE list[j]
  BY ExceptSeq, LenProperties
<1>2. ~Teller(list[i], f)
  BY DEF Teller
<1> HIDE DEF new
<1>3. ~Teller(t, f) => /\ NoneTells(list, f) => NoneTells(new, f)
                       /\ LastTells(list, f, stored) => LastTells(new, f, stored)
  BY <1>1, <1>2 DEF NoneTells, LastTells
<1>4. Teller(t, f) /\ (\A j \in 1..Len(list) : i < j => ~Teller(list[j], f))
        => LastTells(new, f, t.m)
  <2> SUFFICES ASSUME Teller(t, f), \A j \in 1..Len(list) : i < j => ~Teller(list[j], f)
               PROVE  LastTells(new, f, t.m)
    OBVIOUS
  <2>1. i \in 1..Len(new) /\ new[i] = t
    BY <1>1
  <2>2. \A j \in 1..Len(new) : i < j => ~Teller(new[j], f)
    BY <1>1
  <2> QED BY <2>1, <2>2 DEF LastTells
<1> QED BY <1>3, <1>4 DEF new

LEMMA TellsLeft ==
  ASSUME NEW list \in Seq(Task), NEW i \in 1..Len(list), NEW f, NEW stored
  PROVE  LET less == RemoveAt(list, i) IN
         /\ NoneTells(list, f) => NoneTells(less, f)
         /\ LastTells(list, f, stored) =>
              \/ LastTells(less, f, stored)
              \/ Teller(list[i], f) /\ list[i].m = stored /\ (i = 1 => NoneTells(less, f))
<1> DEFINE less == RemoveAt(list, i)
<1>1. \A j \in 1..Len(less) : /\ Old(i, j) \in 1..Len(list)
                              /\ less[j] = list[Old(i, j)]
  BY LeftInOrder
<1>2. \A j, k \in 1..Len(less) : j < k <=> Old(i, j) < Old(i, k)
  BY LeftInOrder
<1>3. \A k \in 1..Len(list) \ {i} : \E j \in 1..Len(less) : Old(i, j) = k
  BY LeftInOrder
<1> HIDE DEF less
<1>4. NoneTells(list, f) => NoneTells(less, f)
  BY <1>1 DEF NoneTells
<1>5. ASSUME NEW k \in 1..Len(list), Teller(list[k], f), list[k].m = stored,
             \A j \in 1..Len(list) : k < j => ~Teller(list[j], f)
      PROVE  \/ LastTells(less, f, stored)
             \/ Teller(list[i], f) /\ list[i].m = stored /\ (i = 1 => NoneTells(less, f))
  <2>1. CASE k # i
    <3>1. PICK j \in 1..Len(less) : Old(i, j) = k
      BY <1>3, <2>1
    <3>2. Teller(less[j], f) /\ less[j].m = stored
      BY <1>1, <1>5, <3>1
    <3>3. \A l \in 1..Len(less) : j < l => ~Teller(less[l], f)
      BY <1>1, <1>2, <1>5, <3>1
    <3> QED BY <3>2, <3>3 DEF LastTells
  <2>2. CASE k = i
    <3>1. ASSUME i = 1, NEW j \in 1..Len(less) PROVE ~Teller(less[j], f)
      <4>1. Old(i, j) \in 1..Len(list) /\ less[j] = list[Old(i, j)] /\ i < Old(i, j)
        BY <1>1, <3>1 DEF Old
      <4> QED BY <1>5, <2>2, <4>1
    <3>2. i = 1 => NoneTells(less, f)
      BY <3>1 DEF NoneTells
    <3> QED BY <1>5, <2>2, <3>2
  <2> QED BY <2>1, <2>2
<1>6. LastTells(list, f, stored) =>
        \/ LastTells(less, f, stored)
        \/ Teller(list[i], f) /\ list[i].m = stored /\ (i = 1 => NoneTells(less, f))
  BY <1>5 DEF LastTells
<1> QED BY <1>4, <1>6 DEF less

\* Facts about every state with one store in use.
LEMMA CKnown ==
  ASSUME CacheInv
  PROVE  /\ PlayInv /\ Queued(channel, "channel", call) /\ Queued(replies, "reply", call)
         /\ channel \in Seq(Calls) /\ replies \in Seq(Calls)
         /\ QueueOK(channel, "channel", call)
         /\ OneStore(env) =>
              /\ KeptOnDevice \/ KeptInCloud
              /\ everStored \cap Invalid = {} => CacheHeld
              /\ KeptOnDevice => Stored = PrefsPhrase
              /\ KeptInCloud => Stored = cloud
              /\ Trusted = everStored
              /\ \A c \in Calls : call[c].pc \notin MovePoints \cup {"delete"}
         /\ KeptOnDevice => NoneTells(tasks, call) /\ \A i \in 1..Len(tasks) : ~Orphan(tasks[i])
<1>1. PlayInv
  BY DEF CacheInv
<1>2. channel \in Seq(Calls) /\ replies \in Seq(Calls) /\ QueueOK(channel, "channel", call)
  BY <1>1, PKnown DEF Dart, DartOK
<1>3. ASSUME OneStore(env)
      PROVE  /\ Trusted = everStored
             /\ \A c \in Calls : call[c].pc \notin MovePoints \cup {"delete"}
  <2>1. \A c \in Calls : Runs(call[c], env)
    BY <1>1, PKnown
  <2>2. /\ "permanentlyDeleteWallet" \notin env.ops /\ "updateWalletStorage" \notin env.ops
        /\ "commit" \notin env.faults
    BY <1>3, OneStoreOnes
  <2>3. MovePoints \cup {"delete"} \subseteq Points
    BY PointsAre DEF MovePoints
  <2>4. \A c \in Calls : call[c].pc \notin MovePoints \cup {"delete"}
    BY <2>1, <2>2, <2>3 DEF Runs, Waits, MovePoints
  <2> QED BY <2>2, <2>4 DEF Trusted
<1>4. KeptOnDevice => NoneTells(tasks, call) /\ \A i \in 1..Len(tasks) : ~Orphan(tasks[i])
  BY DEF KeptOnDevice, NoneTells, Teller, Orphan
<1> QED BY <1>1, <1>2, <1>3, <1>4, OneStored DEF CacheInv, CacheOK

LEMMA CacheDart ==
  ASSUME CacheInv, NEW c \in Calls, AppCalls(c) \/ Continuations(c), UNCHANGED androidVars
  PROVE  CacheOK'
<1>1. PlayInv /\ Dart(Trusted) /\ Runs(call[c], env)
  BY PKnown DEF CacheInv
<1>2. Queued(channel', "channel", call') /\ Queued(replies', "reply", call')
  BY <1>1, QueuedGo DEF CacheInv, CacheOK
<1>3. /\ UNCHANGED <<env, cloud, prefs, disk, tasks, everStored>>
      /\ \A i \in 1..Len(tasks) : tasks[i].call # c
  BY <1>1, DartDoes
<1>4. Stored' = Stored
  BY <1>3 DEF Stored, SettledCloud, PrefsPhrase
<1>5. (KeptOnDevice => KeptOnDevice') /\ (KeptInCloud => KeptInCloud')
  BY <1>3 DEF KeptOnDevice, KeptInCloud
<1>6. ASSUME OneStore(env), CacheHeld
      PROVE  CacheHeld'
  <2>1. "permanentlyDeleteWallet" \notin env.ops
    BY <1>6, OneStoreOnes
  <2>2. \A d \in Calls \ {c} : call'[d] = call[d]
    <3>1. PICK s \in CallState : Sends(c, s)
      BY <1>1, DartDoes
    <3> QED BY <1>1, <3>1, PKnown DEF Sends
  <2>3. \A d \in Calls : DerivesOK(call'[d])
    BY <1>1, <1>6, DerivesGo DEF CacheHeld
  <2>4. Latest(call, channel, replies, cachedWallet, Stored)
          => Latest(call', channel', replies', cachedWallet', Stored)
    BY <1>1, <1>6, <2>1, LatestGoes DEF CacheHeld, CacheInv, CacheOK
  <2>5. /\ NoneTells(tasks, call) <=> NoneTells(tasks, call')
        /\ LastTells(tasks, call, Stored) <=> LastTells(tasks, call', Stored)
    BY <1>3, <2>2, TellsSame
  <2>6. Idling => Idling'
    <3>1. Idling => cachedWallet' = cachedWallet /\ Distance(call'[c]) = 0
      BY <1>1, <2>1, AsideGoes DEF Idling
    <3> QED BY <2>2, <3>1 DEF Idling
  <2> QED BY <1>3, <1>4, <1>6, <2>3, <2>4, <2>5, <2>6 DEF CacheHeld
<1> QED BY <1>2, <1>3, <1>5, <1>6 DEF CacheInv, CacheOK

\* What a handler does to the stores, of which one is in use.
LEMMA HandlerStores ==
  ASSUME CacheInv, OneStore(env), NEW c \in Calls, NEW u \in CallState, Handled(c, u)
  PROVE  /\ (KeptOnDevice /\ KeptOnDevice') \/ (KeptInCloud /\ KeptInCloud')
         /\ \/ /\ StoresSame
               /\ call[c].pc \notin Deriving => Distance(u) = 0
            \/ /\ KeptOnDevice /\ KeptOnDevice'
               /\ call[c].pc = "save" /\ u.at = "reply" /\ (u.ok <=> call[c].m \notin Invalid)
               /\ UNCHANGED tasks /\ call[c].m \in Mnemonics /\ prefs' = call[c].m
               /\ everStored' = everStored \cup {call[c].m}
<1> DEFINE t == call[c]
<1>1. /\ PlayInv /\ (KeptOnDevice \/ KeptInCloud) /\ t.pc \notin MovePoints \cup {"delete"}
      /\ CallOK(t, Trusted) /\ Runs(t, env) /\ tasks \in Seq(Task)
      /\ t.pc \in Points /\ t.at = "channel" /\ PlaysPart(c, u) /\ SameCall(u, t)
      /\ UNCHANGED <<env, cloud>>
  BY CKnown, PKnown DEF Handled
<1>2. "commit" \notin env.faults
  BY OneStoreOnes
<1>3. t.pc = "save" => t.m \in Mnemonics /\ t.cfg \in env.configs
  BY <1>1 DEF CallOK, Carrying, Runs, Waits
<1>4. \/ /\ StoresSame
         /\ t.pc \notin Deriving => Distance(u) = 0
      \/ /\ KeptOnDevice
         /\ t.pc = "save" /\ u.at = "reply" /\ (u.ok <=> t.m \notin Invalid)
         /\ UNCHANGED tasks /\ t.m \in Mnemonics /\ prefs' = t.m /\ disk' = t.m
         /\ everStored' = everStored \cup {t.m}
  <2>1. CASE t.pc = "save"
    <3>1. SaveHandled(c, u)
      BY <1>1, <2>1 DEF PlaysPart, Reading
    <3>2. \/ StoresSame /\ (u.at = "platform" \/ ~u.ok)
          \/ /\ ~t.cfg.rejectOnCloudSaveFailure
             /\ u.at = "reply" /\ (u.ok <=> t.m \notin Invalid)
             /\ UNCHANGED tasks /\ Writes(t.m)
      BY <3>1 DEF SaveHandled
    <3>3. CASE StoresSame /\ (u.at = "platform" \/ ~u.ok)
      <4>1. Distance(u) = 0
        BY <1>1, <2>1, <3>3 DEF Distance, Told, SameCall, Deriving
      <4> QED BY <3>3, <4>1
    <3>4. CASE /\ ~t.cfg.rejectOnCloudSaveFailure
               /\ u.at = "reply" /\ (u.ok <=> t.m \notin Invalid)
               /\ UNCHANGED tasks /\ Writes(t.m)
      <4>1. prefs' = t.m /\ disk' = t.m /\ everStored' = everStored \cup ({t.m} \cap Mnemonics)
        BY <1>2, <3>4, CommitIs DEF Writes, saveToSharedPref
      <4>2. KeptOnDevice
        BY <1>1, <1>3, <2>1, <3>4 DEF KeptInCloud
      <4> QED BY <1>3, <2>1, <3>4, <4>1, <4>2
    <3> QED BY <3>2, <3>3, <3>4
  <2>2. CASE t.pc # "save"
    <3>1. StoresSame
      BY <1>1, <2>2 DEF PlaysPart, MovePoints
    <3>2. t.pc \in {"read", "checkRead"} => u.at = "platform"
      BY <1>1 DEF PlaysPart, Reading
    <3>3. t.pc \notin Deriving => Distance(u) = 0
      BY <1>1, <2>2, <3>2 DEF Distance, Told, SameCall
    <3> QED BY <3>1, <3>3
  <2> QED BY <2>1, <2>2
<1>5. ASSUME NEW new \in Task, Makes(c, new)
      PROVE  /\ new.kind # "delete"
             /\ new.kind = "store" => t.cfg \in env.configs /\ new.force = t.cfg.rejectOnCloudSaveFailure
                                      /\ t.cfg.saveToCloud
             /\ new.st = "pending" /\ new.kind \in {"retrieve", "store"}
  BY <1>1, <1>3, <1>5 DEF Makes, MovePoints
<1>6. ASSUME KeptOnDevice PROVE KeptOnDevice'
  <2>1. \A i \in 1..Len(tasks') : /\ tasks'[i].kind = "retrieve"
                                  /\ tasks'[i].st = "ok" => tasks'[i].m = NoMnemonic
    <3>1. CASE UNCHANGED tasks
      BY <1>6, <3>1 DEF KeptOnDevice
    <3>2. CASE \E new \in Task : Makes(c, new)
      <4>1. PICK new \in Task : Makes(c, new)
        BY <3>2
      <4>2. new.kind = "retrieve" /\ new.st = "pending"
        BY <1>5, <1>6, <4>1 DEF KeptOnDevice
      <4>3. tasks' = Append(tasks, new)
        BY <4>1 DEF Makes
      <4> QED BY <1>1, <1>6, <4>2, <4>3, PushedIs DEF KeptOnDevice
    <3> QED BY <1>1, <3>1, <3>2, TaskMade
  <2> QED BY <1>1, <1>6, <2>1 DEF KeptOnDevice
<1>7. ASSUME KeptInCloud PROVE KeptInCloud' \/ KeptOnDevice
  <2>1. \A i \in 1..Len(tasks') : /\ tasks'[i].kind # "delete"
                                  /\ tasks'[i].kind = "store" => tasks'[i].force
    <3>1. CASE UNCHANGED tasks
      BY <1>7, <3>1 DEF KeptInCloud
    <3>2. CASE \E new \in Task : Makes(c, new)
      <4>1. PICK new \in Task : Makes(c, new)
        BY <3>2
      <4>2. new.kind # "delete" /\ (new.kind = "store" => new.force)
        BY <1>5, <1>7, <4>1 DEF KeptInCloud
      <4>3. tasks' = Append(tasks, new)
        BY <4>1 DEF Makes
      <4> QED BY <1>1, <1>7, <4>2, <4>3, PushedIs DEF KeptInCloud
    <3> QED BY <1>1, <3>1, <3>2, TaskMade
  <2> QED BY <1>1, <1>4, <1>7, <2>1 DEF KeptInCloud, StoresSame
<1> QED BY <1>1, <1>4, <1>6, <1>7

LEMMA CacheHandled ==
  ASSUME CacheInv, PlayInv', NEW c \in Calls, NEW u \in CallState, Handled(c, u)
  PROVE  CacheOK'
<1> DEFINE t == call[c]
<1>1. /\ PlayInv /\ Dart(Trusted) /\ call \in [Calls -> CallState] /\ NoMnemonic \notin Mnemonics
      /\ CallOK(t, Trusted) /\ Garbage \notin Mnemonics
      /\ replies \in Seq(Calls) /\ channel \in Seq(Calls) /\ QueueOK(channel, "channel", call)
      /\ Queued(channel, "channel", call) /\ Queued(replies, "reply", call)
      /\ tasks \in Seq(Task)
  BY CKnown, PKnown
<1>2. /\ t \in CallState /\ t.pc \in Points /\ t.at = "channel"
      /\ channel # <<>> /\ c = Head(channel) /\ channel' = Tail(channel)
      /\ call' = [call EXCEPT ![c] = u] /\ SameCall(u, t)
      /\ \/ u.at = "reply" /\ replies' = Append(replies, c)
         \/ u.at = "platform" /\ replies' = replies
      /\ UNCHANGED <<env, cachedWallet, cloud>> /\ PlaysPart(c, u)
  BY DEF Handled
<1>3. Queued(channel', "channel", call') /\ Queued(replies', "reply", call')
  <2>1. Queued(Tail(channel), "channel", [call EXCEPT ![Head(channel)] = u])
    BY <1>1, <1>2, QueuedPopped
  <2>2. Queued(Append(replies, c), "reply", [call EXCEPT ![c] = u])
    BY <1>1, QueuedPushed
  <2>3. u.at = "platform" => Queued(replies, "reply", [call EXCEPT ![c] = u])
    BY <1>1, QueuedKept
  <2> QED BY <1>2, <2>1, <2>2, <2>3
<1>4. /\ call'[c] = u /\ \A d \in Calls \ {c} : call'[d] = call[d]
  BY <1>1, <1>2
<1>5. SUFFICES ASSUME OneStore(env)
               PROVE  /\ KeptOnDevice' \/ KeptInCloud'
                      /\ everStored' \cap Invalid = {} => CacheHeld'
  BY <1>2, <1>3 DEF CacheOK
<1>6. /\ (KeptOnDevice /\ KeptOnDevice') \/ (KeptInCloud /\ KeptInCloud')
      /\ \/ /\ StoresSame
            /\ t.pc \notin Deriving => Distance(u) = 0
         \/ /\ KeptOnDevice /\ KeptOnDevice'
            /\ t.pc = "save" /\ u.at = "reply" /\ (u.ok <=> t.m \notin Invalid)
            /\ UNCHANGED tasks /\ t.m \in Mnemonics /\ prefs' = t.m
            /\ everStored' = everStored \cup {t.m}
  BY <1>5, HandlerStores
<1>7. everStored \subseteq everStored'
  BY <1>6 DEF StoresSame
<1> SUFFICES ASSUME everStored' \cap Invalid = {} PROVE CacheHeld'
  BY <1>6
<1>8. CacheHeld
  BY <1>5, <1>7, CKnown
<1>9. \A d \in Calls : DerivesOK(call'[d])
  <2>1. t.pc \in Deriving => u.at = "reply" /\ (u.ok <=> KeyPhrase(c) \notin Invalid)
    BY <1>2 DEF PlaysPart, Deriving, Reading
  <2>2. t.pc \in Deriving => KeyPhrase(c) \in everStored
    BY <1>1, <1>5, CKnown DEF CallOK, KeyPhrase, Deriving
  <2>3. DerivesOK(u)
    BY <1>2, <1>7, <2>1, <2>2 DEF DerivesOK, SameCall
  <2> QED BY <1>4, <1>8, <2>3 DEF CacheHeld
<1>10. /\ NoneTells(tasks, call) => NoneTells(tasks', call')
       /\ LastTells(tasks, call, Stored) => LastTells(tasks', call', Stored)
       /\ \A i \in 1..Len(tasks') : Orphan(tasks'[i]) => \E j \in 1..Len(tasks) : Orphan(tasks[j])
  <2>1. /\ NoneTells(tasks', call) <=> NoneTells(tasks', call')
        /\ LastTells(tasks', call, Stored) <=> LastTells(tasks', call', Stored)
    <3>1. \A d \in Calls : call'[d].pc = call[d].pc
      BY <1>2, <1>4 DEF SameCall
    <3> QED BY <3>1, TellsSame
  <2>2. CASE UNCHANGED tasks
    BY <2>1, <2>2
  <2>3. CASE \E new \in Task : Makes(c, new)
    <3>1. PICK new \in Task : Makes(c, new)
      BY <2>3
    <3>2. tasks' = Append(tasks, new) /\ new.st = "pending" /\ new.live
      BY <3>1 DEF Makes
    <3>3. /\ NoneTells(tasks, call) => NoneTells(tasks', call)
          /\ LastTells(tasks, call, Stored) => LastTells(tasks', call, Stored)
      BY <1>1, <3>2, TellsPushed
    <3>4. \A i \in 1..Len(tasks') : Orphan(tasks'[i]) => \E j \in 1..Len(tasks) : Orphan(tasks[j])
      BY <1>1, <3>2, PushedIs DEF Orphan
    <3> QED BY <2>1, <3>3, <3>4
  <2> QED BY <1>1, <2>2, <2>3, TaskMade
<1>11. Follows(channel, channel', c) /\ Follows(replies, replies', c)
       /\ \A d \in Calls : ~Ahead(channel, d, c)
  BY <1>1, <1>2, FollowsPopped, FollowsPushed, FollowsSame
<1>12. CASE StoresSame /\ (t.pc \notin Deriving => Distance(u) = 0)
  <2>1. Stored' = Stored
    BY <1>2, <1>5, <1>6, <1>12, OneStored, CKnown DEF StoresSame, PrefsPhrase
  <2>2. ASSUME Latest(call, channel, replies, cachedWallet, Stored)
        PROVE  Latest(call', channel', replies', cachedWallet', Stored)
    <3>1. CASE t.pc \in Deriving
      <4>1. u.at = "reply" /\ replies' = Append(replies, c) /\ u.pc = t.pc /\ u.m = t.m /\ u.r = t.r
        BY <1>2, <3>1 DEF PlaysPart, Deriving, Reading, SameCall
      <4>2. Distance(t) = 2 /\ Distance(u) = 1
        BY <1>2, <3>1, <4>1 DEF Distance
      <4>3. Learned(u) = Learned(t)
        BY <3>1, <4>1 DEF Learned, Deriving
      <4>4. \A d \in Calls : DerivesOK(call[d])
        BY <1>8 DEF CacheHeld
      <4>5. Latest([call EXCEPT ![c] = u], channel', replies', cachedWallet, Stored)
        BY <1>1, <1>11, <2>2, <4>1, <4>2, <4>3, <4>4, LatestCloser
      <4> QED BY <1>2, <4>5
    <3>2. CASE t.pc \notin Deriving
      <4>1. Distance(t) = 0 /\ Distance(u) = 0
        BY <1>2, <1>12, <3>2 DEF Distance, Told
      <4>2. Latest([call EXCEPT ![c] = u], channel', replies', cachedWallet, Stored)
        BY <1>1, <1>11, <2>2, <4>1, LatestAside
      <4> QED BY <1>2, <4>2
    <3> QED BY <3>1, <3>2
  <2>3. Idling => Idling'
    <3>1. Idling => t.pc \notin Deriving
      BY <1>2 DEF Idling, Distance
    <3> QED BY <1>2, <1>4, <1>12, <3>1 DEF Idling
  <2> QED BY <1>8, <1>9, <1>10, <2>1, <2>2, <2>3 DEF CacheHeld
<1>13. CASE /\ KeptOnDevice /\ KeptOnDevice'
            /\ t.pc = "save" /\ u.at = "reply" /\ (u.ok <=> t.m \notin Invalid)
            /\ UNCHANGED tasks /\ t.m \in Mnemonics /\ prefs' = t.m
            /\ everStored' = everStored \cup {t.m}
  <2>1. Stored' = t.m
    BY <1>1, <1>13, OneStored DEF PrefsPhrase
  <2>2. Distance(u) = 3 /\ Learned(u) = Stored'
    BY <1>2, <1>13, <2>1 DEF Distance, Told, Learned, SameCall, Deriving
  <2>3. Latest([call EXCEPT ![c] = u], channel', Append(replies, c), cachedWallet, Learned(u))
    BY <1>1, <2>2, LatestTold
  <2>4. Latest(call', channel', replies', cachedWallet', Stored')
    BY <1>2, <1>13, <2>2, <2>3
  <2>5. NoneTells(tasks, call) /\ \A i \in 1..Len(tasks) : ~Orphan(tasks[i])
    BY <1>13, CKnown
  <2> QED BY <1>9, <1>10, <2>4, <2>5 DEF CacheHeld
<1> QED BY <1>6, <1>12, <1>13

\* With Block Store only, what is executed or fails now is not behind anything executed.
LEMMA NoneBehind ==
  ASSUME CacheInv, KeptInCloud, NEW i \in 1..Len(tasks), tasks[i].st = "pending"
  PROVE  \A j \in 1..Len(tasks) : i < j => ~Teller(tasks[j], call)
<1>1. InOrder(tasks) /\ "reorder" \notin env.faults
  BY CKnown, PKnown DEF KeptInCloud
<1> QED BY <1>1 DEF InOrder, Executed, Teller

\* An earlier process asked for task i: no task before it is waited for, and none after it
\* tells a phrase.
LEMMA OrphanAlone ==
  ASSUME CacheInv, KeptInCloud, NEW i \in 1..Len(tasks), tasks[i].st = "pending", ~tasks[i].live
  PROVE  NoneTells(tasks, call)
<1>1. InOrder(tasks) /\ \A j \in 1..Len(tasks) : Fits(tasks[j], call)
  BY CKnown, PKnown
<1>2. \A j \in 1..Len(tasks) : j < i \/ j = i \/ i < j
  BY CKnown, PKnown
<1>3. \A j \in 1..Len(tasks) : j < i => ~tasks[j].live
  BY <1>1 DEF InOrder
<1>4. \A j \in 1..Len(tasks) : ~tasks[j].live => ~Teller(tasks[j], call)
  BY <1>1 DEF Fits, Teller
<1> QED BY <1>2, <1>3, <1>4, NoneBehind DEF NoneTells

LEMMA CacheExecuted ==
  ASSUME CacheInv, PlayInv', NEW i \in 1..Len(tasks), NEW t \in Task, Played(i, t)
  PROVE  CacheOK'
<1>1. /\ PlayInv /\ tasks \in Seq(Task) /\ NoMnemonic \notin Mnemonics /\ NoCall \notin Calls
      /\ tasks[i] \in Task /\ TaskOK(tasks[i], Trusted) /\ Fits(tasks[i], call)
      /\ tasks[i].call \in Calls => WaitedFor(tasks[i], call[tasks[i].call])
  BY CKnown, PKnown
<1>2. /\ tasks[i].st = "pending" /\ Becomes(i, t)
      /\ UNCHANGED <<env, cachedWallet, call, channel, replies, prefs, disk>>
      /\ t.kind = tasks[i].kind /\ t.call = tasks[i].call /\ t.live = tasks[i].live
      /\ t.force = tasks[i].force /\ (t.kind = "store" => t.m = tasks[i].m)
      /\ everStored \subseteq everStored'
  BY DEF Played, Becomes, dartVars
<1>3. /\ HasListener(t) => tasks' = [tasks EXCEPT ![i] = t]
      /\ ~HasListener(t) => tasks' = RemoveAt(tasks, i)
  BY <1>2 DEF Becomes, Settle
<1>4. ~Teller(tasks[i], call)
  BY <1>2 DEF Teller
<1>5. \A j \in 1..Len(tasks') : tasks'[j] = t \/ \E k \in 1..Len(tasks) : tasks'[j] = tasks[k]
  <2>1. CASE HasListener(t)
    BY <1>1, <1>3, <2>1, ExceptSeq
  <2>2. CASE ~HasListener(t)
    BY <1>1, <1>3, <2>2, LeftInOrder
  <2> QED BY <2>1, <2>2
<1>6. t.st # "pending"
  BY DEF Played
<1> SUFFICES ASSUME OneStore(env)
             PROVE  /\ KeptOnDevice' \/ KeptInCloud'
                    /\ everStored' \cap Invalid = {} => CacheHeld'
  BY <1>2, CKnown DEF CacheOK
<1>7. ASSUME KeptOnDevice PROVE KeptOnDevice' /\ Stored' = Stored
  <2>1. t.kind = "retrieve" /\ cloud' = cloud /\ (t.st = "ok" => t.m = NoMnemonic)
    BY <1>2, <1>7 DEF KeptOnDevice, Played
  <2>2. KeptOnDevice'
    BY <1>2, <1>5, <1>7, <2>1 DEF KeptOnDevice
  <2> QED BY <1>1, <1>2, <1>7, <2>2, OneStored DEF PrefsPhrase
<1>8. ASSUME KeptInCloud PROVE KeptInCloud' /\ Stored' = cloud' /\ Stored = cloud
  <2>1. KeptInCloud'
    BY <1>2, <1>5, <1>8 DEF KeptInCloud
  <2> QED BY <1>1, <1>8, <2>1, OneStored
<1>9. KeptOnDevice' \/ KeptInCloud'
  BY <1>7, <1>8, CKnown
<1> SUFFICES ASSUME everStored' \cap Invalid = {} PROVE CacheHeld'
  BY <1>9
<1>10. CacheHeld
  BY <1>2, CKnown
<1>11. \A j \in 1..Len(tasks') : Orphan(tasks'[j]) => \E k \in 1..Len(tasks) : Orphan(tasks[k])
  BY <1>5, <1>6 DEF Orphan
<1>12. SUFFICES \/ NoneTells(tasks', call) /\ Latest(call, channel, replies, cachedWallet, Stored')
                \/ LastTells(tasks', call, Stored')
  BY <1>2, <1>10, <1>11 DEF CacheHeld, Idling
<1>13. ~Teller(t, call) =>
         /\ NoneTells(tasks, call) => NoneTells(tasks', call)
         /\ LastTells(tasks, call, Stored) => LastTells(tasks', call, Stored)
  <2>1. CASE HasListener(t)
    BY <1>1, <1>2, <1>3, <2>1, TellsChanged
  <2>2. CASE ~HasListener(t)
    BY <1>1, <1>3, <1>4, <2>2, TellsLeft
  <2> QED BY <2>1, <2>2
<1>14. CASE ~Teller(t, call) /\ Stored' = Stored
  BY <1>10, <1>13, <1>14 DEF CacheHeld
<1>15. CASE KeptInCloud /\ Teller(t, call)
  <2>1. HasListener(t)
    BY <1>1, <1>2, <1>15 DEF Teller, Fits, HasListener, TaskOK
  <2>2. LastTells([tasks EXCEPT ![i] = t], call, t.m)
    BY <1>1, <1>2, <1>15, NoneBehind, TellsChanged
  <2>3. t.m = cloud'
    BY <1>1, <1>2, <1>15 DEF Played, Teller, TaskOK
  <2> QED BY <1>3, <1>8, <1>15, <2>1, <2>2, <2>3
<1>16. CASE KeptInCloud /\ ~Teller(t, call) /\ Stored' # Stored
  <2>1. t.kind = "store" /\ t.st = "ok" /\ cloud' = t.m /\ t.m \in Mnemonics /\ t.m \in everStored'
    <3>1. tasks[i].kind # "delete"
      BY <1>16 DEF KeptInCloud
    <3> QED BY <1>1, <1>2, <1>8, <1>16, <3>1 DEF Played, TaskOK
  <2>2. t.call \notin Calls
    <3>1. t.call \in Calls => call[t.call].pc = "save"
      BY <1>1, <1>2, <2>1, CKnown DEF WaitedFor, MovePoints
    <3> QED BY <1>1, <1>16, <2>1, <3>1 DEF Teller
  <2>3. ~tasks[i].live
    BY <1>1, <1>2, <2>1, <2>2 DEF Fits, Task
  <2>4. NoneTells(tasks, call)
    BY <1>2, <1>16, <2>3, OrphanAlone
  <2>5. Idling
    BY <1>2, <1>10, <2>1, <2>3 DEF CacheHeld, Orphan
  <2>6. Latest(call, channel, replies, cachedWallet, Stored')
    BY <2>5 DEF Latest, Idling
  <2> QED BY <1>13, <1>16, <2>4, <2>6
<1>17. CASE KeptOnDevice
  <2>1. t.m = NoMnemonic \/ t.st # "ok"
    BY <1>2, <1>17 DEF KeptOnDevice, Played
  <2> QED BY <1>7, <1>14, <1>17, <2>1 DEF Teller
<1> QED BY <1>14, <1>15, <1>16, <1>17, CKnown

\* What a listener does to the store in use.
LEMMA ReportStores ==
  ASSUME CacheInv, PlayInv', OneStore(env), NEW i \in 1..Len(tasks), Reports(i)
  PROVE  /\ (KeptOnDevice /\ KeptOnDevice') \/ (KeptInCloud /\ KeptInCloud')
         /\ Stored' = Stored /\ everStored' = everStored
<1>1. /\ PlayInv /\ (KeptOnDevice \/ KeptInCloud) /\ tasks \in Seq(Task)
      /\ UNCHANGED <<env, cloud>> /\ tasks' = RemoveAt(tasks, i)
      /\ Garbage # NoMnemonic /\ "commit" \notin env.faults
  BY CKnown, PKnown, OneStoreOnes DEF Reports
<1>2. \A j \in 1..Len(tasks') : \E k \in 1..Len(tasks) : tasks'[j] = tasks[k]
  <2>1. \A j \in 1..Len(RemoveAt(tasks, i)) : /\ Old(i, j) \in 1..Len(tasks)
                                              /\ RemoveAt(tasks, i)[j] = tasks[Old(i, j)]
    BY <1>1, LeftInOrder
  <2> QED BY <1>1, <2>1
<1>3. CASE KeptOnDevice
  <2>1. tasks[i].kind # "store"
    BY <1>3 DEF KeptOnDevice
  <2>2. PrefsPhrase' = PrefsPhrase /\ everStored' = everStored
    BY <1>1, <2>1, ReportWrites DEF PrefsPhrase
  <2>3. KeptOnDevice'
    BY <1>1, <1>2, <1>3 DEF KeptOnDevice
  <2> QED BY <1>1, <1>3, <2>2, <2>3, OneStored
<1>4. CASE KeptInCloud
  <2>1. tasks[i].kind = "store" => tasks[i].force
    BY <1>4 DEF KeptInCloud
  <2>2. UNCHANGED <<prefs, disk, everStored>>
    BY <1>1, <1>4, <2>1, ReportWrites DEF KeptInCloud
  <2>3. KeptInCloud'
    BY <1>1, <1>2, <1>4, <2>2 DEF KeptInCloud
  <2> QED BY <1>1, <1>4, <2>2, <2>3, OneStored
<1> QED BY <1>1, <1>3, <1>4

\* What the listener tells the call: a phrase that is stored, or the one its task tells.
LEMMA ReportTells ==
  ASSUME CacheInv, OneStore(env), NEW i \in 1..Len(tasks), Reports(i),
         NEW ok \in BOOLEAN, NEW val \in Values, Informs(i, ok, val)
  PROVE  LET c == tasks[i].call
             u == call'[c]
         IN
         /\ c \in Calls /\ Distance(call[c]) = 0
         /\ \/ Distance(u) = 0 /\ ~Teller(tasks[i], call)
            \/ Distance(u) = 3 /\ Learned(u) = Stored /\ KeptOnDevice
            \/ Distance(u) = 3 /\ Learned(u) = tasks[i].m /\ Teller(tasks[i], call) /\ KeptInCloud
<1> DEFINE t == tasks[i]
           c == t.call
           u == call'[c]
<1>1. /\ PlayInv /\ (KeptOnDevice \/ KeptInCloud)
      /\ c \in Calls /\ call[c].at = "platform" /\ SameCall(u, call[c]) /\ u.at = "reply"
      /\ u.ok = ok /\ u.val = val
      /\ t.kind = "retrieve" /\ call[c].pc \in Reading =>
           val = IF t.st = "ok" /\ t.m # NoMnemonic THEN t.m ELSE PrefsPhrase
      /\ t.kind = "store" => (ok <=> t.st = "ok" \/ ~t.force)
      /\ call[c].pc \notin MovePoints
  BY CKnown, InformedIs DEF Informs
<1>2. /\ t \in Task /\ TaskOK(t, Trusted) /\ WaitedFor(t, call[c]) /\ NoMnemonic \notin Mnemonics
      /\ Garbage # NoMnemonic
  BY <1>1, PKnown
<1>3. /\ call[c].pc \in Reading \cup {"eligible", "save"}
      /\ t.kind = "retrieve" => call[c].pc \in Reading \cup {"eligible"}
      /\ t.kind = "store" => call[c].pc = "save" /\ call[c].m = t.m /\ t.m \in Mnemonics
      /\ t.kind \in {"retrieve", "store"}
  <2>1. t.kind # "delete"
    BY <1>1, <1>2, PKnown DEF TaskOK
  <2>2. t.kind \in {"retrieve", "store"}
    BY <1>2, <2>1 DEF Task
  <2> QED BY <1>1, <1>2, <2>2 DEF WaitedFor, TaskOK, MovePoints
<1>4. u.pc = call[c].pc /\ u.m = call[c].m /\ call[c].pc \notin Deriving
  BY <1>1, <1>3 DEF SameCall, Reading, Deriving
<1>5. Distance(call[c]) = 0 /\ (Told(u) => Distance(u) = 3) /\ (~Told(u) => Distance(u) = 0)
  BY <1>1, <1>4 DEF Distance, Told
<1>6. CASE t.kind = "store"
  <2>1. KeptInCloud /\ t.force
    BY <1>1, <1>6 DEF KeptOnDevice, KeptInCloud
  <2>2. Told(u) <=> Teller(t, call)
    BY <1>1, <1>2, <1>3, <1>4, <1>6, <2>1 DEF Told, Teller
  <2>3. Learned(u) = t.m
    BY <1>3, <1>4, <1>6 DEF Learned
  <2> QED BY <1>1, <1>5, <2>1, <2>2, <2>3
<1>7. CASE t.kind = "retrieve"
  <2>1. CASE call[c].pc \notin {"read", "checkRead"}
    <3>1. ~Told(u) /\ ~Teller(t, call)
      BY <1>3, <1>4, <1>7, <2>1 DEF Told, Teller, Reading
    <3> QED BY <1>1, <1>5, <3>1
  <2>2. CASE call[c].pc \in {"read", "checkRead"}
    <3>1. /\ val = IF t.st = "ok" /\ t.m # NoMnemonic THEN t.m ELSE PrefsPhrase
          /\ ok = TRUE
      BY <1>1, <1>7, <2>2 DEF Reading, Informs
    <3>2. (Told(u) <=> val # NoMnemonic) /\ Learned(u) = val
      BY <1>1, <1>4, <2>2, <3>1 DEF Told, Learned
    <3>3. CASE KeptOnDevice
      <4>1. val = Stored /\ ~Teller(t, call)
        BY <3>1, <3>3, CKnown DEF KeptOnDevice, Teller
      <4> QED BY <1>1, <1>5, <3>2, <3>3, <4>1
    <3>4. CASE KeptInCloud
      <4>1. PrefsPhrase = NoMnemonic
        BY <1>2, <3>4 DEF KeptInCloud, PrefsPhrase
      <4>2. Teller(t, call) <=> val # NoMnemonic
        BY <1>1, <2>2, <3>1, <4>1 DEF Teller
      <4>3. Teller(t, call) => val = t.m
        BY <3>1 DEF Teller
      <4> QED BY <1>1, <1>5, <3>2, <3>4, <4>2, <4>3
    <3> QED BY <1>1, <3>3, <3>4
  <2> QED BY <2>1, <2>2
<1> QED BY <1>3, <1>6, <1>7

\* With Block Store only, the task that reports to a call is the first, and no store of an
\* earlier process is under way.
LEMMA ReportsFirst ==
  ASSUME CacheInv, KeptInCloud, NEW i \in 1..Len(tasks), Reports(i), tasks[i].call \in Calls
  PROVE  i = 1 /\ \A j \in 1..Len(tasks) : tasks[j].live
<1>1. /\ InOrder(tasks) /\ tasks[i].live /\ "reorder" \notin env.faults
      /\ Len(tasks) \in Nat
  BY CKnown, PKnown DEF KeptInCloud, Fits
<1>2. Executed(tasks[i]) /\ \A j \in 1..(i - 1) : ~Executed(tasks[j])
  BY <1>1 DEF Reports, InTurn, Executed, NotExecuted
<1>3. \A j \in 1..(i - 1) : j \in 1..Len(tasks) /\ j < i
  BY <1>1
<1>4. \A j \in 1..(i - 1) : Executed(tasks[j])
  BY <1>1, <1>2, <1>3 DEF InOrder
<1>5. ~(1 \in 1..(i - 1))
  BY <1>2, <1>4
<1>6. i = 1
  BY <1>5
<1>7. \A j \in 1..Len(tasks) : j = i \/ i < j
  BY <1>6
<1> QED BY <1>1, <1>6, <1>7 DEF InOrder

LEMMA CacheReports ==
  ASSUME CacheInv, PlayInv', NEW i \in 1..Len(tasks), Reports(i)
  PROVE  CacheOK'
<1>1. /\ PlayInv /\ call \in [Calls -> CallState] /\ NoCall \notin Calls
      /\ replies \in Seq(Calls) /\ channel \in Seq(Calls)
      /\ Queued(channel, "channel", call) /\ Queued(replies, "reply", call)
      /\ tasks \in Seq(Task) /\ Fits(tasks[i], call)
  BY CKnown, PKnown
<1>2. tasks' = RemoveAt(tasks, i) /\ UNCHANGED <<env, cachedWallet, channel>>
  BY DEF Reports
<1>3. /\ NoneTells(tasks, call) => NoneTells(tasks', call)
      /\ LastTells(tasks, call, Stored) =>
           \/ LastTells(tasks', call, Stored)
           \/ /\ Teller(tasks[i], call) /\ tasks[i].m = Stored
              /\ i = 1 => NoneTells(tasks', call)
  BY <1>1, <1>2, TellsLeft
<1>4. \A j \in 1..Len(tasks') : \E k \in 1..Len(tasks) : tasks'[j] = tasks[k]
  <2>1. \A j \in 1..Len(RemoveAt(tasks, i)) : /\ Old(i, j) \in 1..Len(tasks)
                                              /\ RemoveAt(tasks, i)[j] = tasks[Old(i, j)]
    BY <1>1, LeftInOrder
  <2> QED BY <1>2, <2>1
<1>5. CASE UNCHANGED <<call, replies>> /\ (~tasks[i].live \/ tasks[i].call = NoCall)
  <2>1. ~Teller(tasks[i], call)
    BY <1>1, <1>5 DEF Fits, Teller
  <2>2. ASSUME OneStore(env)
        PROVE  /\ KeptOnDevice' \/ KeptInCloud'
               /\ everStored' \cap Invalid = {} => CacheHeld'
    <3>1. /\ (KeptOnDevice' \/ KeptInCloud') /\ Stored' = Stored /\ everStored' = everStored
      BY <2>2, ReportStores
    <3>2. ASSUME everStored \cap Invalid = {} PROVE CacheHeld'
      <4>1. CacheHeld
        BY <2>2, <3>2, CKnown
      <4> QED BY <1>2, <1>3, <1>4, <1>5, <2>1, <3>1, <4>1 DEF CacheHeld, Idling
    <3> QED BY <3>1, <3>2
  <2> QED BY <1>1, <1>2, <1>5, <2>2 DEF CacheOK
<1>6. ASSUME NEW ok \in BOOLEAN, NEW val \in Values, Informs(i, ok, val)
      PROVE  CacheOK'
  <2> DEFINE c == tasks[i].call
             u == call'[c]
  <2>1. /\ c \in Calls /\ call[c].at = "platform" /\ u \in CallState
        /\ SameCall(u, call[c]) /\ u.at = "reply"
        /\ \A d \in Calls \ {c} : call'[d] = call[d]
        /\ replies' = Append(replies, c)
    BY <1>1, <1>6, InformedIs DEF Informs
  <2> DEFINE s == Answered(call[c], ok, val)
  <2>2. call' = [call EXCEPT ![c] = s] /\ u = s
    BY <1>1, <1>6, <2>1 DEF Informs
  <2>3. s \in CallState /\ s.at = "reply" /\ s.pc = call[c].pc
    BY <2>1, <2>2 DEF SameCall
  <2> HIDE DEF s
  <2>4. Queued(channel', "channel", call') /\ Queued(replies', "reply", call')
    BY <1>1, <1>2, <2>1, <2>2, <2>3, QueuedKept, QueuedPushed
  <2> SUFFICES ASSUME OneStore(env)
               PROVE  /\ KeptOnDevice' \/ KeptInCloud'
                      /\ everStored' \cap Invalid = {} => CacheHeld'
    BY <1>2, <2>4 DEF CacheOK
  <2>5. /\ (KeptOnDevice /\ KeptOnDevice') \/ (KeptInCloud /\ KeptInCloud')
        /\ Stored' = Stored /\ everStored' = everStored
    BY ReportStores
  <2> SUFFICES ASSUME everStored \cap Invalid = {} PROVE CacheHeld'
    BY <2>5
  <2>6. CacheHeld
    BY CKnown
  <2>7. /\ Distance(call[c]) = 0
        /\ \/ Distance(s) = 0 /\ ~Teller(tasks[i], call)
           \/ Distance(s) = 3 /\ Learned(s) = Stored /\ KeptOnDevice
           \/ Distance(s) = 3 /\ Learned(s) = tasks[i].m /\ Teller(tasks[i], call) /\ KeptInCloud
    BY <1>6, <2>2, ReportTells
  <2>8. \A d \in Calls : DerivesOK(call'[d])
    <3>1. call[c].pc \notin Deriving
      BY <2>7 DEF Distance
    <3>2. DerivesOK(s)
      BY <2>3, <3>1 DEF DerivesOK
    <3> QED BY <2>1, <2>2, <2>6, <3>2 DEF CacheHeld
  <2>9. /\ NoneTells(tasks', call) <=> NoneTells(tasks', call')
        /\ LastTells(tasks', call, Stored) <=> LastTells(tasks', call', Stored)
    <3>1. \A d \in Calls : call'[d].pc = call[d].pc
      BY <2>1 DEF SameCall
    <3> QED BY <3>1, TellsSame
  <2>10. \A j \in 1..Len(tasks') : ~Orphan(tasks'[j])
    <3>1. CASE KeptOnDevice
      BY <1>4, <3>1, CKnown
    <3>2. CASE KeptInCloud
      <4>1. \A j \in 1..Len(tasks) : tasks[j].live
        BY <2>1, <3>2, ReportsFirst
      <4> QED BY <1>4, <4>1 DEF Orphan
    <3> QED BY <2>5, <3>1, <3>2
  <2>11. SUFFICES \/ NoneTells(tasks', call)
                     /\ Latest(call', channel', replies', cachedWallet', Stored)
                  \/ LastTells(tasks', call, Stored)
    BY <2>5, <2>8, <2>9, <2>10 DEF CacheHeld
  <2>12. ASSUME Distance(s) = 3
         PROVE  Latest(call', channel', replies', cachedWallet', Learned(s))
    <3>1. Latest([call EXCEPT ![c] = s], channel', Append(replies, c), cachedWallet', Learned(s))
      BY <1>1, <2>1, <2>3, <2>12, LatestTold
    <3> QED BY <2>1, <2>2, <3>1
  <2>13. CASE Distance(s) = 0 /\ ~Teller(tasks[i], call)
    <3>1. ASSUME Latest(call, channel, replies, cachedWallet, Stored)
          PROVE  Latest(call', channel', replies', cachedWallet', Stored)
      <4>1. Follows(channel, channel', c) /\ Follows(replies, replies', c)
        BY <1>1, <1>2, <2>1, FollowsSame, FollowsPushed
      <4>2. Latest([call EXCEPT ![c] = s], channel', replies', cachedWallet, Stored)
        BY <1>1, <2>1, <2>3, <2>7, <2>13, <3>1, <4>1, LatestAside
      <4> QED BY <1>2, <2>2, <4>2
    <3> QED BY <1>3, <2>6, <2>13, <3>1 DEF CacheHeld
  <2>14. CASE Distance(s) = 3 /\ Learned(s) = Stored /\ KeptOnDevice
    <3>1. NoneTells(tasks', call)
      BY <1>3, <2>14, CKnown
    <3> QED BY <2>12, <2>14, <3>1
  <2>15. CASE Distance(s) = 3 /\ Learned(s) = tasks[i].m /\ Teller(tasks[i], call) /\ KeptInCloud
    <3>1. i = 1
      BY <2>1, <2>15, ReportsFirst
    <3>2. LastTells(tasks, call, Stored)
      BY <2>6, <2>15 DEF CacheHeld, NoneTells
    <3>3. CASE tasks[i].m = Stored /\ NoneTells(tasks', call)
      BY <2>12, <2>15, <3>3
    <3> QED BY <1>3, <3>1, <3>2, <3>3
  <2> QED BY <2>7, <2>13, <2>14, <2>15
<1> QED BY <1>5, <1>6 DEF Reports

\* The process has ended: nothing is cached, and no call will be told anything.
LEMMA CacheEnds ==
  ASSUME CacheInv, AppKilled \/ DeviceRestored
  PROVE  CacheOK'
<1>1. PlayInv /\ env' = env /\ cachedWallet' = NoMnemonic /\ \A c \in Calls : call'[c] = Idle
  BY CKnown DEF AppKilled, DeviceRestored, DartKilled
<1>2. \A c \in Calls : call'[c].at = "none" /\ call'[c].pc = "returned"
  BY <1>1 DEF Idle, Ended
<1>3. \A c \in Calls : DerivesOK(call'[c]) /\ Distance(call'[c]) = 0
  BY <1>2 DEF DerivesOK, Distance, Told, Deriving
<1>4. Queued(channel', "channel", call') /\ Queued(replies', "reply", call')
  BY <1>2 DEF Queued
<1>5. NoneTells(tasks', call')
  BY <1>2 DEF NoneTells, Teller
<1>6. CacheHeld'
  BY <1>1, <1>3, <1>5 DEF CacheHeld, Latest, Idling
<1>7. (KeptOnDevice => KeptOnDevice') /\ (KeptInCloud => KeptInCloud')
  <2>1. CASE AppKilled
    <3>1. PICK n \in 0..Len(tasks) : tasks' = OrphanedTasks(n)
      BY <2>1 DEF AppKilled
    <3>2. /\ Len(tasks') = n
          /\ \A i \in 1..n : /\ i \in 1..Len(tasks)
                             /\ tasks'[i].kind = tasks[i].kind /\ tasks'[i].st = tasks[i].st
                             /\ tasks'[i].m = tasks[i].m /\ tasks'[i].force = tasks[i].force
      BY <1>1, <3>1, OrphansAre
    <3>3. prefs' = disk /\ UNCHANGED <<cloud, disk>>
      BY <2>1 DEF AppKilled
    <3> QED BY <1>1, <3>2, <3>3 DEF KeptOnDevice, KeptInCloud
  <2>2. CASE DeviceRestored
    <3>1. /\ tasks' = <<>> /\ cloud' \in {cloud, NoMnemonic} /\ prefs' = disk'
          /\ disk = NoMnemonic => disk' = NoMnemonic
      BY <2>2 DEF DeviceRestored
    <3> QED BY <1>1, <3>1 DEF KeptOnDevice, KeptInCloud
  <2> QED BY <2>1, <2>2
<1> QED BY <1>1, <1>4, <1>6, <1>7, CKnown DEF CacheOK

LEMMA CacheInitially ==
  Init => CacheInv
<1> SUFFICES ASSUME Init PROVE CacheInv
  OBVIOUS
<1>1. /\ cachedWallet = NoMnemonic /\ \A c \in Calls : call[c].pc = "returned" /\ call[c].at = "none"
      /\ cloud = NoMnemonic /\ prefs = NoMnemonic /\ disk = NoMnemonic /\ tasks = <<>>
  BY DEF Init, DartInit, Idle, Ended
<1>2. \A c \in Calls : DerivesOK(call[c]) /\ Distance(call[c]) = 0
  BY <1>1 DEF DerivesOK, Distance, Told, Deriving
<1>3. Queued(channel, "channel", call) /\ Queued(replies, "reply", call)
  BY <1>1 DEF Queued
<1>4. CacheHeld
  BY <1>1, <1>2 DEF CacheHeld, Latest, NoneTells
<1>5. OneStore(env) => KeptOnDevice \/ KeptInCloud
  BY <1>1, OneStoreOnes DEF KeptOnDevice, KeptInCloud
<1> QED BY <1>3, <1>4, <1>5, PlayInitially DEF CacheInv, CacheOK

LEMMA CacheInductive ==
  CacheInv /\ [Next]_vars => CacheInv'
<1> SUFFICES ASSUME CacheInv, [Next]_vars PROVE CacheInv'
  OBVIOUS
<1>1. PlayInv /\ PlayInv'
  BY PlayInductive DEF CacheInv
<1>2. CacheOK'
  <2>1. CASE UNCHANGED <<env, cachedWallet, call, channel, replies, cloud, prefs, disk, tasks, everStored>>
    BY <2>1 DEF CacheInv, CacheOK, KeptOnDevice, KeptInCloud, CacheHeld, Idling, Stored, SettledCloud,
                PrefsPhrase
  <2> QED BY <1>1, <2>1, StepsAre, CacheDart, CacheHandled, CacheExecuted, CacheReports, CacheEnds
<1> QED BY <1>1, <1>2 DEF CacheInv

\* What the cache will hold: the invariant in every state.
THEOREM CacheInvariant ==
  Spec => []CacheInv
<1> QED BY CacheInitially, CacheInductive, PTL DEF Spec

\* With one store in use, concurrent calls, Block Store calls that fail, and processes that
\* end and leave stores behind: between calls the cached wallet is the stored one.  What
\* Block Store has executed reports in order, and the two queues of the method channel
\* keep the order, so the call that was told the stored phrase last caches it last.
THEOREM CacheAgreesWithStored ==
  Spec => []CacheStaysTrue
<1>1. CacheInv => CacheStaysTrue
  <2> SUFFICES ASSUME CacheInv, OneStore(env), everStored \cap Invalid = {},
                      \A c \in Calls : ~Running(c)
               PROVE  cachedWallet \in {NoMnemonic, Stored}
    BY DEF CacheStaysTrue, CacheAgrees
  <2>1. CacheHeld /\ PlayInv
    BY CKnown
  <2>2. \A c \in Calls : call[c].pc \in {"returned", "threw"}
    BY DEF Running
  <2>3. \A c \in Calls : Distance(call[c]) = 0
    BY <2>1, <2>2, PKnown DEF Distance, Told, Deriving
  <2>4. NoneTells(tasks, call)
    BY <2>2 DEF NoneTells, Teller
  <2>5. ~LastTells(tasks, call, Stored)
    BY <2>4 DEF NoneTells, LastTells
  <2>6. Latest(call, channel, replies, cachedWallet, Stored)
    BY <2>1, <2>5 DEF CacheHeld
  <2> QED BY <2>3, <2>6 DEF Latest
<1> QED BY <1>1, CacheInvariant, PTL

-----------------------------------------------------------------------------
(* WalletAndroid implements WalletContract, for any phrases, environments  *)
(* and bound on the Block Store calls under way, where the app awaits each *)
(* call and keeps its wallets in one location: in Block Store, which       *)
(* answers in order and may refuse a store, or in the preferences,         *)
(* whatever becomes of the calls to Block Store and whenever the app is    *)
(* killed.  What the Dart half does was seen to serve the contract in      *)
(* WalletManager_proofs.                                                   *)

InCloud(e) ==
  /\ e.faults \subseteq {"store"}
  /\ \A cfg \in e.configs : cfg.saveToCloud /\ cfg.rejectOnCloudSaveFailure

OnDevice(e) ==
  /\ e.faults \cap {"commit", "restore"} = {}
  /\ \A cfg \in e.configs : ~cfg.saveToCloud

\* The phrases pass the check, and the environments are those of the contract.
ContractAssumption ==
  /\ Invalid = {}
  /\ \A e \in Environments : e.serial /\ (InCloud(e) \/ OnDevice(e))

\* The location that is not in use is empty, and no Block Store call will change that.
HeldInCloud == InCloud(env) /\ SteadyOK /\ prefs = NoMnemonic /\ disk = NoMnemonic

HeldOnDevice ==
  /\ OnDevice(env)
  /\ cloud = NoMnemonic /\ prefs # Garbage /\ disk = prefs
  /\ \A i \in 1..Len(tasks) :
       tasks[i].kind # "store" /\ (tasks[i].st = "ok" => tasks[i].m = NoMnemonic)

LocationOK == HeldInCloud \/ HeldOnDevice

\* A store that Block Store has been asked for, and has not carried out, is allowed.
MayStore(c) ==
  call[c].pc = "save" /\ call[c].at = "platform" /\ ~Acted(c)
    => call[c].overwrite \/ Stored = NoMnemonic

CInv ==
  /\ PlayInv
  /\ LocationOK
  /\ Alone
  /\ \A c \in Calls : Active(c) => Agrees(call[c], Stored, env.configs) /\ MayStore(c)
  /\ cachedWallet \in {NoMnemonic, Stored} \/ \E c \in Calls : Acted(c)

\* A step of the contract, or none.
ContractStep == [Contract!Next]_(Contract!contractVars)

\* What the contract sees of a call.
Shown(c) == Request(call[c], Acted(c))

\* Block Store has carried out what c waits for.
Done(list, c) == \E i \in 1..Len(list) : list[i].call = c /\ list[i].st = "ok"

\* Where the wallet is.
LEMMA StoredIs ==
  /\ HeldInCloud => Stored = SettledCloud
  /\ HeldInCloud' => Stored' = SettledCloud'
  /\ HeldOnDevice => Stored = prefs
  /\ HeldOnDevice' => Stored' = prefs'
<1>1. HeldInCloud => Stored = SettledCloud
  BY DEF HeldInCloud, Stored, PrefsPhrase
<1>2. HeldInCloud' => Stored' = SettledCloud'
  BY DEF HeldInCloud, Stored, PrefsPhrase
<1>3. HeldOnDevice => Stored = prefs
  BY DEF HeldOnDevice, Stored, PrefsPhrase, SettledCloud
<1>4. HeldOnDevice' => Stored' = prefs'
  BY DEF HeldOnDevice, Stored, PrefsPhrase, SettledCloud
<1> QED BY <1>1, <1>2, <1>3, <1>4

\* Which calls have had their effect, before and after a step.
LEMMA ActedIs ==
  /\ PlayInv => \A c \in Calls :
       Acted(c) <=> Confirmed(call[c]) \/ (call[c].pc = "save" /\ Done(tasks, c))
  /\ PlayInv' => \A c \in Calls :
       Acted(c)' <=> Confirmed(call'[c]) \/ (call'[c].pc = "save" /\ Done(tasks', c))
<1>1. ASSUME PlayInv PROVE DOMAIN tasks = 1..Len(tasks)
  BY <1>1, PKnown, LenProperties
<1>2. ASSUME PlayInv' PROVE DOMAIN tasks' = 1..Len(tasks')
  <2>1. tasks' \in Seq(Task)
    BY <1>2 DEF PlayInv, IInv, TypeOK
  <2> QED BY <2>1, LenProperties
<1>3. ASSUME PlayInv, NEW c \in Calls
      PROVE  Acted(c) <=> Confirmed(call[c]) \/ (call[c].pc = "save" /\ Done(tasks, c))
  BY <1>1, <1>3 DEF Acted, Done
<1>4. ASSUME PlayInv', NEW c \in Calls
      PROVE  Acted(c)' <=> Confirmed(call'[c]) \/ (call'[c].pc = "save" /\ Done(tasks', c))
  BY <1>2, <1>4 DEF Acted, Done, Confirmed
<1> QED BY <1>3, <1>4

\* Block Store has done nothing for a call that does not wait for it.
LEMMA UnawaitedActs ==
  /\ PlayInv => \A c \in Calls :
       call[c].at # "platform" => ~Done(tasks, c) /\ (Acted(c) <=> Confirmed(call[c]))
  /\ PlayInv' => \A c \in Calls :
       call'[c].at # "platform" => ~Done(tasks', c) /\ (Acted(c)' <=> Confirmed(call'[c]))
<1>1. ASSUME PlayInv, NEW c \in Calls, call[c].at # "platform"
      PROVE  ~Done(tasks, c)
  BY <1>1, PKnown DEF WaitedFor, Done
<1>2. ASSUME PlayInv', NEW c \in Calls, call'[c].at # "platform"
      PROVE  ~Done(tasks', c)
  BY <1>2 DEF PlayInv, IInv, TasksOK, WaitedFor, Done
<1> QED BY <1>1, <1>2, ActedIs

\* Where nothing is stored in Block Store, a call has its effect in its handler.
LEMMA DeviceActs ==
  /\ PlayInv /\ HeldOnDevice => \A c \in Calls : Acted(c) <=> Confirmed(call[c])
  /\ PlayInv' /\ HeldOnDevice' => \A c \in Calls : Acted(c)' <=> Confirmed(call'[c])
<1>1. ASSUME PlayInv, HeldOnDevice, NEW c \in Calls, call[c].pc = "save"
      PROVE  ~Done(tasks, c)
  <2> SUFFICES ASSUME NEW i \in 1..Len(tasks), tasks[i].call = c PROVE FALSE
    BY DEF Done
  <2>1. /\ WaitedFor(tasks[i], call[c]) /\ TaskOK(tasks[i], Trusted) /\ tasks[i] \in Task
        /\ NoCall \notin Calls
    BY <1>1, PKnown
  <2> QED BY <1>1, <2>1 DEF HeldOnDevice, WaitedFor, TaskOK, Task, Reading
<1>2. ASSUME PlayInv', HeldOnDevice', NEW c \in Calls, call'[c].pc = "save"
      PROVE  ~Done(tasks', c)
  <2> SUFFICES ASSUME NEW i \in 1..Len(tasks'), tasks'[i].call = c PROVE FALSE
    BY DEF Done
  <2>1. /\ WaitedFor(tasks'[i], call'[c]) /\ TaskOK(tasks'[i], Trusted') /\ NoCall \notin Calls
        /\ tasks' \in Seq(Task)
    BY <1>2, PlatformAssumption DEF PlayInv, IInv, TasksOK, TypeOK
  <2>2. tasks'[i] \in Task
    BY <2>1, ElementOfSeq
  <2> QED BY <1>2, <2>1, <2>2 DEF HeldOnDevice, WaitedFor, TaskOK, Task, Reading
<1> QED BY <1>1, <1>2, ActedIs

\* A call to the contract: open, applied, or ended.
LEMMA ShownIs ==
  ASSUME NEW c \in Calls
  PROVE  /\ call[c].pc \in Points =>
              /\ ~Acted(c) => Shown(c) = Req(call[c].op, "open", call[c].overwrite, NoMnemonic)
              /\ Acted(c) => Shown(c) = Req(call[c].op, "applied", call[c].overwrite, call[c].m)
         /\ call'[c].pc \in Points =>
              /\ ~Acted(c)' => Shown(c)' = Req(call'[c].op, "open", call'[c].overwrite, NoMnemonic)
              /\ Acted(c)' => Shown(c)' = Req(call'[c].op, "applied", call'[c].overwrite, call'[c].m)
         /\ call[c].pc \in Finished =>
              Shown(c) = Req(call[c].op, call[c].pc, call[c].overwrite, call[c].val)
         /\ call'[c].pc \in Finished =>
              Shown(c)' = Req(call'[c].op, call'[c].pc, call'[c].overwrite, call'[c].val)
         /\ (Acted(c) <=> Confirmed(call[c])) => Shown(c) = Seen(call[c])
         /\ (Acted(c)' <=> Confirmed(call'[c])) => Shown(c)' = Seen(call'[c])
<1>1. Points \cap Finished = {}
  BY PointsAre DEF Finished
<1>2. call[c].pc \in Points =>
        /\ ~Acted(c) => Shown(c) = Req(call[c].op, "open", call[c].overwrite, NoMnemonic)
        /\ Acted(c) => Shown(c) = Req(call[c].op, "applied", call[c].overwrite, call[c].m)
  BY <1>1 DEF Shown, Request, Stage, Req
<1>3. call'[c].pc \in Points =>
        /\ ~Acted(c)' => Shown(c)' = Req(call'[c].op, "open", call'[c].overwrite, NoMnemonic)
        /\ Acted(c)' => Shown(c)' = Req(call'[c].op, "applied", call'[c].overwrite, call'[c].m)
  BY <1>1 DEF Shown, Request, Stage, Req
<1>4. call[c].pc \in Finished =>
        Shown(c) = Req(call[c].op, call[c].pc, call[c].overwrite, call[c].val)
  BY DEF Shown, Request, Stage, Req
<1>5. call'[c].pc \in Finished =>
        Shown(c)' = Req(call'[c].op, call'[c].pc, call'[c].overwrite, call'[c].val)
  BY DEF Shown, Request, Stage, Req
<1>6. (Acted(c) <=> Confirmed(call[c])) => Shown(c) = Seen(call[c])
  BY DEF Shown, Seen, Request, Stage
<1>7. (Acted(c)' <=> Confirmed(call'[c])) => Shown(c)' = Seen(call'[c])
  BY DEF Shown, Seen, Request, Stage
<1> QED BY <1>2, <1>3, <1>4, <1>5, <1>6, <1>7

\* Facts about every state.
LEMMA ContractKnown ==
  ASSUME ContractAssumption, CInv
  PROVE  /\ PlayInv /\ Alone /\ LocationOK /\ env.serial /\ Invalid = {}
         /\ HeldInCloud => Steady(env) /\ SteadyInv
         /\ Stored \in Mnemonics \cup {NoMnemonic}
         /\ \A c \in Calls : call[c] \in CallState /\ (Active(c) => call[c].pc \in Points)
         /\ \A c \in Calls : Acted(c) => Active(c)
<1>1. PlayInv /\ Alone /\ LocationOK /\ env \in Environments /\ Invalid = {}
  BY DEF ContractAssumption, CInv, PlayInv, IInv, TypeOK, DartTypeOK
<1>2. env.serial
  BY <1>1 DEF ContractAssumption
<1>3. HeldInCloud => Steady(env) /\ SteadyInv
  BY <1>1, <1>2 DEF HeldInCloud, InCloud, Steady, SteadyInv
<1>4. Stored \in Mnemonics \cup {NoMnemonic}
  BY <1>1 DEF PlayInv, IInv, TypeOK, Stored, SettledCloud, PrefsPhrase
<1>5. \A c \in Calls : call[c] \in CallState
  BY <1>1, PKnown
<1>6. \A c \in Calls : Active(c) => call[c].pc \in Points
  BY <1>5 DEF CallState, Active
<1>7. \A c \in Calls : Acted(c) => Active(c)
  BY DEF Acted, Confirmed, Active, Finished
<1> QED BY <1>1, <1>2, <1>3, <1>4, <1>5, <1>6, <1>7

\* While c runs, no other call does, and the cache is right until c has its effect.
LEMMA RunsAlone ==
  ASSUME ContractAssumption, CInv, NEW c \in Calls, call[c].pc \in Points
  PROVE  /\ Active(c) /\ \A d \in Calls : Active(d) => d = c
         /\ \A d \in Calls \ {c} : call[d].pc \in Finished
         /\ ~Acted(c) => cachedWallet \in {NoMnemonic, Stored}
         /\ Agrees(call[c], Stored, env.configs) /\ MayStore(c)
<1>1. Active(c)
  BY PointsAre DEF Active, Finished
<1>2. \A d \in Calls : Active(d) => d = c
  BY <1>1 DEF CInv, Alone
<1>3. \A d \in Calls \ {c} : call[d].pc \in Finished
  BY <1>2 DEF Active
<1>4. \A d \in Calls : Acted(d) => d = c
  BY <1>2, ContractKnown
<1> QED BY <1>1, <1>2, <1>3, <1>4 DEF CInv

-----------------------------------------------------------------------------
(* Steps.                                                                  *)

\* A step of one call, seen by the contract.
LEMMA Sets ==
  ASSUME CInv, NEW c \in Calls, NEW s \in CallState, call' = [call EXCEPT ![c] = s],
         \A d \in Calls \ {c} : call[d].pc \in Finished,
         NEW op, NEW stage, NEW overwrite, NEW val, Shown(c)' = Req(op, stage, overwrite, val)
  PROVE  Contract!Set(c, op, stage, overwrite, val)
<1> DEFINE r == [op |-> op, stage |-> stage, overwrite |-> overwrite, val |-> val]
<1>1. \A d \in Calls \ {c} : call'[d] = call[d]
  BY PKnown DEF CInv
<1>2. \A d \in Calls \ {c} : Shown(d)' = Shown(d)
  BY <1>1, ShownIs
<1>3. Shown(c)' = r
  BY DEF Req
<1> HIDE DEF r
<1> DEFINE before == [d \in Calls |-> Shown(d)]
           after == [d \in Calls |-> Shown(d)']
<1>4. \A d \in Calls : after[d] = IF d = c THEN r ELSE before[d]
  BY <1>2, <1>3
<1>5. /\ after = [d \in Calls |-> after[d]]
      /\ before = [d \in Calls |-> before[d]]
  OBVIOUS
<1> HIDE DEF before, after
<1>6. after = [before EXCEPT ![c] = r]
  BY <1>4, <1>5
<1>7. after = [d \in Calls |-> Shown(d)]' /\ before = [d \in Calls |-> Shown(d)]
  BY DEF before, after
<1> QED BY <1>6, <1>7 DEF r, Contract!Set, Shown

\* A step the contract does not see.
LEMMA Unseen ==
  ASSUME \A d \in Calls : Shown(d)' = Shown(d), Stored' = Stored
  PROVE  ContractStep
<1>1. [d \in Calls |-> Shown(d)]' = [d \in Calls |-> Shown(d)]
  OBVIOUS
<1> QED BY <1>1 DEF ContractStep, Contract!contractVars, Shown

\* A step of one call keeps the invariant, when it agrees with what is stored then.
LEMMA Keeps ==
  ASSUME CInv, PlayInv', NEW c \in Calls, NEW s \in CallState, call' = [call EXCEPT ![c] = s],
         env' = env, \A d \in Calls : Active(d) => d = c, LocationOK',
         s.pc \notin Finished => Agrees(s, Stored', env.configs) /\ MayStore(c)',
         cachedWallet' \in {NoMnemonic, Stored'} \/ Acted(c)'
  PROVE  CInv'
<1>1. \A d \in Calls : call'[d] = IF d = c THEN s ELSE call[d]
  BY PKnown DEF CInv
<1>2. \A d \in Calls : Active(d)' => d = c
  BY <1>1 DEF Active
<1>3. Alone'
  BY <1>2 DEF Alone
<1>4. \A d \in Calls : Active(d)' => Agrees(call'[d], Stored', env'.configs) /\ MayStore(d)'
  BY <1>1, <1>2 DEF Active
<1>5. cachedWallet' \in {NoMnemonic, Stored'} \/ \E d \in Calls : Acted(d)'
  OBVIOUS
<1> QED BY <1>3, <1>4, <1>5 DEF CInv

\* A step of no call.
LEMMA NothingShown ==
  ASSUME CInv, PlayInv', UNCHANGED <<env, call, cachedWallet>>, LocationOK', Stored' = Stored,
         \A c \in Calls : Acted(c)' <=> Acted(c)
  PROVE  CInv' /\ ContractStep
<1>1. \A c \in Calls : Shown(c)' = Shown(c)
  BY DEF Shown, Request, Stage
<1>2. CInv'
  BY DEF CInv, Alone, Active, MayStore
<1> QED BY <1>1, <1>2, Unseen

\* What the Dart half does in a step is a step of the contract, or none.
LEMMA ContractServed ==
  ASSUME CInv, PlayInv', NEW c \in Calls, Served(c, Stored), call[c].at # "platform",
         \A d \in Calls : Active(d) => d = c, LocationOK', Stored' = Stored
  PROVE  CInv' /\ ContractStep
<1> DEFINE r == Shown(c)
<1>1. PICK s \in CallState :
        /\ call' = [call EXCEPT ![c] = s] /\ env' = env
        /\ s.at \in {"none", "channel"}
        /\ s.pc \notin Finished => Agrees(s, Stored, env.configs)
        /\ cachedWallet' \in {NoMnemonic, Stored} \/ (s.pc \notin Finished /\ Confirmed(s))
        /\ Serves(Seen(call[c]), Seen(s), Stored)
  BY DEF Served
<1>2. call'[c] = s /\ s.at # "platform" /\ PlayInv
  BY <1>1, PKnown DEF CInv
<1>3. /\ Acted(c)' <=> Confirmed(s)
      /\ r = Seen(call[c])
      /\ Shown(c)' = Seen(s)
  BY <1>2, UnawaitedActs, ShownIs
<1>4. MayStore(c)'
  BY <1>2 DEF MayStore
<1>5. CInv'
  BY <1>1, <1>3, <1>4, Keeps
<1>6. Serves(r, Seen(s), Stored)
  BY <1>1, <1>3
<1>7. \A d \in Calls \ {c} : call[d].pc \in Finished /\ call'[d] = call[d]
  BY <1>1, <1>2, PKnown DEF Active
<1>8. ASSUME NEW op, NEW stage, NEW overwrite, NEW val, Seen(s) = Req(op, stage, overwrite, val)
      PROVE  Contract!Set(c, op, stage, overwrite, val)
  BY <1>1, <1>3, <1>7, <1>8, Sets
<1>9. [d \in Calls |-> Shown(d)][c] = r
  OBVIOUS
<1> HIDE DEF r
<1>10. ASSUME NEW how, NEW val, Seen(s) = Result(r.op, how, val)
       PROVE  Contract!End(c, how, val)
  <2>1. Contract!Set(c, r.op, how, FALSE, val)
    BY <1>8, <1>10 DEF Result
  <2> QED BY <1>9, <2>1 DEF Contract!End, Shown
<1>11. ASSUME NEW ops, r.stage = "open", r.op \in ops
       PROVE  Contract!Open(c, ops)
  BY <1>9, <1>11 DEF Contract!Open, Shown
<1>12. CASE Seen(s) = r
  <2>1. \A d \in Calls \ {c} : Shown(d)' = Shown(d)
    BY <1>7, ShownIs
  <2>2. Shown(c)' = Shown(c)
    BY <1>3, <1>12 DEF r
  <2>3. \A d \in Calls : Shown(d)' = Shown(d)
    BY <2>1, <2>2
  <2> QED BY <1>5, <2>3, Unseen
<1>13. CASE /\ NoneActive
            /\ \/ \E op \in Operations, overwrite \in BOOLEAN :
                    Seen(s) = Req(op, "open", overwrite, NoMnemonic)
               \/ Seen(s) = Result("getWallet", "returned", Stored)
               \/ Stored # NoMnemonic /\ Seen(s) = Result("importExistingWallet", "threw", NoMnemonic)
  <2>1. Contract!Free
    <3>1. \A d \in Calls : call[d].pc \in Finished
      BY <1>13 DEF NoneActive, Active
    <3>2. \A d \in Calls : Shown(d).stage \in Finished
      BY <3>1, ShownIs DEF Req
    <3> QED BY <3>2 DEF Contract!Free, Contract!Over, Finished, Shown
  <2>2. ASSUME NEW op \in Operations, NEW overwrite \in BOOLEAN,
               Seen(s) = Req(op, "open", overwrite, NoMnemonic)
        PROVE  Contract!Invoke(c)
    <3>1. op \in Contract!ContractOps
      BY DEF Operations, Contract!ContractOps, Contract!Saving, Contract!Reading
    <3>2. Contract!Set(c, op, "open", overwrite, NoMnemonic)
      BY <1>8, <2>2
    <3> QED BY <2>1, <3>1, <3>2 DEF Contract!Invoke
  <2>3. ASSUME \/ Seen(s) = Result("getWallet", "returned", Stored)
               \/ Stored # NoMnemonic /\ Seen(s) = Result("importExistingWallet", "threw", NoMnemonic)
        PROVE  Contract!AtOnce(c)
    <3>1. \/ Contract!Set(c, "getWallet", "returned", FALSE, Stored)
          \/ Stored # NoMnemonic /\ Contract!Set(c, "importExistingWallet", "threw", FALSE, NoMnemonic)
      BY <1>8, <2>3 DEF Result
    <3> QED BY <2>1, <3>1 DEF Contract!AtOnce
  <2> QED BY <1>5, <1>13, <2>2, <2>3 DEF ContractStep, Contract!Next
<1>14. CASE r.stage = "applied" /\ Seen(s) = Result(r.op, "returned", r.val)
  <2>1. Contract!End(c, "returned", r.val)
    BY <1>10, <1>14
  <2>2. Contract!ReturnApplied(c)
    BY <1>9, <1>14, <2>1 DEF Contract!ReturnApplied, Shown
  <2> QED BY <1>5, <2>2 DEF ContractStep, Contract!Next
<1>15. CASE r.stage = "open" /\ r.op \in {"getWallet", "getAccountPhrase"} /\ Seen(s) = Result(r.op, "returned", Stored)
  <2>1. Contract!End(c, "returned", Stored) /\ Contract!Open(c, Contract!Reading)
    BY <1>10, <1>11, <1>15 DEF Contract!Reading
  <2>2. Contract!ReturnRead(c)
    BY <2>1 DEF Contract!ReturnRead
  <2> QED BY <1>5, <2>2 DEF ContractStep, Contract!Next
<1>16. ASSUME r.stage = "open", r.op = "walletEligibleForCloudSync",
              NEW eligible \in BOOLEAN, eligible => Stored # NoMnemonic,
              Seen(s) = Result(r.op, "returned", eligible)
       PROVE  ContractStep
  <2>1. Contract!End(c, "returned", eligible) /\ Contract!Open(c, {"walletEligibleForCloudSync"})
    BY <1>10, <1>11, <1>16
  <2>2. Contract!ReturnEligible(c)
    BY <1>16, <2>1 DEF Contract!ReturnEligible
  <2> QED BY <2>2 DEF ContractStep, Contract!Next
<1>17. CASE r.stage = "open" /\ r.op = "updateWalletStorage" /\ Stored # NoMnemonic /\ Seen(s) = Result(r.op, "returned", NoMnemonic)
  <2>1. Contract!End(c, "returned", NoMnemonic) /\ Contract!Open(c, {"updateWalletStorage"})
    BY <1>10, <1>11, <1>17
  <2>2. Contract!ReturnUpdated(c)
    BY <1>17, <2>1 DEF Contract!ReturnUpdated
  <2> QED BY <1>5, <2>2 DEF ContractStep, Contract!Next
<1>18. CASE r.stage = "open" /\ r.op \in Savers \cup {"updateWalletStorage"} /\ Seen(s) = Result(r.op, "threw", NoMnemonic)
  <2>1. Contract!End(c, "threw", NoMnemonic) /\ Contract!Open(c, Contract!Saving \cup {"updateWalletStorage"})
    BY <1>10, <1>11, <1>18 DEF Contract!Saving, Savers
  <2>2. Contract!Throw(c)
    BY <2>1 DEF Contract!Throw
  <2> QED BY <1>5, <2>2 DEF ContractStep, Contract!Next
<1> QED BY <1>5, <1>6, <1>12, <1>13, <1>14, <1>15, <1>16, <1>17, <1>18 DEF Serves

\* The wallet stays where it is.
LEMMA LocationStays ==
  ASSUME CInv, UNCHANGED <<env, cloud, prefs, disk, tasks>>,
         HeldInCloud => SteadyOK'
  PROVE  LocationOK' /\ Stored' = Stored
<1>1. Stored' = Stored
  BY DEF Stored, SettledCloud, PrefsPhrase
<1>2. HeldInCloud => HeldInCloud'
  BY DEF HeldInCloud
<1>3. HeldOnDevice => HeldOnDevice'
  BY DEF HeldOnDevice
<1> QED BY <1>1, <1>2, <1>3 DEF CInv, LocationOK

\* A step of the Dart half.
LEMMA ContractDart ==
  ASSUME ContractAssumption, CInv, PlayInv', HeldInCloud => SteadyOK', NEW c \in Calls,
         AppCalls(c) \/ Continuations(c), UNCHANGED androidVars
  PROVE  CInv' /\ ContractStep
<1>1. /\ PlayInv /\ Alone /\ Dart(Trusted) /\ env.serial
      /\ Stored \in Mnemonics \cup {NoMnemonic}
  BY ContractKnown, PKnown
<1>2. /\ UNCHANGED <<env, cloud, prefs, disk, tasks>>
      /\ call[c].at # "platform"
  BY <1>1, DartDoes
<1>3. LocationOK' /\ Stored' = Stored
  BY <1>2, LocationStays
<1>4. \A d \in Calls : Active(d) => d = c
  BY <1>1, OnlyOneRuns
<1>5. Serving(c, Stored)
  <2>1. \A d \in Calls : Acted(d) => d = c
    BY <1>4, ContractKnown
  <2>2. Acted(c) <=> Confirmed(call[c])
    BY <1>1, <1>2, UnawaitedActs
  <2>3. cachedWallet \in {NoMnemonic, Stored} \/ Acted(c)
    BY <2>1 DEF CInv
  <2>4. Acted(c) => Active(c)
    BY ContractKnown
  <2> QED BY <2>2, <2>3, <2>4 DEF CInv, Serving
<1>6. Served(c, Stored)
  BY <1>1, <1>5, DartServes
<1> QED BY <1>2, <1>3, <1>4, <1>6, ContractServed

-----------------------------------------------------------------------------
(* The plugin's handlers.                                                  *)

\* What is done stays done while the tasks change.
LEMMA DonePushed ==
  ASSUME NEW list \in Seq(Task), NEW t \in Task, NEW c
  PROVE  Done(Append(list, t), c) <=> Done(list, c) \/ (t.call = c /\ t.st = "ok")
<1> DEFINE longer == Append(list, t)
<1>1. /\ Len(longer) = Len(list) + 1 /\ Len(list) \in Nat
      /\ \A i \in 1..Len(list) : longer[i] = list[i]
      /\ longer[Len(list) + 1] = t
      /\ \A i \in 1..(Len(list) + 1) : i \in 1..Len(list) \/ i = Len(list) + 1
  BY PushedIs
<1> HIDE DEF longer
<1>2. Len(list) + 1 \in 1..Len(longer) /\ \A i \in 1..Len(list) : i \in 1..Len(longer)
  BY <1>1
<1>3. Done(longer, c) <=> Done(list, c) \/ (t.call = c /\ t.st = "ok")
  BY <1>1, <1>2 DEF Done
<1> QED BY <1>3 DEF longer

\* What a handler finds: the call that waits, alone.
LEMMA HandlerFinds ==
  ASSUME ContractAssumption, CInv, PlayInv', NEW c \in Calls, NEW u \in CallState, Handled(c, u)
  PROVE  /\ call[c] \in CallState /\ call[c].at = "channel" /\ call[c].pc \in Points
         /\ call' = [call EXCEPT ![c] = u] /\ call'[c] = u /\ SameCall(u, call[c])
         /\ UNCHANGED <<env, cachedWallet, cloud>>
         /\ \A d \in Calls : Active(d) => d = c
         /\ \A d \in Calls \ {c} : call[d].pc \in Finished /\ call'[d] = call[d]
         /\ Agrees(call[c], Stored, env.configs)
         /\ ~Acted(c) => cachedWallet \in {NoMnemonic, Stored}
         /\ Acted(c) <=> Confirmed(call[c])
         /\ Acted(c)' <=> Confirmed(u)
<1>1. /\ call[c] \in CallState /\ call[c].at = "channel" /\ call[c].pc \in Points
      /\ call' = [call EXCEPT ![c] = u] /\ SameCall(u, call[c])
      /\ UNCHANGED <<env, cachedWallet, cloud>>
  BY DEF Handled
<1>2. /\ PlayInv /\ call'[c] = u /\ \A d \in Calls \ {c} : call'[d] = call[d]
      /\ tasks \in Seq(Task)
  BY <1>1, ContractKnown, PKnown
<1>3. Acted(c) <=> Confirmed(call[c])
  BY <1>1, <1>2, UnawaitedActs
<1>4. ~Done(tasks', c)
  <2>1. ~Done(tasks, c)
    BY <1>1, <1>2, UnawaitedActs
  <2>2. CASE UNCHANGED tasks
    BY <2>1, <2>2
  <2>3. CASE \E new \in Task : Makes(c, new)
    <3>1. PICK new \in Task : Makes(c, new)
      BY <2>3
    <3>2. tasks' = Append(tasks, new) /\ new.st # "ok"
      BY <3>1 DEF Makes
    <3> QED BY <1>2, <2>1, <3>2, DonePushed
  <2> QED BY <1>2, <2>2, <2>3, TaskMade
<1>5. Acted(c)' <=> Confirmed(u)
  BY <1>2, <1>4, ActedIs
<1> QED BY <1>1, <1>2, <1>3, <1>5, RunsAlone

\* The configuration that a call saves with is one of the app's.
LEMMA ConfigIs ==
  ASSUME NEW s, NEW stored, Agrees(s, stored, env.configs),
         s.pc \in {"save", "updSave", "updDelete"}
  PROVE  s.cfg \in env.configs
BY DEF Agrees, Waits, Savers

\* Where a handler leaves the wallet.
LEMMA HandlerPlaces ==
  ASSUME ContractAssumption, CInv, PlayInv', HeldInCloud => SteadyOK',
         NEW c \in Calls, NEW u \in CallState, Handled(c, u)
  PROVE  /\ LocationOK'
         /\ call[c].pc \notin {"save", "delete"} => Stored' = Stored
         /\ call[c].pc = "delete" => Stored' = NoMnemonic
         /\ call[c].pc = "save" =>
              \/ u.at = "reply" /\ u.ok /\ call[c].m \in Mnemonics /\ Stored' = call[c].m
              \/ ~(u.at = "reply" /\ u.ok) /\ Stored' = Stored
<1> DEFINE t == call[c]
<1>1. /\ PlayInv /\ LocationOK /\ Invalid = {} /\ CallOK(t, Trusted) /\ t \in CallState
      /\ UNCHANGED <<env, cloud>> /\ Agrees(t, Stored, env.configs) /\ PlaysPart(c, u)
      /\ NoMnemonic \notin Mnemonics /\ Garbage \notin Mnemonics \cup {NoMnemonic}
      /\ tasks \in Seq(Task)
  BY ContractKnown, HandlerFinds, PKnown DEF Handled
<1>2. t.pc \in {"save", "updSave", "updDelete"} => t.cfg \in env.configs
  BY <1>1, ConfigIs
<1>3. "commit" \notin env.faults
  BY <1>1 DEF LocationOK, HeldInCloud, HeldOnDevice, InCloud, OnDevice
<1>4. t.pc = "delete" => prefs' = NoMnemonic /\ disk' = NoMnemonic
  <2> SUFFICES ASSUME t.pc = "delete" PROVE prefs' = NoMnemonic /\ disk' = NoMnemonic
    OBVIOUS
  <2>1. Commit(NoMnemonic)
    BY <1>1 DEF PlaysPart, Reading
  <2> QED BY <1>3, <2>1, CommitIs
<1>5. t.pc # "delete" =>
        \/ UNCHANGED <<prefs, disk>>
        \/ /\ t.m \in Mnemonics /\ prefs' = t.m /\ disk' = t.m
           /\ t.pc \in {"save", "updSave"} /\ ~t.cfg.rejectOnCloudSaveFailure
           /\ u.at = "reply" /\ (u.ok <=> t.m \notin Invalid)
  BY <1>1, <1>3, HandlerWrites
<1>6. t.pc = "save" /\ u.at = "reply" /\ u.ok => ~t.cfg.rejectOnCloudSaveFailure /\ prefs' = t.m
  <2> SUFFICES ASSUME t.pc = "save", u.at = "reply", u.ok
               PROVE  ~t.cfg.rejectOnCloudSaveFailure /\ prefs' = t.m
    OBVIOUS
  <2>1. SaveHandled(c, u)
    BY <1>1 DEF PlaysPart, Reading
  <2>2. ~t.cfg.rejectOnCloudSaveFailure /\ Writes(t.m)
    BY <2>1 DEF SaveHandled
  <2> QED BY <2>2 DEF Writes, saveToSharedPref, Commit
<1>7. CASE HeldInCloud
  <2>1. \A cfg \in env.configs : cfg.saveToCloud /\ cfg.rejectOnCloudSaveFailure
    BY <1>7 DEF HeldInCloud, InCloud
  <2>2. t.pc # "updDelete"
    BY <1>1, <1>2, <2>1 DEF Agrees
  <2>3. prefs' = NoMnemonic /\ disk' = NoMnemonic
    BY <1>2, <1>4, <1>5, <1>7, <2>1 DEF HeldInCloud
  <2>4. HeldInCloud'
    BY <1>1, <1>7, <2>3 DEF HeldInCloud
  <2>5. /\ t.pc # "delete" => SettledCloud' = SettledCloud
        /\ t.pc = "delete" => SettledCloud' = NoMnemonic
    BY <1>1, <2>2, HandlerSettles
  <2>6. Stored = SettledCloud /\ Stored' = SettledCloud'
    BY <1>7, <2>4, StoredIs
  <2>7. ~(t.pc = "save" /\ u.at = "reply" /\ u.ok)
    BY <1>2, <1>6, <2>1
  <2> QED BY <2>4, <2>5, <2>6, <2>7 DEF LocationOK
<1>8. CASE HeldOnDevice
  <2>1. /\ \A cfg \in env.configs : ~cfg.saveToCloud
        /\ cloud = NoMnemonic /\ prefs # Garbage /\ disk = prefs
        /\ \A i \in 1..Len(tasks) :
             tasks[i].kind # "store" /\ (tasks[i].st = "ok" => tasks[i].m = NoMnemonic)
    BY <1>8 DEF HeldOnDevice, OnDevice
  <2>2. \A i \in 1..Len(tasks') :
          tasks'[i].kind # "store" /\ (tasks'[i].st = "ok" => tasks'[i].m = NoMnemonic)
    <3>1. CASE UNCHANGED tasks
      BY <2>1, <3>1
    <3>2. CASE \E new \in Task : Makes(c, new)
      <4>1. PICK new \in Task : Makes(c, new)
        BY <3>2
      <4>2. tasks' = Append(tasks, new) /\ new.st # "ok" /\ new.kind # "store"
        BY <1>2, <2>1, <4>1 DEF Makes
      <4>3. /\ Len(tasks') = Len(tasks) + 1
            /\ \A i \in 1..Len(tasks) : tasks'[i] = tasks[i]
            /\ tasks'[Len(tasks) + 1] = new
            /\ \A i \in 1..(Len(tasks) + 1) : i \in 1..Len(tasks) \/ i = Len(tasks) + 1
        BY <1>1, <4>2, PushedIs
      <4> QED BY <2>1, <4>2, <4>3
    <3> QED BY <1>1, <3>1, <3>2, TaskMade
  <2>3. prefs' # Garbage /\ disk' = prefs'
    BY <1>1, <1>4, <1>5, <2>1
  <2>4. HeldOnDevice'
    BY <1>1, <1>8, <2>1, <2>2, <2>3 DEF HeldOnDevice
  <2>5. Stored = prefs /\ Stored' = prefs'
    BY <1>8, <2>4, StoredIs
  <2>6. t.pc = "updSave" => t.m = Stored
    BY <1>1 DEF Agrees
  <2>7. t.pc \notin {"save", "delete"} => Stored' = Stored
    BY <1>5, <2>5, <2>6
  <2>8. t.pc = "save" =>
          \/ u.at = "reply" /\ u.ok /\ t.m \in Mnemonics /\ Stored' = t.m
          \/ ~(u.at = "reply" /\ u.ok) /\ Stored' = Stored
    <3>1. t.pc = "save" => t.m \in Mnemonics
      BY <1>1 DEF CallOK, Carrying
    <3> QED BY <1>1, <1>5, <1>6, <2>5, <3>1
  <2> QED BY <1>4, <2>4, <2>5, <2>7, <2>8 DEF LocationOK
<1> QED BY <1>1, <1>7, <1>8 DEF LocationOK

\* What a handler leaves of the call agrees with what is stored then.
LEMMA HandlerAgrees ==
  ASSUME ContractAssumption, CInv, PlayInv', HeldInCloud => SteadyOK',
         NEW c \in Calls, NEW u \in CallState, Handled(c, u)
  PROVE  /\ Agrees(u, Stored', env.configs)
         /\ MayStore(c)'
         /\ call[c].pc = "delete" => u.at = "reply"
<1> DEFINE t == call[c]
<1>1. /\ Invalid = {} /\ t \in CallState /\ t.at = "channel" /\ call'[c] = u
      /\ SameCall(u, t) /\ PlaysPart(c, u) /\ Agrees(t, Stored, env.configs)
  BY ContractKnown, HandlerFinds DEF Handled
<1>2. /\ t.pc \notin {"save", "delete"} => Stored' = Stored
      /\ t.pc = "delete" => Stored' = NoMnemonic
      /\ t.pc = "save" =>
           \/ u.at = "reply" /\ u.ok /\ Stored' = t.m
           \/ ~(u.at = "reply" /\ u.ok) /\ Stored' = Stored
  BY HandlerPlaces
<1>3. /\ u.pc = t.pc /\ u.op = t.op /\ u.cfg = t.cfg /\ u.overwrite = t.overwrite
      /\ u.m = t.m /\ u.r = t.r
  BY <1>1 DEF SameCall
<1>4. Waits(u.op, u.pc) /\ (u.cfg \in env.configs \/ u.op \notin Savers \cup {"updateWalletStorage"})
  BY <1>1, <1>3 DEF Agrees
<1>5. MayStore(c)'
  BY <1>1, <1>2, <1>3 DEF Agrees, MayStore
<1>6. CASE t.pc = "generate"
  <2>1. u.at = "reply" /\ u.ok /\ u.val \in Mnemonics
    BY <1>1, <1>6 DEF PlaysPart, Reading
  <2> QED BY <1>3, <1>4, <1>5, <1>6, <2>1 DEF Agrees, Reading
<1>7. CASE t.pc \in {"checkKey", "key", "makeKey"}
  <2>1. u.at = "reply" /\ u.ok
    BY <1>1, <1>7 DEF PlaysPart, Reading
  <2> QED BY <1>1, <1>2, <1>3, <1>4, <1>5, <1>7, <2>1 DEF Agrees, Reading
<1>8. CASE t.pc \in Reading \cup {"eligible"}
  <2>1. u.at = "platform"
    BY <1>1, <1>8 DEF PlaysPart, Reading
  <2> QED BY <1>3, <1>4, <1>5, <1>8, <2>1 DEF Agrees, Reading
<1>9. CASE t.pc = "save"
  <2>1. u.at # "channel"
    BY DEF Handled
  <2> QED BY <1>2, <1>3, <1>4, <1>5, <1>9, <2>1 DEF Agrees, Reading
<1>10. CASE t.pc = "updSave"
  BY <1>1, <1>2, <1>3, <1>4, <1>5, <1>10 DEF Agrees, Reading
<1>11. CASE t.pc = "updDelete"
  <2>1. u.at = "reply" /\ u.ok /\ u.val = TRUE
    BY <1>1, <1>11 DEF PlaysPart, Reading
  <2> QED BY <1>1, <1>2, <1>3, <1>4, <1>5, <1>11, <2>1 DEF Agrees, Reading
<1>12. CASE t.pc = "delete"
  <2>1. u.at = "reply" /\ u.ok /\ u.val = TRUE
    BY <1>1, <1>12 DEF PlaysPart, Reading
  <2> QED BY <1>1, <1>2, <1>3, <1>4, <1>5, <1>12, <2>1 DEF Agrees, Reading
<1> QED BY <1>1, <1>6, <1>7, <1>8, <1>9, <1>10, <1>11, <1>12 DEF PlaysPart

\* A handler: a save on the device and a delete have their effect in it, and no other.
LEMMA ContractHandled ==
  ASSUME ContractAssumption, CInv, PlayInv', HeldInCloud => SteadyOK',
         NEW c \in Calls, NEW u \in CallState, Handled(c, u)
  PROVE  CInv' /\ ContractStep
<1> DEFINE t == call[c]
<1>1. /\ t \in CallState /\ t.at = "channel" /\ t.pc \in Points
      /\ call' = [call EXCEPT ![c] = u] /\ call'[c] = u
      /\ UNCHANGED <<env, cachedWallet>>
      /\ \A d \in Calls : Active(d) => d = c
      /\ \A d \in Calls \ {c} : call[d].pc \in Finished /\ call'[d] = call[d]
      /\ Agrees(t, Stored, env.configs)
      /\ ~Acted(c) => cachedWallet \in {NoMnemonic, Stored}
      /\ Acted(c) <=> Confirmed(t)
      /\ Acted(c)' <=> Confirmed(u)
  BY HandlerFinds
<1>2. /\ u.pc = t.pc /\ u.op = t.op /\ u.overwrite = t.overwrite /\ u.m = t.m
  BY HandlerFinds DEF SameCall
<1>3. /\ LocationOK'
      /\ t.pc \notin {"save", "delete"} => Stored' = Stored
      /\ t.pc = "delete" => Stored' = NoMnemonic
      /\ t.pc = "save" =>
           \/ u.at = "reply" /\ u.ok /\ t.m \in Mnemonics /\ Stored' = t.m
           \/ ~(u.at = "reply" /\ u.ok) /\ Stored' = Stored
  BY HandlerPlaces
<1>4. Agrees(u, Stored', env.configs) /\ MayStore(c)' /\ (t.pc = "delete" => u.at = "reply")
  BY HandlerAgrees
<1>5. /\ Confirmed(t) <=> t.pc = "makeKey"
      /\ Confirmed(u) <=> \/ t.pc \in {"makeKey", "delete"}
                          \/ t.pc = "save" /\ u.at = "reply" /\ u.ok
  <2>1. t.pc = "delete" => u.ok
    BY <1>2, <1>4 DEF Agrees
  <2> QED BY <1>1, <1>2, <1>4, <2>1 DEF Confirmed
<1>6. CInv'
  BY <1>1, <1>3, <1>4, <1>5, Keeps
<1>7. /\ ~Acted(c) => Shown(c) = Req(t.op, "open", t.overwrite, NoMnemonic)
      /\ Acted(c) => Shown(c) = Req(t.op, "applied", t.overwrite, t.m)
      /\ ~Acted(c)' => Shown(c)' = Req(t.op, "open", t.overwrite, NoMnemonic)
      /\ Acted(c)' => Shown(c)' = Req(t.op, "applied", t.overwrite, t.m)
  BY <1>1, <1>2, ShownIs
<1>8. CASE Confirmed(u) <=> Confirmed(t)
  <2>1. Shown(c)' = Shown(c) /\ Stored' = Stored
    BY <1>1, <1>3, <1>5, <1>7, <1>8
  <2>2. \A d \in Calls \ {c} : Shown(d)' = Shown(d)
    BY <1>1, ShownIs
  <2>3. \A d \in Calls : Shown(d)' = Shown(d)
    BY <2>1, <2>2
  <2> QED BY <1>6, <2>1, <2>3, Unseen
<1>9. CASE ~(Confirmed(u) <=> Confirmed(t))
  <2>1. /\ Shown(c) = Req(t.op, "open", t.overwrite, NoMnemonic)
        /\ Shown(c)' = Req(t.op, "applied", t.overwrite, t.m)
    BY <1>1, <1>5, <1>7, <1>9
  <2>2. Contract!Set(c, t.op, "applied", t.overwrite, t.m)
    BY <1>1, <2>1, Sets
  <2> DEFINE r == Shown(c)
  <2>5. [d \in Calls |-> Shown(d)][c] = r
    OBVIOUS
  <2>6. r.op = t.op /\ r.stage = "open" /\ r.overwrite = t.overwrite
    BY <2>1 DEF Req
  <2> HIDE DEF r
  <2>3. CASE t.pc = "save"
    <3>1. /\ t.op \in Savers
          /\ t.overwrite \/ Stored = NoMnemonic
          /\ t.m \in Mnemonics /\ Stored' = t.m
      BY <1>1, <1>3, <1>5, <1>9, <2>3 DEF Agrees, Waits
    <3>2. Contract!Open(c, Contract!Saving)
      BY <2>5, <2>6, <3>1 DEF Contract!Open, Contract!Saving, Savers, Shown
    <3>3. Contract!Put(c)
      BY <2>2, <2>5, <2>6, <3>1, <3>2 DEF Contract!Put, Shown
    <3> QED BY <1>6, <3>3 DEF ContractStep, Contract!Next
  <2>4. CASE t.pc = "delete"
    <3>1. /\ t.op = "permanentlyDeleteWallet" /\ t.overwrite = FALSE /\ t.m = NoMnemonic
          /\ Stored' = NoMnemonic
      <4>1. t.overwrite \in BOOLEAN
        BY <1>1 DEF CallState
      <4> QED BY <1>1, <1>3, <2>4, <4>1 DEF Agrees, Waits
    <3>2. Contract!Open(c, {"permanentlyDeleteWallet"})
      BY <2>5, <2>6, <3>1 DEF Contract!Open, Shown
    <3>3. Contract!Remove(c)
      BY <2>2, <2>5, <2>6, <3>1, <3>2 DEF Contract!Remove, Shown
    <3> QED BY <1>6, <3>3 DEF ContractStep, Contract!Next
  <2> QED BY <1>5, <1>9, <2>3, <2>4
<1> QED BY <1>8, <1>9

-----------------------------------------------------------------------------
(* Play services, and the listeners.                                       *)

\* What is done when task i has been executed, or has failed.
LEMMA DonePlayed ==
  ASSUME PlayInv, NEW i \in 1..Len(tasks), NEW t \in Task, Played(i, t), NEW c \in Calls
  PROVE  Done(tasks', c) <=> Done(tasks, c) \/ (HasListener(t) /\ t.call = c /\ t.st = "ok")
<1>1. /\ tasks \in Seq(Task) /\ tasks[i].st # "ok"
      /\ t.kind = tasks[i].kind /\ t.call = tasks[i].call
  BY PKnown DEF Played, Becomes
<1>2. CASE HasListener(t)
  <2>1. tasks' = [tasks EXCEPT ![i] = t]
    BY <1>2 DEF Played, Becomes, Settle
  <2>2. /\ Len(tasks') = Len(tasks)
        /\ \A j \in 1..Len(tasks) : tasks'[j] = IF j = i THEN t ELSE tasks[j]
    BY <1>1, <2>1, ChangedIn
  <2> QED BY <1>1, <1>2, <2>2 DEF Done
<1>3. CASE ~HasListener(t)
  <2>1. tasks' = RemoveAt(tasks, i)
    BY <1>3 DEF Played, Becomes, Settle
  <2>2. /\ \A j \in 1..Len(tasks') : Old(i, j) \in 1..Len(tasks) /\ tasks'[j] = tasks[Old(i, j)]
        /\ \A k \in 1..Len(tasks) \ {i} : \E j \in 1..Len(tasks') : Old(i, j) = k
    BY <1>1, <2>1, LeftInOrder
  <2>3. Done(tasks', c) => Done(tasks, c)
    BY <2>2 DEF Done
  <2>4. Done(tasks, c) => Done(tasks', c)
    <3> SUFFICES ASSUME NEW k \in 1..Len(tasks), tasks[k].call = c, tasks[k].st = "ok"
                 PROVE  Done(tasks', c)
      BY DEF Done
    <3>1. PICK j \in 1..Len(tasks') : Old(i, j) = k
      BY <1>1, <2>2
    <3> QED BY <2>2, <3>1 DEF Done
  <2> QED BY <1>3, <2>3, <2>4
<1> QED BY <1>2, <1>3

\* On the device Play services has nothing to store, and nothing to find.
LEMMA PlayedOnDevice ==
  ASSUME ContractAssumption, CInv, PlayInv', HeldOnDevice,
         NEW i \in 1..Len(tasks), NEW t \in Task, Played(i, t)
  PROVE  CInv' /\ ContractStep
<1>1. /\ PlayInv /\ UNCHANGED <<env, call, cachedWallet, prefs, disk>>
      /\ tasks \in Seq(Task) /\ tasks[i].kind # "store"
      /\ t.kind = tasks[i].kind /\ t.call = tasks[i].call
  BY ContractKnown, PKnown DEF Played, Becomes, dartVars, HeldOnDevice
<1>2. cloud' = NoMnemonic /\ (t.kind # "delete" /\ t.st = "ok" => t.m = NoMnemonic)
  BY <1>1 DEF Played, HeldOnDevice
<1>3. \A j \in 1..Len(tasks') :
        tasks'[j].kind # "store" /\ (tasks'[j].st = "ok" => tasks'[j].m = NoMnemonic)
  <2>1. CASE HasListener(t)
    <3>1. tasks' = [tasks EXCEPT ![i] = t] /\ t.kind # "delete"
      BY <2>1 DEF Played, Becomes, Settle, HasListener
    <3>2. /\ Len(tasks') = Len(tasks)
          /\ \A j \in 1..Len(tasks) : tasks'[j] = IF j = i THEN t ELSE tasks[j]
      BY <1>1, <3>1, ChangedIn
    <3> QED BY <1>1, <1>2, <3>1, <3>2 DEF HeldOnDevice
  <2>2. CASE ~HasListener(t)
    <3>1. tasks' = RemoveAt(tasks, i)
      BY <2>2 DEF Played, Becomes, Settle
    <3>2. \A j \in 1..Len(tasks') : Old(i, j) \in 1..Len(tasks) /\ tasks'[j] = tasks[Old(i, j)]
      BY <1>1, <3>1, LeftInOrder
    <3> QED BY <3>2 DEF HeldOnDevice
  <2> QED BY <2>1, <2>2
<1>4. HeldOnDevice'
  BY <1>1, <1>2, <1>3 DEF HeldOnDevice
<1>5. LocationOK' /\ Stored' = Stored
  BY <1>1, <1>4, StoredIs DEF LocationOK
<1>6. \A c \in Calls : Acted(c)' <=> Acted(c)
  BY <1>1, <1>4, DeviceActs
<1> QED BY <1>1, <1>5, <1>6, NothingShown

\* A store that Play services carries out is where a save to Block Store has its effect.
LEMMA StoredForSave ==
  ASSUME ContractAssumption, CInv, PlayInv', NEW c \in Calls,
         UNCHANGED <<env, call, cachedWallet>>, LocationOK',
         call[c].pc = "save", call[c].at = "platform", ~Acted(c), Acted(c)',
         call[c].m \in Mnemonics, Stored' = call[c].m
  PROVE  CInv' /\ ContractStep
<1> DEFINE s == call[c]
<1>1. s \in CallState /\ s.pc \in Points /\ call \in [Calls -> CallState]
  BY ContractKnown, PKnown, PointsAre
<1>2. /\ \A d \in Calls : Active(d) => d = c
      /\ \A d \in Calls \ {c} : call[d].pc \in Finished
      /\ Agrees(s, Stored, env.configs) /\ MayStore(c)
  BY <1>1, RunsAlone
<1>3. call' = [call EXCEPT ![c] = s]
  BY <1>1
<1>4. Agrees(s, Stored', env.configs) /\ MayStore(c)'
  BY <1>2 DEF Agrees, MayStore, Reading
<1>5. CInv'
  BY <1>1, <1>2, <1>3, <1>4, Keeps
<1>6. /\ Shown(c) = Req(s.op, "open", s.overwrite, NoMnemonic)
      /\ Shown(c)' = Req(s.op, "applied", s.overwrite, s.m)
  BY <1>1, ShownIs
<1>7. Contract!Set(c, s.op, "applied", s.overwrite, s.m)
  BY <1>1, <1>2, <1>3, <1>6, Sets
<1>8. s.op \in Savers
  BY <1>2 DEF Agrees, Waits
<1>9. s.overwrite \/ Stored = NoMnemonic
  BY <1>2 DEF MayStore
<1> DEFINE r == Shown(c)
<1>10. [d \in Calls |-> Shown(d)][c] = r
  OBVIOUS
<1>11. r.op = s.op /\ r.stage = "open" /\ r.overwrite = s.overwrite
  BY <1>6 DEF Req
<1> HIDE DEF r
<1>12. Contract!Open(c, Contract!Saving)
  BY <1>8, <1>10, <1>11 DEF Contract!Open, Contract!Saving, Savers, Shown
<1>13. Contract!Put(c)
  BY <1>7, <1>9, <1>10, <1>11, <1>12 DEF Contract!Put, Shown
<1> QED BY <1>5, <1>13 DEF ContractStep, Contract!Next

\* In Block Store.
LEMMA PlayedInCloud ==
  ASSUME ContractAssumption, CInv, PlayInv', HeldInCloud, SteadyOK',
         NEW i \in 1..Len(tasks), NEW t \in Task, Played(i, t)
  PROVE  CInv' /\ ContractStep
<1>1. /\ PlayInv /\ SteadyInv /\ Steady(env) /\ Invalid = {}
      /\ UNCHANGED <<env, call, cachedWallet, prefs, disk>> /\ tasks[i].st = "pending"
      /\ t.live = tasks[i].live /\ (t.kind = "store" => t.m = tasks[i].m)
  BY ContractKnown DEF Played, Becomes, dartVars
<1>2. /\ t.kind = tasks[i].kind /\ t.call = tasks[i].call /\ t.live
      /\ ~(t.kind = "store" /\ t.st = "ok") => SettledCloud' = SettledCloud
      /\ t.call \in Calls /\ t.st = "ok" => t.m = SettledCloud'
  BY <1>1, ExecutionSettles
<1>3. HeldInCloud'
  BY <1>1 DEF HeldInCloud
<1>4. LocationOK' /\ Stored = SettledCloud /\ Stored' = SettledCloud'
  BY <1>3, StoredIs DEF LocationOK
<1>5. /\ t.call \in Calls => WaitedFor(tasks[i], call[t.call])
      /\ Fits(tasks[i], call) /\ tasks[i] \in Task
      /\ \A j \in 1..Len(tasks) : t.call \in Calls /\ tasks[j].call = t.call => j = i
      /\ TaskOK(tasks[i], Trusted)
  BY <1>1, <1>2, PKnown
<1>6. \A c \in Calls : Done(tasks', c) => Done(tasks, c) \/ (t.call = c /\ t.st = "ok")
  BY <1>1, DonePlayed
<1>7. \A c \in Calls : Done(tasks, c) => Done(tasks', c)
  BY <1>1, DonePlayed
<1>8. CASE ~(t.kind = "store" /\ t.st = "ok")
  <2>1. ASSUME NEW c \in Calls, call[c].pc = "save"
        PROVE  Done(tasks', c) <=> Done(tasks, c)
    <3>1. ~(t.call = c /\ t.st = "ok")
      <4> SUFFICES ASSUME t.call = c, t.st = "ok" PROVE FALSE
        OBVIOUS
      <4>1. t.kind # "retrieve"
        BY <1>2, <1>5, <2>1 DEF WaitedFor, Reading
      <4>2. t.kind # "delete"
        BY <1>2, <1>5, PlatformAssumption DEF TaskOK
      <4> QED BY <1>8, <4>1, <4>2 DEF Task
    <3> QED BY <1>6, <1>7, <3>1
  <2>2. \A c \in Calls : Acted(c)' <=> Acted(c)
    BY <1>1, <2>1, ActedIs
  <2> QED BY <1>1, <1>2, <1>4, <1>8, <2>2, NothingShown
<1>9. CASE t.kind = "store" /\ t.st = "ok"
  <2> DEFINE c == t.call
  <2>1. c \in Calls
    BY <1>1, <1>2, <1>5, <1>9 DEF Fits, Task
  <2>2. /\ call[c].at = "platform" /\ call[c].pc \in {"save", "updSave"}
        /\ t.m = call[c].m /\ t.m \in Mnemonics /\ Stored' = t.m
    BY <1>1, <1>2, <1>4, <1>5, <1>9, <2>1 DEF WaitedFor, TaskOK
  <2>3. \A d \in Calls \ {c} : Done(tasks', d) <=> Done(tasks, d)
    BY <1>6, <1>7
  <2>4. CASE call[c].pc = "updSave"
    <3>1. Stored' = Stored
      <4>1. call[c].pc \in Points
        BY <2>4, PointsAre
      <4>2. Agrees(call[c], Stored, env.configs)
        BY <2>1, <4>1, RunsAlone
      <4> QED BY <2>2, <2>4, <4>2 DEF Agrees
    <3>2. \A d \in Calls : Acted(d)' <=> Acted(d)
      BY <1>1, <2>3, <2>4, ActedIs DEF Confirmed
    <3> QED BY <1>1, <1>4, <3>1, <3>2, NothingShown
  <2>5. CASE call[c].pc = "save"
    <3>1. ~Done(tasks, c)
      BY <1>1, <1>5, <2>1 DEF Done
    <3>2. ~Acted(c)
      BY <1>1, <2>1, <2>2, <3>1, ActedIs DEF Confirmed
    <3>3. Done(tasks', c)
      BY <1>1, <1>2, <1>9, <2>1, DonePlayed DEF HasListener
    <3>4. Acted(c)'
      BY <1>1, <2>1, <2>5, <3>3, ActedIs
    <3> QED BY <1>1, <1>4, <2>1, <2>2, <2>5, <3>2, <3>4, StoredForSave
  <2> QED BY <2>2, <2>4, <2>5
<1> QED BY <1>8, <1>9

LEMMA ContractPlayed ==
  ASSUME ContractAssumption, CInv, PlayInv', HeldInCloud => SteadyOK',
         NEW i \in 1..Len(tasks), NEW t \in Task, Played(i, t)
  PROVE  CInv' /\ ContractStep
BY ContractKnown, PlayedInCloud, PlayedOnDevice DEF LocationOK

\* What is done when task i has left.
LEMMA DoneLeft ==
  ASSUME NEW list \in Seq(Task), NEW i \in 1..Len(list), NEW c
  PROVE  Done(list, c) <=>
           Done(RemoveAt(list, i), c) \/ (list[i].call = c /\ list[i].st = "ok")
<1> DEFINE less == RemoveAt(list, i)
<1>1. /\ \A j \in 1..Len(less) : Old(i, j) \in 1..Len(list) /\ less[j] = list[Old(i, j)]
      /\ \A k \in 1..Len(list) \ {i} : \E j \in 1..Len(less) : Old(i, j) = k
  BY LeftInOrder
<1> HIDE DEF less
<1>2. Done(less, c) => Done(list, c)
  BY <1>1 DEF Done
<1>3. list[i].call = c /\ list[i].st = "ok" => Done(list, c)
  BY DEF Done
<1>4. Done(list, c) => Done(less, c) \/ (list[i].call = c /\ list[i].st = "ok")
  <2> SUFFICES ASSUME NEW k \in 1..Len(list) \ {i}, list[k].call = c, list[k].st = "ok"
               PROVE  Done(less, c)
    BY DEF Done
  <2>1. PICK j \in 1..Len(less) : Old(i, j) = k
    BY <1>1
  <2> QED BY <1>1, <2>1 DEF Done
<1> QED BY <1>2, <1>3, <1>4 DEF less

\* Call u is call s with an answer that is true of what is stored.
Tells(u, s, stored) ==
  /\ SameCall(u, s) /\ u.at = "reply" /\ s.pc \in Reading \cup {"eligible", "save", "updSave"}
  /\ s.pc \in Reading => u.ok = TRUE /\ u.val = stored
  /\ s.pc = "eligible" =>
       u.ok = TRUE /\ u.val \in BOOLEAN /\ (u.val = TRUE => stored # NoMnemonic)
  /\ s.pc = "save" => u.ok = FALSE \/ s.m = stored

\* A call that is told the truth agrees with what is stored.
LEMMA AgreesTold ==
  ASSUME NEW s, NEW u, NEW stored, NEW configs, Agrees(s, stored, configs), Tells(u, s, stored)
  PROVE  Agrees(u, stored, configs)
<1>1. /\ u.pc = s.pc /\ u.op = s.op /\ u.cfg = s.cfg /\ u.overwrite = s.overwrite
      /\ u.m = s.m /\ u.r = s.r
  BY DEF SameCall, Tells
<1>2. Waits(u.op, u.pc) /\ (u.cfg \in configs \/ u.op \notin Savers \cup {"updateWalletStorage"})
  BY <1>1 DEF Agrees
<1>3. s.pc = "updSave" => s.m = stored
  BY DEF Agrees
<1> QED BY <1>1, <1>2, <1>3 DEF Agrees, Reading, Tells

\* A call learns what it has asked for; what is stored stays.
LEMMA ContractTold ==
  ASSUME ContractAssumption, CInv, PlayInv', NEW c \in Calls, call[c].pc \in Points,
         call'[c] \in CallState, SameCall(call'[c], call[c]), call'[c].at = "reply",
         \A d \in Calls \ {c} : call'[d] = call[d],
         UNCHANGED <<env, cachedWallet>>, LocationOK', Stored' = Stored,
         Agrees(call'[c], Stored, env.configs), Acted(c)' <=> Acted(c)
  PROVE  CInv' /\ ContractStep
<1> DEFINE u == call'[c]
<1>1. call \in [Calls -> CallState] /\ call' \in [Calls -> CallState]
  BY ContractKnown, PKnown DEF PlayInv, IInv, TypeOK, DartTypeOK
<1>2. call' = [call EXCEPT ![c] = u]
  BY <1>1
<1>3. /\ \A d \in Calls : Active(d) => d = c
      /\ \A d \in Calls \ {c} : call[d].pc \in Finished
      /\ ~Acted(c) => cachedWallet \in {NoMnemonic, Stored}
  BY RunsAlone
<1>4. u.pc = call[c].pc /\ u.op = call[c].op /\ u.overwrite = call[c].overwrite /\ u.m = call[c].m
  BY DEF SameCall
<1>5. MayStore(c)'
  BY DEF MayStore
<1>6. u \in CallState /\ Agrees(u, Stored', env.configs)
  OBVIOUS
<1> HIDE DEF u
<1>7. CInv'
  BY <1>2, <1>3, <1>5, <1>6, Keeps
<1>8. /\ ~Acted(c) => Shown(c) = Req(call[c].op, "open", call[c].overwrite, NoMnemonic)
      /\ Acted(c) => Shown(c) = Req(call[c].op, "applied", call[c].overwrite, call[c].m)
  BY ShownIs
<1>9. /\ ~Acted(c)' => Shown(c)' = Req(u.op, "open", u.overwrite, NoMnemonic)
      /\ Acted(c)' => Shown(c)' = Req(u.op, "applied", u.overwrite, u.m)
  BY <1>4, ShownIs DEF u
<1>10. Shown(c)' = Shown(c)
  BY <1>4, <1>8, <1>9
<1>11. \A d \in Calls \ {c} : Shown(d)' = Shown(d)
  BY <1>3, ShownIs
<1> QED BY <1>7, <1>10, <1>11, Unseen

\* A listener in Block Store tells its call what is stored.
LEMMA ReportsInCloud ==
  ASSUME ContractAssumption, CInv, PlayInv', HeldInCloud, SteadyOK',
         NEW i \in 1..Len(tasks), Reports(i), NEW c, c = tasks[i].call
  PROVE  CInv' /\ ContractStep
<1> DEFINE t == tasks[i]
           s == call[c]
           u == call'[c]
<1>1. /\ PlayInv /\ SteadyInv /\ Steady(env) /\ Invalid = {}
      /\ UNCHANGED <<env, cachedWallet, cloud>> /\ tasks' = RemoveAt(tasks, i) /\ Executed(t)
      /\ tasks \in Seq(Task) /\ t \in Task /\ TaskOK(t, Trusted) /\ Fits(t, call)
      /\ NoCall \notin Calls /\ NoMnemonic \notin Mnemonics
      /\ Garbage \notin Mnemonics \cup {NoMnemonic}
  BY ContractKnown, PKnown DEF Reports
<1>2. /\ t.live /\ t.kind # "delete"
      /\ t.call \in Calls => (t.st = "ok" => t.m = SettledCloud)
      /\ t.kind = "retrieve" => t.st # "failed"
  BY <1>1, SKnown DEF Steadily, Fits, Executed
<1>3. c \in Calls
  BY <1>1, <1>2 DEF TaskOK, Fits, Task
<1>4. PICK ok \in BOOLEAN, val \in Values : Informs(i, ok, val)
  BY <1>1, <1>2, <1>3 DEF Reports
<1>5. /\ s.at = "platform" /\ s \in CallState /\ u \in CallState
      /\ SameCall(u, s) /\ u.at = "reply" /\ u.ok = ok /\ u.val = val
      /\ \A d \in Calls \ {c} : call'[d] = call[d]
  BY <1>1, <1>4, InformedIs
<1>6. WaitedFor(t, s) /\ \A j \in 1..Len(tasks) : tasks[j].call = c => j = i
  BY <1>1, <1>3, PKnown
<1>7. s.pc \in Points /\ s.pc \in Reading \cup {"eligible", "save", "updSave"}
  BY <1>1, <1>2, <1>6, PointsAre DEF WaitedFor, Task, Reading
<1>8. Agrees(s, Stored, env.configs)
  BY <1>3, <1>7, RunsAlone
<1>9. t.kind = "store" =>
        s.pc \in {"save", "updSave"} /\ s.m = t.m /\ t.force = TRUE /\ (ok <=> t.st = "ok")
  <2> SUFFICES ASSUME t.kind = "store"
               PROVE  s.pc \in {"save", "updSave"} /\ s.m = t.m /\ t.force = TRUE /\ (ok <=> t.st = "ok")
    OBVIOUS
  <2>1. s.pc \in {"save", "updSave"} /\ s.m = t.m
    BY <1>6 DEF WaitedFor
  <2>2. s.cfg.rejectOnCloudSaveFailure
    BY <1>8, <2>1, ConfigIs DEF HeldInCloud, InCloud
  <2>3. t.force = TRUE
    BY <1>1, <1>3, <2>2 DEF Fits, Task
  <2> QED BY <1>4, <2>1, <2>3 DEF Informs
<1>10. UNCHANGED <<prefs, disk>>
  <2>1. "commit" \notin env.faults /\ prefs # Garbage
    BY <1>1 DEF HeldInCloud, InCloud
  <2> QED BY <1>1, <1>9, <2>1, ReportWrites
<1>11. HeldInCloud'
  BY <1>1, <1>10 DEF HeldInCloud
<1>12. LocationOK' /\ Stored = SettledCloud /\ Stored' = SettledCloud'
  BY <1>11, StoredIs DEF LocationOK
<1>13. SettledCloud' = SettledCloud
  <2>1. Deleting(tasks') <=> Deleting(tasks)
    BY <1>1, <1>2, LeftBehind
  <2> QED BY <1>1, <2>1, SettledIs
<1>14. t.kind = "retrieve" =>
         /\ ok = TRUE /\ t.st = "ok" /\ t.m = Stored
         /\ s.pc \in Reading => val = Stored
         /\ s.pc = "eligible" => val \in BOOLEAN /\ (val = TRUE => Stored # NoMnemonic)
  <2> SUFFICES ASSUME t.kind = "retrieve"
               PROVE  /\ ok = TRUE /\ t.st = "ok" /\ t.m = Stored
                      /\ s.pc \in Reading => val = Stored
                      /\ s.pc = "eligible" => val \in BOOLEAN /\ (val = TRUE => Stored # NoMnemonic)
    OBVIOUS
  <2>1. t.st = "ok" /\ t.m = Stored
    BY <1>1, <1>2, <1>3, <1>12 DEF Executed, Task
  <2>2. PrefsPhrase = NoMnemonic
    BY <1>1 DEF HeldInCloud, PrefsPhrase
  <2> QED BY <1>4, <2>1, <2>2 DEF Informs
<1>15. Agrees(u, Stored, env.configs)
  <2>1. CASE t.kind = "retrieve"
    <3>1. s.pc \in Reading \cup {"eligible"}
      BY <1>6, <2>1 DEF WaitedFor
    <3>2. s.pc # "save"
      BY <3>1 DEF Reading
    <3>3. Tells(u, s, Stored)
      BY <1>5, <1>7, <1>14, <2>1, <3>2 DEF Tells
    <3> QED BY <1>8, <3>3, AgreesTold
  <2>2. CASE t.kind = "store"
    <3>1. s.pc \notin Reading /\ s.pc # "eligible"
      BY <1>9, <2>2 DEF Reading
    <3>2. ok = FALSE \/ s.m = Stored
      BY <1>2, <1>3, <1>9, <1>12, <2>2
    <3>3. Tells(u, s, Stored)
      BY <1>5, <1>7, <3>1, <3>2 DEF Tells
    <3> QED BY <1>8, <3>3, AgreesTold
  <2> QED BY <1>1, <1>2, <2>1, <2>2 DEF Task
<1>16. Acted(c)' <=> Acted(c)
  <2>1. Acted(c)' <=> Confirmed(u)
    BY <1>3, <1>5, UnawaitedActs
  <2>2. Acted(c) <=> Confirmed(s) \/ (s.pc = "save" /\ Done(tasks, c))
    BY <1>1, <1>3, ActedIs
  <2>3. Done(tasks, c) <=> t.st = "ok"
    BY <1>6 DEF Done
  <2>4. s.pc = "save" => t.kind = "store"
    BY <1>1, <1>2, <1>6 DEF WaitedFor, Reading, Task
  <2>5. ~Confirmed(s)
    BY <1>5, <1>7 DEF Confirmed, Reading
  <2>6. Confirmed(u) <=> s.pc = "save" /\ ok
    BY <1>5, <1>7, <2>4 DEF Confirmed, SameCall, Reading
  <2> QED BY <1>9, <2>1, <2>2, <2>3, <2>4, <2>5, <2>6
<1> HIDE DEF t
<1> QED BY <1>1, <1>3, <1>5, <1>7, <1>12, <1>13, <1>15, <1>16, ContractTold

\* On the device, the listener of a retrieval reads the preferences.
LEMMA ReportsOnDevice ==
  ASSUME ContractAssumption, CInv, PlayInv', HeldOnDevice,
         NEW i \in 1..Len(tasks), Reports(i), NEW c, c = tasks[i].call
  PROVE  CInv' /\ ContractStep
<1> DEFINE t == tasks[i]
           s == call[c]
           u == call'[c]
<1>1. /\ PlayInv /\ UNCHANGED <<env, cachedWallet, cloud>> /\ tasks' = RemoveAt(tasks, i)
      /\ Executed(t) /\ tasks \in Seq(Task) /\ t \in Task /\ Fits(t, call) /\ NoCall \notin Calls
  BY ContractKnown, PKnown DEF Reports
<1>2. t.kind = "retrieve" /\ (t.st = "ok" => t.m = NoMnemonic)
  BY <1>1 DEF HeldOnDevice, Fits, Executed, Task
<1>3. UNCHANGED <<prefs, disk>>
  <2>1. "commit" \notin env.faults /\ prefs # Garbage
    BY DEF HeldOnDevice, OnDevice
  <2> QED BY <1>1, <1>2, <2>1, ReportWrites
<1>4. HeldOnDevice'
  <2> DEFINE less == RemoveAt(tasks, i)
  <2>1. \A j \in 1..Len(less) : Old(i, j) \in 1..Len(tasks) /\ less[j] = tasks[Old(i, j)]
    BY <1>1, LeftInOrder
  <2>2. tasks' = less
    BY <1>1
  <2> HIDE DEF less
  <2> QED BY <1>1, <1>3, <2>1, <2>2 DEF HeldOnDevice
<1>5. LocationOK' /\ Stored = prefs /\ Stored' = Stored /\ PrefsPhrase = prefs
  BY <1>3, <1>4, StoredIs DEF LocationOK, HeldOnDevice, PrefsPhrase
<1>6. \A d \in Calls : /\ Acted(d) <=> Confirmed(call[d])
                       /\ Acted(d)' <=> Confirmed(call'[d])
  BY <1>1, <1>4, DeviceActs
<1>7. CASE UNCHANGED call
  <2>1. \A d \in Calls : Acted(d)' <=> Acted(d)
    BY <1>6, <1>7
  <2> QED BY <1>1, <1>5, <1>7, <2>1, NothingShown
<1>8. CASE \E ok \in BOOLEAN, val \in Values : Informs(i, ok, val)
  <2>1. PICK ok \in BOOLEAN, val \in Values : Informs(i, ok, val)
    BY <1>8
  <2>2. /\ c \in Calls /\ s.at = "platform" /\ s \in CallState /\ u \in CallState
        /\ SameCall(u, s) /\ u.at = "reply" /\ u.ok = ok /\ u.val = val
        /\ \A d \in Calls \ {c} : call'[d] = call[d]
    BY <1>1, <2>1, InformedIs
  <2>3. s.pc \in Reading \cup {"eligible"}
    BY <1>1, <1>2, <2>2, PKnown DEF WaitedFor
  <2>4. s.pc \in Points /\ s.pc # "save"
    BY <2>3, PointsAre DEF Reading
  <2>5. Agrees(s, Stored, env.configs)
    BY <2>2, <2>4, RunsAlone
  <2>6. /\ ok = TRUE
        /\ s.pc \in Reading => val = Stored
        /\ s.pc = "eligible" => val \in BOOLEAN /\ val # TRUE
    BY <1>2, <1>5, <2>1 DEF Informs
  <2>7. Agrees(u, Stored, env.configs)
    <3>1. Tells(u, s, Stored)
      BY <2>2, <2>3, <2>4, <2>6 DEF Tells
    <3> QED BY <2>5, <3>1, AgreesTold
  <2>8. Acted(c)' <=> Acted(c)
    <3>1. ~Confirmed(s) /\ ~Confirmed(u)
      BY <2>2, <2>3 DEF Confirmed, SameCall, Reading
    <3> QED BY <1>6, <2>2, <3>1
  <2> HIDE DEF t
  <2> QED BY <1>1, <1>5, <2>2, <2>4, <2>7, <2>8, ContractTold
<1> QED BY <1>7, <1>8 DEF Reports

LEMMA ContractReports ==
  ASSUME ContractAssumption, CInv, PlayInv', HeldInCloud => SteadyOK',
         NEW i \in 1..Len(tasks), Reports(i)
  PROVE  CInv' /\ ContractStep
<1>1. HeldInCloud \/ HeldOnDevice
  BY ContractKnown DEF LocationOK
<1>2. \E c : c = tasks[i].call
  OBVIOUS
<1> QED BY <1>1, <1>2, ReportsInCloud, ReportsOnDevice

\* A call that the app has not made, or that ended with the app.
LEMMA IdleEnded ==
  /\ Idle.pc = "returned" /\ Idle.op = "none" /\ Idle.overwrite = FALSE
  /\ Idle.val = NoMnemonic /\ Idle.pc \in Finished
<1>1. Idle.pc = "returned" /\ Idle.op = "none" /\ Idle.overwrite = FALSE /\ Idle.val = NoMnemonic
  BY DEF Idle, Ended
<1>2. Idle.pc \in Finished
  BY <1>1 DEF Finished
<1> QED BY <1>1, <1>2

\* What the contract sees of it.
Nothing == Result("none", "returned", NoMnemonic)

LEMMA NothingIs ==
  /\ [c \in Calls |-> Nothing]
       = [c \in Calls |-> [op |-> "none", stage |-> "returned", overwrite |-> FALSE,
                           val |-> NoMnemonic]]
  /\ \A c \in Calls : call[c] = Idle => Shown(c) = Nothing
  /\ \A c \in Calls : call'[c] = Idle => Shown(c)' = Nothing
<1>1. [c \in Calls |-> Nothing]
        = [c \in Calls |-> [op |-> "none", stage |-> "returned", overwrite |-> FALSE,
                            val |-> NoMnemonic]]
  BY DEF Nothing, Result, Req
<1>2. Req(Idle.op, Idle.pc, Idle.overwrite, Idle.val) = Nothing
  BY IdleEnded DEF Nothing, Result, Req
<1>3. ASSUME NEW c \in Calls, call[c] = Idle PROVE Shown(c) = Nothing
  <2>1. Shown(c) = Req(call[c].op, call[c].pc, call[c].overwrite, call[c].val)
    BY <1>3, IdleEnded, ShownIs
  <2> QED BY <1>2, <1>3, <2>1
<1>4. ASSUME NEW c \in Calls, call'[c] = Idle PROVE Shown(c)' = Nothing
  <2>1. Shown(c)' = Req(call'[c].op, call'[c].pc, call'[c].overwrite, call'[c].val)
    BY <1>4, IdleEnded, ShownIs
  <2> QED BY <1>2, <1>4, <2>1
<1> QED BY <1>1, <1>3, <1>4

\* When the app is killed, nothing is asked for; on the device, what is stored stays.
LEMMA ContractKilled ==
  ASSUME ContractAssumption, CInv, PlayInv', AppKilled
  PROVE  CInv' /\ ContractStep
<1>1. /\ PlayInv /\ "kill" \in env.faults /\ (HeldInCloud \/ HeldOnDevice)
      /\ (\A c \in Calls : call'[c] = Idle) /\ cachedWallet' = NoMnemonic
      /\ env' = env /\ cloud' = cloud /\ disk' = disk /\ prefs' = disk
  BY ContractKnown DEF AppKilled, DartKilled, LocationOK
<1>2. HeldOnDevice
  BY <1>1 DEF HeldInCloud, InCloud
<1>3. HeldOnDevice'
  <2>1. PICK n \in 0..Len(tasks) : tasks' = OrphanedTasks(n)
    BY DEF AppKilled
  <2>2. /\ Len(tasks') = n
        /\ \A i \in 1..n : /\ i \in 1..Len(tasks) /\ tasks'[i].kind = tasks[i].kind
                           /\ tasks'[i].st = tasks[i].st /\ tasks'[i].m = tasks[i].m
    BY <1>1, <2>1, OrphansAre
  <2>3. \A i \in 1..Len(tasks') :
          tasks'[i].kind # "store" /\ (tasks'[i].st = "ok" => tasks'[i].m = NoMnemonic)
    BY <1>2, <2>2 DEF HeldOnDevice
  <2> QED BY <1>1, <1>2, <2>3 DEF HeldOnDevice
<1>4. LocationOK' /\ Stored' = Stored
  BY <1>1, <1>2, <1>3, StoredIs DEF LocationOK, HeldOnDevice
<1>5. \A c \in Calls : ~Active(c)'
  BY <1>1, IdleEnded DEF Active
<1>6. CInv'
  BY <1>1, <1>4, <1>5 DEF CInv, Alone
<1>7. \A c \in Calls : Shown(c)' = Nothing
  BY <1>1, NothingIs
<1>8. [c \in Calls |-> Shown(c)']
        = [c \in Calls |-> [op |-> "none", stage |-> "returned", overwrite |-> FALSE,
                            val |-> NoMnemonic]]
  <2>1. [c \in Calls |-> Shown(c)'] = [c \in Calls |-> Nothing]
    BY <1>7
  <2> QED BY <2>1, NothingIs
<1>9. Contract!Crash
  BY <1>4, <1>8 DEF Contract!Crash, Shown
<1> QED BY <1>6, <1>9 DEF ContractStep, Contract!Next

\* Initially, nothing is asked for and nothing is stored.
LEMMA ContractInit ==
  ASSUME ContractAssumption, Init
  PROVE  CInv /\ Contract!Init
<1>1. /\ (\A c \in Calls : call[c] = Idle) /\ cachedWallet = NoMnemonic /\ env \in Environments
      /\ cloud = NoMnemonic /\ prefs = NoMnemonic /\ disk = NoMnemonic /\ tasks = <<>>
  BY DEF Init, DartInit
<1>2. PlayInv /\ SteadyOK
  BY PlayInitially, SteadyInitially DEF SteadyInv
<1>3. \A c \in Calls : ~Active(c)
  BY <1>1, IdleEnded DEF Active
<1>4. LocationOK
  <2>1. InCloud(env) \/ OnDevice(env)
    BY <1>1 DEF ContractAssumption
  <2>2. prefs # Garbage
    BY <1>1, PlatformAssumption
  <2> QED BY <1>1, <1>2, <2>1, <2>2 DEF LocationOK, HeldInCloud, HeldOnDevice
<1>5. CInv
  BY <1>1, <1>2, <1>3, <1>4 DEF CInv, Alone
<1>6. \A c \in Calls : Shown(c) = Nothing
  BY <1>1, NothingIs
<1>7. [c \in Calls |-> Shown(c)]
        = [c \in Calls |-> [op |-> "none", stage |-> "returned", overwrite |-> FALSE,
                            val |-> NoMnemonic]]
  <2>1. [c \in Calls |-> Shown(c)] = [c \in Calls |-> Nothing]
    BY <1>6
  <2> QED BY <2>1, NothingIs
<1>8. Stored = NoMnemonic
  BY <1>1 DEF Stored, SettledCloud, PrefsPhrase
<1> QED BY <1>5, <1>7, <1>8 DEF Contract!Init, Shown

\* Every step is a step of the contract, or one it does not see.
LEMMA ContractSteps ==
  ASSUME ContractAssumption, CInv, [Next]_vars
  PROVE  CInv' /\ ContractStep
<1>1. /\ PlayInv /\ (HeldInCloud => SteadyInv)
      /\ HeldInCloud \/ HeldOnDevice
  BY ContractKnown DEF LocationOK
<1>2. PlayInv'
  BY <1>1, PlayInductive
<1>3. HeldInCloud => SteadyOK'
  BY <1>1, SteadyStep DEF SteadyInv
<1>4. CASE UNCHANGED <<env, cachedWallet, call, channel, replies, cloud, prefs, disk, tasks, everStored>>
  <2>1. LocationOK' /\ Stored' = Stored
    BY <1>3, <1>4, LocationStays
  <2>2. \A c \in Calls : Acted(c)' <=> Acted(c)
    BY <1>1, <1>2, <1>4, ActedIs
  <2> QED BY <1>2, <1>4, <2>1, <2>2, NothingShown
<1>5. CASE DeviceRestored
  BY <1>1, <1>5 DEF DeviceRestored, HeldInCloud, HeldOnDevice, InCloud, OnDevice
<1>6. CASE AppKilled
  BY <1>2, <1>6, ContractKilled
<1>7. ASSUME NEW c \in Calls, AppCalls(c) \/ Continuations(c), UNCHANGED androidVars
      PROVE  CInv' /\ ContractStep
  BY <1>2, <1>3, <1>7, ContractDart
<1>8. ASSUME NEW c \in Calls, NEW u \in CallState, Handled(c, u)
      PROVE  CInv' /\ ContractStep
  BY <1>2, <1>3, <1>8, ContractHandled
<1>9. ASSUME NEW i \in 1..Len(tasks), NEW t \in Task, Played(i, t)
      PROVE  CInv' /\ ContractStep
  BY <1>2, <1>3, <1>9, ContractPlayed
<1>10. ASSUME NEW i \in 1..Len(tasks), Reports(i) PROVE CInv' /\ ContractStep
  BY <1>2, <1>3, <1>10, ContractReports
<1> QED BY <1>1, <1>4, <1>5, <1>6, <1>7, <1>8, <1>9, <1>10, StepsAre

\* WalletAndroid implements WalletContract: for any phrases and any bound on the
\* calls under way, where the app awaits each call and keeps its wallets in one
\* location, a wallet is replaced only by a call told to, what a call returns is
\* stored, and a call that throws has no effect, however late Block Store's work
\* and the app's listeners come and, on the device, whenever the app is killed.
THEOREM ContractImplemented ==
  ASSUME ContractAssumption
  PROVE  Spec => ContractHolds
<1>1. Init => CInv /\ Contract!Init
  BY ContractInit
<1>2. CInv /\ [Next]_vars => CInv' /\ [Contract!Next]_(Contract!contractVars)
  BY ContractSteps DEF ContractStep
<1> QED BY <1>1, <1>2, PTL DEF Spec, ContractHolds, Contract!Spec

=============================================================================
