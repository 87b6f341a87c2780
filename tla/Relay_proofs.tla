---------------------------- MODULE Relay_proofs ----------------------------
(***************************************************************************)
(* Proofs about Relay, for any calls, accounts, amounts and environments:  *)
(* its type invariant; that what is executed was checked against the       *)
(* balance of the account that pays; that a returned hash is on chain;     *)
(* that a call that throws may be made again; that the server refuses      *)
(* nothing where nothing fails; and that an app that awaits each call sees *)
(* RelayContract.                                                          *)
(*                                                                         *)
(* The second is the first that needs an argument.  A call fetches the     *)
(* wallet three times.  If the balance was read of another account than    *)
(* the sender, the wallet had been replaced by then; where a replaced      *)
(* wallet does not come back, the signer will not be the sender, and the   *)
(* server refuses.                                                         *)
(*                                                                         *)
(* The last two rest on a second invariant: one call runs, so what it has  *)
(* read of the chain is still so when its transaction is executed.         *)
(***************************************************************************)
EXTENDS RelayRefinement, TLAPS

\* The points at which the sender is known, and those after relay has its wallet.
Relaying == {"config", "nonce", "workerNonce", "post", "receipt"}
Making == {"balance", "tokenNonce", "altNonce", "estimate", "relayWallet"}
Counting == {"balance", "displayBalance", "tokenNonce", "altNonce", "nonce"}

\* What the answer that waits at s.pc is.
AnswerOK(s, t, known) ==
  s.at = "answered" =>
    /\ s.pc \in WalletPoints => s.val \in known \cup {Null}
    /\ s.pc \in Counting => s.val \in Nat
    /\ s.pc = "config" => s.val \in Workers
    /\ s.pc = "receipt" /\ s.val # Null => t \in {"executed", "reverted"}

\* Which accounts a call has set by s.pc.
FieldsOK(s, known) ==
  /\ s.pc \in {"check"} \cup Making \cup Relaying =>
       s.from \in Accounts /\ (s.op # "relay" => s.from \in known)
  /\ s.pc \in {"balance", "displayBalance"} => s.checked \in Accounts
  /\ s.pc \in Relaying => s.signer \in Accounts
  /\ s.op = "relay" => s.details \in Details

\* If the balance was read of another account than the sender, the sender is no longer
\* the wallet, and can no longer become the signer, where no replaced wallet returns.
CheckOK(s, w, faults) ==
  s.op # "relay" /\ "return" \notin faults =>
    /\ s.pc = "check" /\ s.at = "answered" /\ s.val # s.from => w # s.from
    /\ s.pc \in Making /\ s.checked # s.from => w # s.from
    /\ s.pc = "relayWallet" /\ s.at = "answered" /\ s.val = s.from => s.checked = s.from
    /\ s.pc \in Relaying /\ s.signer = s.from => s.checked = s.from

\* What a transaction that has been posted says of its call.
PostedOK(s, t, faults) ==
  /\ t # "none" =>
       /\ s.pc \in {"post", "receipt"} \cup Finished
       /\ s.pc = "post" => s.at # "asked"
       /\ s.from \in Accounts
       /\ s.op # "relay" /\ "return" \notin faults => s.checked = s.from
       /\ {"reply", "poll"} \cap faults = {} => s.pc # "threw" /\ s.at # "failed"
  /\ s.pc = "returned" => t \in {"executed", "reverted"}

CallOK(s, t, w, known, faults) ==
  /\ AnswerOK(s, t, known)
  /\ FieldsOK(s, known)
  /\ CheckOK(s, w, faults)
  /\ PostedOK(s, t, faults)

\* The inductive invariant.
IInv ==
  /\ TypeOK
  /\ wallet \in past \cup {Null}
  /\ \A c \in Calls : CallOK(call[c], tx[c], wallet, past, env.faults)

-----------------------------------------------------------------------------
(* Records and functions.                                                  *)

\* Ask leaves every other call alone and resets the answer.
LEMMA AskIs ==
  ASSUME TypeOK, NEW c \in Calls, NEW state \in CallState, NEW pc \in Points,
         Ask(c, state, pc)
  PROVE  /\ call' \in [Calls -> CallState]
         /\ call'[c] = [state EXCEPT !.pc = pc, !.at = "asked", !.val = Null]
         /\ \A b \in Calls : b # c => call'[b] = call[b]
<1>1. [state EXCEPT !.pc = pc, !.at = "asked", !.val = Null] \in CallState
  BY DEF CallState
<1> QED BY <1>1 DEF Ask, TypeOK

LEMMA FinishIs ==
  ASSUME TypeOK, NEW c \in Calls, NEW how \in Finished, Finish(c, how)
  PROVE  /\ call' \in [Calls -> CallState]
         /\ call'[c] = [call[c] EXCEPT !.pc = how, !.at = "answered", !.val = Null]
         /\ \A b \in Calls : b # c => call'[b] = call[b]
<1>1. [call[c] EXCEPT !.pc = how, !.at = "answered", !.val = Null] \in CallState
  <2>1. call[c] \in CallState
    BY DEF TypeOK
  <2> QED BY <2>1 DEF CallState
<1> QED BY <1>1 DEF Finish, TypeOK

LEMMA AnswerIs ==
  ASSUME TypeOK, NEW c \in Calls,
         NEW val \in Accounts \cup {Null} \cup Workers \cup Nat, Answer(c, val)
  PROVE  /\ call' \in [Calls -> CallState]
         /\ call'[c] = [call[c] EXCEPT !.at = "answered", !.val = val]
         /\ \A b \in Calls : b # c => call'[b] = call[b]
<1>1. [call[c] EXCEPT !.at = "answered", !.val = val] \in CallState
  <2>1. call[c] \in CallState
    BY DEF TypeOK
  <2>2. ASSUME NEW s \in CallState
        PROVE  [s EXCEPT !.at = "answered"] \in CallState
    BY DEF CallState
  <2>3. ASSUME NEW s \in CallState
        PROVE  [s EXCEPT !.val = val] \in CallState
    BY DEF CallState
  <2>4. ASSUME NEW s \in CallState
        PROVE  [s EXCEPT !.at = "answered", !.val = val]
                 = [[s EXCEPT !.at = "answered"] EXCEPT !.val = val]
    BY DEF CallState
  <2> QED BY <2>1, <2>2, <2>3, <2>4
<1> QED BY <1>1 DEF Answer, TypeOK

LEMMA FailIs ==
  ASSUME TypeOK, NEW c \in Calls, Fail(c)
  PROVE  /\ call' \in [Calls -> CallState]
         /\ call'[c] = [call[c] EXCEPT !.at = "failed"]
         /\ \A b \in Calls : b # c => call'[b] = call[b]
<1>1. [call[c] EXCEPT !.at = "failed"] \in CallState
  <2>1. call[c] \in CallState
    BY DEF TypeOK
  <2> QED BY <2>1 DEF CallState
<1> QED BY <1>1 DEF Fail, TypeOK

\* A step of the app or of what answers it changes one call, keeps the chain and the
\* wallet, and preserves the invariant if it does for that call.
LEMMA CallStep ==
  ASSUME IInv, NEW c \in Calls,
         UNCHANGED <<env, wallet, past, serverWorker, chainVars>>,
         relayWorker' \in Workers, cuts' \in [Details -> Nat],
         call' \in [Calls -> CallState],
         \A b \in Calls : b # c => call'[b] = call[b],
         tx' = tx \/ tx' = [tx EXCEPT ![c] = "pending"],
         CallOK(call'[c], tx'[c], wallet, past, env.faults)
  PROVE  IInv'
<1>1. TypeOK'
  BY DEF IInv, TypeOK, chainVars
<1>2. ASSUME NEW b \in Calls, b # c
      PROVE  CallOK(call'[b], tx'[b], wallet, past, env.faults)
  BY <1>2 DEF IInv, TypeOK
<1> QED BY <1>1, <1>2 DEF IInv

-----------------------------------------------------------------------------
(* The app's calls.                                                        *)

\* The state of a call whose request is built.
Built(s, nonce, worker, cut) == [s EXCEPT !.nonce = nonce, !.worker = worker, !.cut = cut]

LEMMA BuiltIs ==
  ASSUME NEW s \in CallState, NEW nonce \in Nat, NEW worker \in Workers, NEW cut \in Nat,
         NEW t, t = Built(s, nonce, worker, cut)
  PROVE  /\ t \in CallState /\ t.op = s.op /\ t.details = s.details
         /\ t.from = s.from /\ t.checked = s.checked /\ t.signer = s.signer
         /\ t.amount = s.amount /\ t.permit = s.permit
         /\ t.nonce = nonce /\ t.worker = worker /\ t.cut = cut
<1> DEFINE counted == [s EXCEPT !.nonce = nonce]
           worked == [counted EXCEPT !.worker = worker]
<1>1. counted \in CallState
  BY DEF CallState
<1>2. t = [worked EXCEPT !.cut = cut]
  BY DEF CallState, Built
<1> HIDE DEF counted
<1>3. worked \in CallState
  BY <1>1 DEF CallState
<1> HIDE DEF worked
<1>4. [worked EXCEPT !.cut = cut] \in CallState
  BY <1>3 DEF CallState
<1>5. /\ t.op = s.op /\ t.details = s.details
      /\ t.from = s.from /\ t.checked = s.checked /\ t.signer = s.signer
      /\ t.amount = s.amount /\ t.permit = s.permit
      /\ t.nonce = nonce /\ t.worker = worker /\ t.cut = cut
  BY DEF CallState, Built
<1> QED BY <1>2, <1>4, <1>5

\* The state of a call that starts to transfer.
Sized(s, amount, method) == [s EXCEPT !.amount = amount, !.method = method]

LEMMA StartedIs ==
  ASSUME NEW c \in Calls, call[c] \in CallState, NEW op \in Operations,
         NEW amount \in Amounts, NEW method \in Methods
  PROVE  /\ Sized(Started(c, op), amount, method) \in CallState
         /\ Sized(Started(c, op), amount, method).op = op
<1> DEFINE t == Sized(Started(c, op), amount, method)
           started == Started(c, op)
           sized == [started EXCEPT !.amount = amount]
<1>1. started \in CallState /\ started.op = op
  BY DEF Started, CallState
<1>2. t = [started EXCEPT !.amount = amount, !.method = method]
  BY DEF Sized
<1> HIDE DEF started, t
<1>3. sized \in CallState
  BY <1>1 DEF CallState
<1>4. t = [sized EXCEPT !.method = method] /\ t.op = started.op
  BY <1>1, <1>2 DEF CallState
<1> HIDE DEF sized
<1>5. [sized EXCEPT !.method = method] \in CallState
  BY <1>3 DEF CallState
<1> QED BY <1>1, <1>4, <1>5 DEF t

\* The state of a call that starts to relay.
Detailed(s, d) == [s EXCEPT !.details = d, !.from = From[d]]

LEMMA DetailedIs ==
  ASSUME NEW s \in CallState, NEW d \in Details, From[d] \in Accounts
  PROVE  /\ Detailed(s, d) \in CallState
         /\ Detailed(s, d).op = s.op /\ Detailed(s, d).details = d
         /\ Detailed(s, d).from = From[d]
<1> DEFINE named == [s EXCEPT !.details = d]
<1>1. named \in CallState
  BY DEF CallState
<1>2. Detailed(s, d) = [named EXCEPT !.from = From[d]]
  BY DEF CallState, Detailed
<1>3. Detailed(s, d).op = s.op /\ Detailed(s, d).details = d /\ Detailed(s, d).from = From[d]
  BY DEF CallState, Detailed
<1> HIDE DEF named
<1>4. [named EXCEPT !.from = From[d]] \in CallState
  BY <1>1 DEF CallState
<1> QED BY <1>2, <1>3, <1>4

LEMMA AppCallsKeep ==
  ASSUME IInv, NEW c \in Calls, AppCalls(c),
         UNCHANGED <<env, wallet, past, serverWorker, chainVars>>
  PROVE  IInv'
<1> DEFINE new == call'[c]
<1>0. /\ TypeOK /\ call[c] \in CallState /\ UNCHANGED <<relayWorker, cuts, tx>>
      /\ relayWorker' \in Workers /\ cuts' \in [Details -> Nat]
      /\ CallOK(call[c], tx[c], wallet, past, env.faults)
  BY DEF IInv, TypeOK, AppCalls
<1>1. call[c].pc = "none" /\ tx[c] = "none"
  BY <1>0 DEF AppCalls, ClaimRly, TransferExact, Transfer, RelayDetails, SimpleTransfer,
              CanStart, CallOK, PostedOK, Finished
<1>2. ASSUME NEW state \in CallState, NEW pc \in Points, Ask(c, state, pc),
             pc \in {"wallet", "displayWallet", "relayWallet", "simpleWallet"},
             state.op = "relay" => state.details \in Details /\ state.from \in Accounts,
             pc = "relayWallet" => state.op = "relay"
      PROVE  IInv'
  <2>1. /\ call' \in [Calls -> CallState]
        /\ new = [state EXCEPT !.pc = pc, !.at = "asked", !.val = Null]
        /\ \A b \in Calls : b # c => call'[b] = call[b]
    BY <1>0, <1>2, AskIs
  <2>2. CallOK(new, tx'[c], wallet, past, env.faults)
    <3>1. new.pc = pc /\ new.at = "asked" /\ new.op = state.op /\ new.from = state.from
          /\ new.details = state.details
      BY <2>1 DEF CallState
    <3>2. AnswerOK(new, tx'[c], past)
      BY <3>1 DEF AnswerOK
    <3>3. FieldsOK(new, past)
      BY <3>1, <1>2 DEF FieldsOK, Making, Relaying
    <3>4. CheckOK(new, wallet, env.faults)
      BY <3>1, <1>2 DEF CheckOK, Making, Relaying
    <3>5. PostedOK(new, tx'[c], env.faults)
      BY <3>1, <1>0, <1>1, <1>2 DEF PostedOK
    <3> QED BY <3>2, <3>3, <3>4, <3>5 DEF CallOK
  <2> QED BY <1>0, <2>1, <2>2, CallStep
<1>state. call[c] \in CallState
  BY <1>0
<1>3. CASE ClaimRly(c)
  <2> DEFINE state == Started(c, "claimRly")
  <2>1. state \in CallState /\ state.op = "claimRly"
    BY <1>state DEF Started, CallState, Operations
  <2>2. Ask(c, state, "wallet") /\ "wallet" \in Points
    BY <1>3 DEF ClaimRly, Points, WalletPoints
  <2> HIDE DEF state
  <2> QED BY <2>1, <2>2, <1>2
<1>4. CASE TransferExact(c)
  <2>1. PICK amount \in Amounts, method \in Methods :
          Ask(c, [Started(c, "transferExact") EXCEPT !.amount = amount, !.method = method],
              "wallet")
    BY <1>4 DEF TransferExact
  <2> DEFINE state == [Started(c, "transferExact") EXCEPT !.amount = amount,
                                                          !.method = method]
  <2>2. state \in CallState /\ state.op = "transferExact"
    <3>1. "transferExact" \in Operations
      BY DEF Operations
    <3>2. state = Sized(Started(c, "transferExact"), amount, method)
      BY DEF Sized
    <3> HIDE DEF state
    <3> QED BY <1>state, <3>1, <3>2, StartedIs
  <2>3. Ask(c, state, "wallet") /\ "wallet" \in Points
    BY <2>1 DEF Points, WalletPoints
  <2> HIDE DEF state
  <2> QED BY <2>2, <2>3, <1>2
<1>5. CASE Transfer(c)
  <2>1. PICK amount \in Amounts, method \in Methods :
          Ask(c, [Started(c, "transfer") EXCEPT !.amount = amount, !.method = method],
              "displayWallet")
    BY <1>5 DEF Transfer
  <2> DEFINE state == [Started(c, "transfer") EXCEPT !.amount = amount, !.method = method]
  <2>2. state \in CallState /\ state.op = "transfer"
    <3>1. "transfer" \in Operations
      BY DEF Operations
    <3>2. state = Sized(Started(c, "transfer"), amount, method)
      BY DEF Sized
    <3> HIDE DEF state
    <3> QED BY <1>state, <3>1, <3>2, StartedIs
  <2>3. Ask(c, state, "displayWallet") /\ "displayWallet" \in Points
    BY <2>1 DEF Points, WalletPoints
  <2> HIDE DEF state
  <2> QED BY <2>2, <2>3, <1>2
<1>6. CASE RelayDetails(c)
  <2>1. PICK d \in Details :
          Ask(c, [Started(c, "relay") EXCEPT !.details = d, !.from = From[d]], "relayWallet")
    BY <1>6 DEF RelayDetails
  <2> DEFINE state == [Started(c, "relay") EXCEPT !.details = d, !.from = From[d]]
  <2>2. From[d] \in Accounts
    BY ConstantsAssumption
  <2>3. /\ state \in CallState /\ state.op = "relay" /\ state.details \in Details
        /\ state.from \in Accounts
    <3>1. Started(c, "relay") \in CallState /\ Started(c, "relay").op = "relay"
      BY <1>state DEF Started, CallState, Operations
    <3>2. state = Detailed(Started(c, "relay"), d)
      BY DEF Detailed
    <3> HIDE DEF state
    <3> QED BY <2>2, <3>1, <3>2, DetailedIs
  <2>4. Ask(c, state, "relayWallet") /\ "relayWallet" \in Points
    BY <2>1 DEF Points, WalletPoints
  <2> HIDE DEF state
  <2> QED BY <2>3, <2>4, <1>2
<1>7. CASE SimpleTransfer(c)
  <2> DEFINE state == Started(c, "simpleTransfer")
  <2>1. state \in CallState /\ state.op = "simpleTransfer"
    BY <1>state DEF Started, CallState, Operations
  <2>2. Ask(c, state, "simpleWallet") /\ "simpleWallet" \in Points
    BY <1>7 DEF SimpleTransfer, Points, WalletPoints
  <2> HIDE DEF state
  <2> QED BY <2>1, <2>2, <1>2
<1> QED BY <1>3, <1>4, <1>5, <1>6, <1>7 DEF AppCalls

-----------------------------------------------------------------------------
(* Answers reach the methods.                                              *)

\* What stays the same in every step of a call.
Rest == UNCHANGED <<env, wallet, past, serverWorker, chainVars>>

\* A method that goes on to pc.
LEMMA AskKeeps ==
  ASSUME IInv, NEW c \in Calls, NEW state \in CallState, NEW pc \in Points,
         Ask(c, state, pc), Rest, tx' = tx,
         relayWorker' \in Workers, cuts' \in [Details -> Nat],
         \A new : new = [state EXCEPT !.pc = pc, !.at = "asked", !.val = Null] =>
                   FieldsOK(new, past) /\ CheckOK(new, wallet, env.faults),
         tx[c] = "none" \/ (pc = "receipt" /\ state = call[c])
  PROVE  IInv'
<1> DEFINE new == [state EXCEPT !.pc = pc, !.at = "asked", !.val = Null]
<1>0. /\ TypeOK /\ call[c] \in CallState
      /\ CallOK(call[c], tx[c], wallet, past, env.faults)
  BY DEF IInv, TypeOK
<1>1. /\ call' \in [Calls -> CallState]
      /\ call'[c] = new
      /\ \A b \in Calls : b # c => call'[b] = call[b]
  BY <1>0, AskIs
<1>2. new.pc = pc /\ new.at = "asked" /\ new.from = state.from
      /\ new.op = state.op /\ new.checked = state.checked
  BY DEF CallState
<1>9. pc # "returned"
  BY DEF Points, WalletPoints, NodePoints, ServerPoints
<1> HIDE DEF new
<1>3. AnswerOK(new, tx[c], past)
  BY <1>2 DEF AnswerOK
<1>4. PostedOK(new, tx[c], env.faults)
  BY <1>0, <1>2, <1>9 DEF PostedOK, CallOK, Finished
<1>5. CallOK(call'[c], tx'[c], wallet, past, env.faults)
  BY <1>1, <1>3, <1>4 DEF CallOK, new
<1> QED BY <1>1, <1>5, CallStep DEF Rest

\* A method that ends.
LEMMA FinishKeeps ==
  ASSUME IInv, NEW c \in Calls, NEW how \in Finished, Finish(c, how), Rest, tx' = tx,
         UNCHANGED <<relayWorker, cuts>>,
         tx[c] = "none" \/ call[c].pc \in {"post", "receipt"},
         how = "threw" => tx[c] = "none" \/ call[c].at = "failed",
         how = "returned" => tx[c] \in {"executed", "reverted"}
  PROVE  IInv'
<1> DEFINE new == [call[c] EXCEPT !.pc = how, !.at = "answered", !.val = Null]
<1>0. /\ TypeOK /\ call[c] \in CallState /\ how \in {"returned", "threw"}
      /\ CallOK(call[c], tx[c], wallet, past, env.faults)
      /\ relayWorker' \in Workers /\ cuts' \in [Details -> Nat]
  BY DEF IInv, TypeOK, Finished
<1>1. /\ call' \in [Calls -> CallState]
      /\ call'[c] = new
      /\ \A b \in Calls : b # c => call'[b] = call[b]
  BY <1>0, FinishIs
<1>2. new.pc = how /\ new.at = "answered" /\ new.from = call[c].from
      /\ new.op = call[c].op /\ new.checked = call[c].checked
      /\ new.details = call[c].details
  BY <1>0 DEF CallState
<1> HIDE DEF new
<1>3. AnswerOK(new, tx[c], past)
  BY <1>0, <1>2 DEF AnswerOK, WalletPoints, Counting
<1>4. FieldsOK(new, past)
  BY <1>0, <1>2 DEF FieldsOK, CallOK, Making, Relaying
<1>5. CheckOK(new, wallet, env.faults)
  BY <1>0, <1>2 DEF CheckOK, Making, Relaying
<1>6. PostedOK(new, tx[c], env.faults)
  BY <1>0, <1>2 DEF PostedOK, CallOK, Finished
<1>7. CallOK(call'[c], tx'[c], wallet, past, env.faults)
  BY <1>1, <1>3, <1>4, <1>5, <1>6 DEF CallOK
<1> QED BY <1>0, <1>1, <1>7, CallStep DEF Rest

LEMMA ContinuationsKeep ==
  ASSUME IInv, NEW c \in Calls, Continuations(c), Rest
  PROVE  IInv'
<1> USE DEF Answered, WalletFound
<1> DEFINE s == call[c]
<1>0. /\ TypeOK /\ call[c] \in CallState /\ tx' = tx
      /\ relayWorker \in Workers /\ cuts \in [Details -> Nat]
      /\ AnswerOK(s, tx[c], past) /\ FieldsOK(s, past)
      /\ CheckOK(s, wallet, env.faults) /\ PostedOK(s, tx[c], env.faults)
      /\ past \subseteq Accounts /\ wallet \in past \cup {Null}
  BY DEF IInv, TypeOK, Continuations, CallOK
<1>none. s.pc \notin {"post", "receipt"} \cup Finished => tx[c] = "none"
  BY <1>0 DEF PostedOK
<1>points. Points = {"displayWallet", "displayCheck", "simpleWallet", "wallet", "check",
                     "relayWallet", "displayBalance", "decimals", "send", "balance",
                     "tokenNonce", "altNonce", "estimate", "nonce", "workerNonce",
                     "receipt", "config", "post"}
  BY DEF Points, WalletPoints, NodePoints, ServerPoints
\* A call that throws where no transaction has been posted.
<1>throw. ASSUME s.pc \notin {"post", "receipt"} \cup Finished, Throw(c),
                 UNCHANGED <<relayWorker, cuts>>
          PROVE  IInv'
  <2>1. Finish(c, "threw") /\ "threw" \in Finished /\ tx[c] = "none"
    BY <1>throw, <1>none DEF Throw, Finished
  <2> QED BY <1>0, <2>1, <1>throw, FinishKeeps
\* A call that goes on to pc without a change of its state.
<1>ask. ASSUME NEW pc \in Points, s.pc \notin {"post", "receipt"} \cup Finished,
               Ask(c, s, pc),
               relayWorker' \in Workers, cuts' \in [Details -> Nat],
               pc \in {"check"} \cup Making \cup Relaying =>
                 s.pc \in {"check"} \cup Making \cup Relaying,
               pc \in {"balance", "displayBalance"} => FALSE,
               pc \in Relaying => s.pc \in Relaying,
               pc \in Making => s.pc \in Making
        PROVE  IInv'
  <2>1. ASSUME NEW new, new = [s EXCEPT !.pc = pc, !.at = "asked", !.val = Null]
        PROVE  FieldsOK(new, past) /\ CheckOK(new, wallet, env.faults)
    <3>1. /\ new.pc = pc /\ new.at = "asked" /\ new.from = s.from /\ new.op = s.op
          /\ new.checked = s.checked /\ new.signer = s.signer /\ new.details = s.details
      BY <1>0, <2>1 DEF CallState
    <3>2. FieldsOK(new, past)
      BY <1>0, <1>ask, <3>1 DEF FieldsOK
    <3>3. CheckOK(new, wallet, env.faults)
      BY <1>0, <1>ask, <3>1 DEF CheckOK, Making, Relaying
    <3> QED BY <3>2, <3>3
  <2> QED BY <1>0, <1>none, <1>ask, <2>1, AskKeeps
<1>1. CASE RequestFailed(c)
  <2>1. CASE call[c].pc = "tokenNonce" /\ Ask(c, call[c], "altNonce")
    BY <2>1, <1>0, <1>1, <1>ask, <1>points DEF RequestFailed, Making, Relaying, Finished
  <2>2. CASE Throw(c)
    <3>1. Finish(c, "threw") /\ "threw" \in Finished /\ call[c].at = "failed"
          /\ UNCHANGED <<relayWorker, cuts>> /\ call[c].pc \notin Finished
      BY <2>2, <1>1 DEF RequestFailed, Throw, Finished, Active
    <3> QED BY <1>0, <3>1, <1>none, FinishKeeps
  <2> QED BY <1>1, <2>1, <2>2 DEF RequestFailed
<1>2. CASE WalletMissing(c)
  BY <1>2, <1>throw DEF WalletMissing, WalletPoints, Finished
\* A call that goes on to pc with fields of its state set.
<1>set. ASSUME NEW pc \in Points, NEW state \in CallState,
               s.pc \notin {"post", "receipt"} \cup Finished,
               Ask(c, state, pc), state.op = s.op, state.details = s.details,
               relayWorker' \in Workers, cuts' \in [Details -> Nat],
               pc \in {"check"} \cup Making \cup Relaying =>
                 state.from \in Accounts /\ (s.op # "relay" => state.from \in past),
               pc \in {"balance", "displayBalance"} => state.checked \in Accounts,
               pc \in Relaying => state.signer \in Accounts,
               s.op # "relay" /\ "return" \notin env.faults =>
                 /\ pc \in Making /\ state.checked # state.from => wallet # state.from
                 /\ pc \in Relaying /\ state.signer = state.from =>
                      state.checked = state.from
        PROVE  IInv'
  <2>1. ASSUME NEW new, new = [state EXCEPT !.pc = pc, !.at = "asked", !.val = Null]
        PROVE  FieldsOK(new, past) /\ CheckOK(new, wallet, env.faults)
    <3>1. /\ new.pc = pc /\ new.at = "asked" /\ new.from = state.from
          /\ new.op = state.op /\ new.checked = state.checked
          /\ new.signer = state.signer /\ new.details = state.details
      BY <2>1 DEF CallState
    <3>2. FieldsOK(new, past)
      BY <1>0, <1>set, <3>1 DEF FieldsOK
    <3>3. CheckOK(new, wallet, env.faults)
      BY <1>set, <3>1 DEF CheckOK
    <3> QED BY <3>2, <3>3
  <2> QED BY <1>0, <1>none, <1>set, <2>1, AskKeeps
<1>3. CASE WalletFetched(c)
  <2> DEFINE state == [s EXCEPT !.from = s.val]
  <2>1. /\ s.pc = "wallet" /\ s.at = "answered" /\ s.val # Null /\ Ask(c, state, "check")
        /\ UNCHANGED <<relayWorker, cuts>>
    BY <1>3 DEF WalletFetched
  <2>2. s.val \in Accounts /\ s.val \in past
    BY <1>0, <2>1 DEF AnswerOK, WalletPoints
  <2>3. /\ state \in CallState /\ state.from = s.val /\ state.op = s.op
        /\ state.details = s.details
    BY <1>0, <2>2 DEF CallState
  <2> HIDE DEF state
  <2> QED BY <1>0, <1>set, <1>points, <2>1, <2>2, <2>3 DEF Making, Relaying, Finished
<1>4. CASE BalanceAsked(c)
  <2> DEFINE state == [s EXCEPT !.checked = s.val]
  <2>1. /\ s.pc \in {"check", "displayCheck"} /\ s.at = "answered" /\ s.val # Null
        /\ Ask(c, state, IF s.pc = "check" THEN "balance" ELSE "displayBalance")
        /\ UNCHANGED <<relayWorker, cuts>>
    BY <1>4 DEF BalanceAsked
  <2>2. s.val \in Accounts
    BY <1>0, <2>1 DEF AnswerOK, WalletPoints
  <2>3. /\ state \in CallState /\ state.checked = s.val /\ state.op = s.op
        /\ state.details = s.details /\ state.from = s.from
    BY <1>0, <2>2 DEF CallState
  <2> HIDE DEF state
  <2>4. CASE s.pc = "check"
    <3>1. /\ s.from \in Accounts /\ (s.op # "relay" => s.from \in past)
          /\ s.op # "relay" /\ "return" \notin env.faults /\ s.val # s.from => wallet # s.from
      BY <1>0, <2>1, <2>4 DEF FieldsOK, CheckOK
    <3> QED BY <1>0, <1>set, <1>points, <2>1, <2>2, <2>3, <2>4, <3>1
            DEF Making, Relaying, Finished
  <2>5. CASE s.pc = "displayCheck"
    BY <1>0, <1>set, <1>points, <2>1, <2>2, <2>3, <2>5 DEF Making, Relaying, Finished
  <2> QED BY <2>1, <2>4, <2>5
<1>5. CASE DisplayBalanceChecked(c)
  <2>0. UNCHANGED <<relayWorker, cuts>>
    BY <1>5 DEF DisplayBalanceChecked
  <2>1. CASE s.pc = "displayWallet" /\ Ask(c, s, "displayCheck")
    BY <1>0, <1>ask, <1>points, <2>0, <2>1 DEF Making, Relaying, Finished
  <2>2. CASE s.pc = "displayBalance" /\ Throw(c)
    BY <1>throw, <2>0, <2>2 DEF Finished
  <2>3. CASE s.pc = "displayBalance" /\ Ask(c, s, "decimals")
    BY <1>0, <1>ask, <1>points, <2>0, <2>3 DEF Making, Relaying, Finished
  <2>4. CASE s.pc = "decimals" /\ Ask(c, s, "wallet")
    BY <1>0, <1>ask, <1>points, <2>0, <2>4 DEF Making, Relaying, Finished
  <2> QED BY <1>5, <2>1, <2>2, <2>3, <2>4 DEF DisplayBalanceChecked
<1>6. CASE BalanceRead(c)
  <2>0. s.pc = "balance" /\ UNCHANGED <<relayWorker, cuts>>
    BY <1>6 DEF BalanceRead
  <2>1. CASE Throw(c)
    BY <1>throw, <2>0, <2>1 DEF Finished
  <2>2. CASE Ask(c, s, "estimate")
    BY <1>0, <1>ask, <1>points, <2>0, <2>2 DEF Making, Relaying, Finished
  <2>3. CASE Ask(c, s, "tokenNonce")
    BY <1>0, <1>ask, <1>points, <2>0, <2>3 DEF Making, Relaying, Finished
  <2> QED BY <1>6, <2>1, <2>2, <2>3 DEF BalanceRead
<1>7. CASE TokenNonceRead(c)
  <2> DEFINE state == [s EXCEPT !.permit = s.val]
  <2>1. /\ s.pc \in {"tokenNonce", "altNonce"} /\ s.at = "answered"
        /\ Ask(c, state, "estimate") /\ UNCHANGED <<relayWorker, cuts>>
    BY <1>7 DEF TokenNonceRead
  <2>2. s.val \in Nat
    BY <1>0, <2>1 DEF AnswerOK, Counting
  <2>3. /\ state \in CallState /\ state.op = s.op /\ state.details = s.details
        /\ state.from = s.from /\ state.checked = s.checked
    BY <1>0, <2>2 DEF CallState
  <2>4. /\ s.from \in Accounts /\ (s.op # "relay" => s.from \in past)
        /\ s.op # "relay" /\ "return" \notin env.faults /\ s.checked # s.from => wallet # s.from
    BY <1>0, <2>1 DEF FieldsOK, CheckOK, Making
  <2> HIDE DEF state
  <2> QED BY <1>0, <1>set, <1>points, <2>1, <2>3, <2>4 DEF Making, Relaying, Finished
<1>8. CASE TransactionMade(c)
  BY <1>0, <1>8, <1>ask, <1>points DEF TransactionMade, Making, Relaying, Finished
<1>9. CASE RelayWalletFetched(c)
  <2> DEFINE state == [s EXCEPT !.signer = s.val]
  <2>1. /\ s.pc = "relayWallet" /\ s.at = "answered" /\ s.val # Null
        /\ Ask(c, state, "config") /\ UNCHANGED <<relayWorker, cuts>>
    BY <1>9 DEF RelayWalletFetched
  <2>2. s.val \in Accounts
    BY <1>0, <2>1 DEF AnswerOK, WalletPoints
  <2>3. /\ state \in CallState /\ state.signer = s.val /\ state.op = s.op
        /\ state.details = s.details /\ state.from = s.from /\ state.checked = s.checked
    BY <1>0, <2>2 DEF CallState
  <2>4. /\ s.from \in Accounts /\ (s.op # "relay" => s.from \in past)
        /\ s.op # "relay" /\ "return" \notin env.faults /\ s.val = s.from => s.checked = s.from
    BY <1>0, <2>1 DEF FieldsOK, CheckOK, Making
  <2> HIDE DEF state
  <2> QED BY <1>0, <1>set, <1>points, <2>1, <2>2, <2>3, <2>4
          DEF Making, Relaying, Finished
<1>10. CASE ConfigUpdated(c)
  <2>1. /\ s.pc = "config" /\ s.at = "answered" /\ Ask(c, s, "nonce")
        /\ relayWorker' = s.val
    BY <1>10 DEF ConfigUpdated
  <2>2. relayWorker' \in Workers
    BY <1>0, <2>1 DEF AnswerOK
  <2>3. cuts' \in [Details -> Nat]
    BY <1>0, <1>10 DEF ConfigUpdated
  <2> QED BY <1>0, <1>ask, <1>points, <2>1, <2>2, <2>3 DEF Making, Relaying, Finished
<1>11. CASE RequestBuilt(c)
  <2> DEFINE cut == IF s.op = "relay" THEN cuts[s.details] ELSE 1
             state == [s EXCEPT !.nonce = s.val, !.worker = relayWorker, !.cut = cut]
  <2>1. /\ s.pc = "nonce" /\ s.at = "answered" /\ Ask(c, state, "workerNonce")
        /\ UNCHANGED <<relayWorker, cuts>>
    BY <1>11 DEF RequestBuilt
  <2>2. s.val \in Nat /\ cut \in Nat
    BY <1>0, <2>1 DEF AnswerOK, Counting, FieldsOK
  <2> HIDE DEF cut
  <2>3. /\ state \in CallState /\ state.op = s.op /\ state.details = s.details
        /\ state.from = s.from /\ state.checked = s.checked /\ state.signer = s.signer
    <3>1. relayWorker \in Workers
      BY <1>0 DEF TypeOK
    <3>2. state = Built(s, s.val, relayWorker, cut)
      BY DEF Built
    <3> HIDE DEF state
    <3> QED BY <1>0, <2>2, <3>1, <3>2, BuiltIs
  <2>4. /\ s.from \in Accounts /\ (s.op # "relay" => s.from \in past)
        /\ s.signer \in Accounts
        /\ s.op # "relay" /\ "return" \notin env.faults /\ s.signer = s.from => s.checked = s.from
    BY <1>0, <2>1 DEF FieldsOK, CheckOK, Relaying
  <2> HIDE DEF state
  <2> QED BY <1>0, <1>set, <1>points, <2>1, <2>3, <2>4 DEF Making, Relaying, Finished
<1>12. CASE RequestPosted(c)
  BY <1>0, <1>12, <1>ask, <1>points DEF RequestPosted, Making, Relaying, Finished
\* Once the server has answered, the receipt is awaited.
<1>poll. ASSUME s.pc \in {"post", "receipt"}, Ask(c, s, "receipt"),
                UNCHANGED <<relayWorker, cuts>>
         PROVE  IInv'
  <2>1. ASSUME NEW new, new = [s EXCEPT !.pc = "receipt", !.at = "asked", !.val = Null]
        PROVE  FieldsOK(new, past) /\ CheckOK(new, wallet, env.faults)
    <3>1. /\ new.pc = "receipt" /\ new.at = "asked" /\ new.from = s.from
          /\ new.op = s.op /\ new.checked = s.checked /\ new.signer = s.signer
          /\ new.details = s.details
      BY <1>0, <2>1 DEF CallState
    <3>2. FieldsOK(new, past)
      BY <1>0, <1>poll, <3>1 DEF FieldsOK, Relaying
    <3>3. CheckOK(new, wallet, env.faults)
      BY <1>0, <1>poll, <3>1 DEF CheckOK, Making, Relaying
    <3> QED BY <3>2, <3>3
  <2> QED BY <1>0, <1>points, <1>poll, <2>1, AskKeeps
<1>13. CASE ResponseReceived(c)
  BY <1>13, <1>poll DEF ResponseReceived
<1>14. CASE ReceiptRead(c)
  <2>1. CASE s.val # Null /\ Finish(c, "returned")
    <3>1. tx[c] \in {"executed", "reverted"}
      BY <1>0, <1>14, <2>1 DEF ReceiptRead, AnswerOK
    <3> QED BY <1>14, <2>1, <3>1, FinishKeeps, <1>0 DEF ReceiptRead, Finished
  <2>2. CASE Ask(c, s, "receipt")
    BY <1>14, <1>poll, <2>2 DEF ReceiptRead
  <2> QED BY <1>14, <2>1, <2>2 DEF ReceiptRead
<1>15. CASE SimpleTransferSent(c)
  BY <1>0, <1>15, <1>ask, <1>points DEF SimpleTransferSent, Making, Relaying, Finished
<1> QED BY <1>1, <1>2, <1>3, <1>4, <1>5, <1>6, <1>7, <1>8, <1>9, <1>10, <1>11, <1>12,
           <1>13, <1>14, <1>15 DEF Continuations

-----------------------------------------------------------------------------
(* The wallet, the node and the server answer.                             *)

\* An answer that is not the server's to a post.
LEMMA AnswerKeeps ==
  ASSUME IInv, NEW c \in Calls,
         NEW val \in Accounts \cup {Null} \cup Workers \cup Nat, Answer(c, val), Rest,
         UNCHANGED <<relayWorker, cuts, tx>>,
         call[c].pc \in Points \ {"post"}, call[c].at = "asked",
         call[c].pc \in WalletPoints => val = wallet,
         call[c].pc \in Counting => val \in Nat,
         call[c].pc = "config" => val \in Workers,
         call[c].pc = "receipt" /\ val # Null => tx[c] \in {"executed", "reverted"}
  PROVE  IInv'
<1> DEFINE s == call[c]
           new == [s EXCEPT !.at = "answered", !.val = val]
<1>0. /\ TypeOK /\ s \in CallState
      /\ relayWorker' \in Workers /\ cuts' \in [Details -> Nat]
      /\ AnswerOK(s, tx[c], past) /\ FieldsOK(s, past)
      /\ CheckOK(s, wallet, env.faults) /\ PostedOK(s, tx[c], env.faults)
      /\ wallet \in past \cup {Null} /\ tx' = tx
  BY DEF IInv, TypeOK, CallOK
<1>1. /\ call' \in [Calls -> CallState] /\ call'[c] = new
      /\ \A b \in Calls : b # c => call'[b] = call[b]
  BY <1>0, AnswerIs
<1>2. /\ new.pc = s.pc /\ new.at = "answered" /\ new.val = val /\ new.from = s.from
      /\ new.op = s.op /\ new.checked = s.checked /\ new.signer = s.signer
      /\ new.details = s.details
  BY <1>0 DEF CallState
<1>3. s.pc \notin {"post", "returned", "threw"}
  BY DEF Points, WalletPoints, NodePoints, ServerPoints
<1> HIDE DEF new
<1>4. AnswerOK(new, tx[c], past)
  BY <1>0, <1>2 DEF AnswerOK
<1>5. FieldsOK(new, past)
  BY <1>0, <1>2 DEF FieldsOK
<1>6. CheckOK(new, wallet, env.faults)
  <2>1. s.pc \in {"check", "relayWallet"} => val = wallet
    BY DEF WalletPoints
  <2>2. s.pc = "relayWallet" => s.pc \in Making
    BY DEF Making
  <2> QED BY <1>0, <1>2, <2>1, <2>2 DEF CheckOK
<1>7. PostedOK(new, tx[c], env.faults)
  BY <1>0, <1>2, <1>3 DEF PostedOK, Finished
<1>8. CallOK(call'[c], tx'[c], wallet, past, env.faults)
  BY <1>0, <1>1, <1>4, <1>5, <1>6, <1>7 DEF CallOK
<1> QED BY <1>0, <1>1, <1>8, CallStep DEF Rest

\* A request that fails.  Whatever is posted is not told of only by fault.
LEMMA FailKeeps ==
  ASSUME IInv, NEW c \in Calls, Fail(c), Rest, UNCHANGED <<relayWorker, cuts>>,
         \/ tx' = tx
         \/ tx' = [tx EXCEPT ![c] = "pending"] /\ call[c].pc = "post"
            /\ (call[c].op # "relay" /\ "return" \notin env.faults => call[c].checked = call[c].from),
         call[c].pc \in Points, call[c].at = "asked",
         tx'[c] = "none" \/ {"reply", "poll"} \cap env.faults # {}
  PROVE  IInv'
<1> DEFINE s == call[c]
           new == [s EXCEPT !.at = "failed"]
<1>0. /\ TypeOK /\ s \in CallState
      /\ relayWorker' \in Workers /\ cuts' \in [Details -> Nat]
      /\ AnswerOK(s, tx[c], past) /\ FieldsOK(s, past)
      /\ CheckOK(s, wallet, env.faults) /\ PostedOK(s, tx[c], env.faults)
      /\ tx[c] \in {"none", "pending", "executed", "reverted", "dropped"}
      /\ tx' = tx \/ (tx'[c] = "pending" /\ s.pc = "post"
                      /\ (s.op # "relay" /\ "return" \notin env.faults => s.checked = s.from))
  BY DEF IInv, TypeOK, CallOK
<1>1. /\ call' \in [Calls -> CallState] /\ call'[c] = new
      /\ \A b \in Calls : b # c => call'[b] = call[b]
  BY <1>0, FailIs
<1>2. /\ new.pc = s.pc /\ new.at = "failed" /\ new.from = s.from
      /\ new.op = s.op /\ new.checked = s.checked /\ new.signer = s.signer
      /\ new.details = s.details
  BY <1>0 DEF CallState
<1>3. s.pc \notin {"returned", "threw"}
  BY DEF Points, WalletPoints, NodePoints, ServerPoints
<1> HIDE DEF new
<1>4. AnswerOK(new, tx'[c], past)
  BY <1>2 DEF AnswerOK
<1>5. FieldsOK(new, past)
  BY <1>0, <1>2 DEF FieldsOK
<1>6. CheckOK(new, wallet, env.faults)
  BY <1>0, <1>2 DEF CheckOK
<1>7. PostedOK(new, tx'[c], env.faults)
  <2>1. s.pc = "post" => s.from \in Accounts
    BY <1>0 DEF FieldsOK, Relaying
  <2> QED BY <1>0, <1>2, <1>3, <2>1 DEF PostedOK, Finished
<1>8. CallOK(call'[c], tx'[c], wallet, past, env.faults)
  BY <1>1, <1>4, <1>5, <1>6, <1>7 DEF CallOK
<1> QED BY <1>0, <1>1, <1>8, CallStep DEF Rest

LEMMA AnswersKeep ==
  ASSUME IInv, NEW c \in Calls, Answers(c), Rest
  PROVE  IInv'
<1> DEFINE s == call[c]
<1>0. /\ TypeOK /\ s \in CallState /\ UNCHANGED <<relayWorker, cuts>>
      /\ wallet \in Accounts \cup {Null} /\ serverWorker \in Workers
      /\ AnswerOK(s, tx[c], past) /\ FieldsOK(s, past)
      /\ CheckOK(s, wallet, env.faults) /\ PostedOK(s, tx[c], env.faults)
  BY DEF IInv, TypeOK, CallOK, Answers
<1>none. s.pc \notin {"post", "receipt"} \cup Finished \/ (s.pc = "post" /\ s.at = "asked")
           => tx[c] = "none"
  BY <1>0 DEF PostedOK
<1>points. Points = {"displayWallet", "displayCheck", "simpleWallet", "wallet", "check",
                     "relayWallet", "displayBalance", "decimals", "send", "balance",
                     "tokenNonce", "altNonce", "estimate", "nonce", "workerNonce",
                     "receipt", "config", "post"}
  BY DEF Points, WalletPoints, NodePoints, ServerPoints
<1>1. CASE WalletAnswers(c)
  <2>1. /\ s.pc \in WalletPoints /\ s.at = "asked" /\ Answer(c, wallet) /\ tx' = tx
    BY <1>1 DEF WalletAnswers, Asked
  <2>2. s.pc \in Points /\ s.pc \notin Counting \cup {"post", "config", "receipt"}
    BY <2>1 DEF Points, WalletPoints, Counting
  <2> QED BY <1>0, <2>1, <2>2, AnswerKeeps
<1>2. CASE RequestFails(c)
  <2>1. /\ s.at = "asked" /\ Fail(c) /\ tx' = tx
        /\ s.pc \in Points \ {"post"}
        /\ s.pc = "receipt" => "poll" \in env.faults
    BY <1>2, <1>points DEF RequestFails, Asked
  <2>2. tx'[c] = "none" \/ {"reply", "poll"} \cap env.faults # {}
    BY <1>none, <1>points, <2>1 DEF Finished
  <2> QED BY <1>0, <2>1, <2>2, FailKeeps
<1>3. CASE NodeAnswers(c)
  <2>0. s.at = "asked" /\ tx' = tx /\ s.pc \in NodePoints
    BY <1>3 DEF NodeAnswers, Asked, NodePoints
  <2>1. CASE s.pc \in {"balance", "displayBalance"} /\ Answer(c, balance[s.checked])
    <3>1. balance[s.checked] \in Nat
      BY <1>0, <2>1 DEF TypeOK, FieldsOK
    <3> QED BY <1>0, <2>0, <2>1, <3>1, <1>points, AnswerKeeps DEF WalletPoints
  <2>2. CASE s.pc \in {"tokenNonce", "altNonce"} /\ Answer(c, tokenNonce[s.from])
    <3>1. tokenNonce[s.from] \in Nat
      BY <1>0, <2>2 DEF TypeOK, FieldsOK, Making
    <3> QED BY <1>0, <2>0, <2>2, <3>1, <1>points, AnswerKeeps DEF WalletPoints
  <2>3. CASE s.pc = "nonce" /\ Answer(c, forwarderNonce[s.signer])
    <3>1. forwarderNonce[s.signer] \in Nat
      BY <1>0, <2>3 DEF TypeOK, FieldsOK, Relaying
    <3> QED BY <1>0, <2>0, <2>3, <3>1, <1>points, AnswerKeeps DEF WalletPoints
  <2>4. CASE s.pc \in {"decimals", "estimate", "workerNonce"} /\ Answer(c, Null)
    BY <1>0, <2>0, <2>4, <1>points, AnswerKeeps DEF WalletPoints, Counting
  <2>5. CASE s.pc = "receipt" /\ Answer(c, Receipt(c))
    <3>1. /\ Receipt(c) \in Nat \cup {Null}
          /\ Receipt(c) # Null => tx[c] \in {"executed", "reverted"}
      BY DEF Receipt, Mined
    <3> QED BY <1>0, <2>0, <2>5, <3>1, <1>points, AnswerKeeps DEF WalletPoints, Counting
  <2>6. CASE s.pc = "send" /\ Fail(c)
    <3>1. tx'[c] = "none"
      BY <1>none, <2>0, <2>6 DEF Finished
    <3> QED BY <1>0, <2>0, <2>6, <3>1, <1>points, FailKeeps
  <2> QED BY <1>3, <2>1, <2>2, <2>3, <2>4, <2>5, <2>6 DEF NodeAnswers, Asked
<1>4. CASE ServerAnswersConfig(c)
  BY <1>0, <1>4, <1>points, AnswerKeeps
  DEF ServerAnswersConfig, Asked, WalletPoints, Counting
\* What the server accepts is signed by the sender, and was therefore checked for it.
<1>5. CASE ServerAccepts(c)
  <2>0. /\ s.pc = "post" /\ s.at = "asked" /\ tx' = [tx EXCEPT ![c] = "pending"]
        /\ s.signer = s.from
    BY <1>5 DEF ServerAccepts, Asked, Acceptable
  <2>1. s.op # "relay" /\ "return" \notin env.faults => s.checked = s.from
    BY <1>0, <2>0 DEF CheckOK, Relaying
  <2>2. s.from \in Accounts /\ s.pc \in Points
    BY <1>0, <1>points, <2>0 DEF FieldsOK, Relaying
  <2>3. CASE Answer(c, Null)
    <3> DEFINE new == [s EXCEPT !.at = "answered", !.val = Null]
    <3>1. /\ call' \in [Calls -> CallState] /\ call'[c] = new
          /\ \A b \in Calls : b # c => call'[b] = call[b]
      BY <1>0, <2>3, AnswerIs
    <3>2. /\ new.pc = "post" /\ new.at = "answered" /\ new.val = Null
          /\ new.from = s.from /\ new.op = s.op /\ new.checked = s.checked
          /\ new.signer = s.signer /\ new.details = s.details
      BY <1>0, <2>0 DEF CallState
    <3> HIDE DEF new
    <3>3. AnswerOK(new, tx'[c], past)
      BY <3>2 DEF AnswerOK, WalletPoints, Counting
    <3>4. FieldsOK(new, past) /\ CheckOK(new, wallet, env.faults)
      BY <1>0, <2>0, <3>2 DEF FieldsOK, CheckOK
    <3>5. PostedOK(new, tx'[c], env.faults)
      BY <2>1, <2>2, <3>2 DEF PostedOK
    <3>6. CallOK(call'[c], tx'[c], wallet, past, env.faults)
      BY <3>1, <3>3, <3>4, <3>5 DEF CallOK
    <3>7. relayWorker' \in Workers /\ cuts' \in [Details -> Nat]
      BY <1>0 DEF TypeOK
    <3> QED BY <2>0, <3>1, <3>6, <3>7, CallStep DEF Rest
  <2>4. CASE "reply" \in env.faults /\ Fail(c)
    BY <1>0, <2>0, <2>1, <2>2, <2>4, FailKeeps
  <2> QED BY <1>5, <2>3, <2>4 DEF ServerAccepts
<1>6. CASE ServerRefuses(c)
  <2>1. s.pc = "post" /\ s.at = "asked" /\ Fail(c) /\ tx' = tx
    BY <1>6 DEF ServerRefuses, Asked
  <2>2. tx'[c] = "none"
    BY <1>none, <2>1
  <2> QED BY <1>0, <1>points, <2>1, <2>2, FailKeeps
<1> QED BY <1>1, <1>2, <1>3, <1>4, <1>5, <1>6 DEF Answers

-----------------------------------------------------------------------------
(* The chain and the wallet.                                               *)

\* A posted transaction is settled.
LEMMA Settled ==
  ASSUME IInv, NEW c \in Calls, tx[c] = "pending",
         NEW how \in {"executed", "reverted", "dropped"},
         tx' = [tx EXCEPT ![c] = how],
         UNCHANGED <<env, appVars, wallet, past, serverWorker>>,
         balance' \in [Accounts -> Nat], forwarderNonce' \in [Accounts -> Nat],
         tokenNonce' \in [Accounts -> Nat]
  PROVE  IInv'
<1>1. TypeOK'
  BY DEF IInv, TypeOK, appVars
<1>2. ASSUME NEW b \in Calls
      PROVE  CallOK(call[b], tx'[b], wallet, past, env.faults)
  <2>0. CallOK(call[b], tx[b], wallet, past, env.faults)
    BY DEF IInv
  <2>1. CASE b # c
    BY <2>0, <2>1 DEF IInv, TypeOK
  <2>2. CASE b = c
    <3>1. tx'[b] = how
      BY <2>2 DEF IInv, TypeOK
    <3>2. AnswerOK(call[b], tx'[b], past)
      BY <2>0, <2>2 DEF CallOK, AnswerOK
    <3>3. PostedOK(call[b], tx'[b], env.faults)
      BY <2>0, <2>2, <3>1 DEF CallOK, PostedOK
    <3> QED BY <2>0, <3>2, <3>3 DEF CallOK
  <2> QED BY <2>1, <2>2
<1> QED BY <1>1, <1>2 DEF IInv, appVars

LEMMA MineKeeps ==
  ASSUME IInv, NEW c \in Calls, Mine(c)
  PROVE  IInv'
<1> DEFINE a == call[c].from
<1>0. /\ TypeOK /\ tx[c] = "pending" /\ call[c] \in CallState /\ a \in Accounts
      /\ UNCHANGED <<env, appVars, wallet, past, serverWorker>>
  BY DEF IInv, TypeOK, CallOK, PostedOK, Mine
<1>1. PICK works \in {Works(c), Works(c) /\ call[c].cut <= 1} :
        /\ forwarderNonce' = IF call[c].nonce = forwarderNonce[a]
                             THEN Bump(forwarderNonce, a) ELSE forwarderNonce
        /\ tokenNonce' = IF works /\ Transfers(c) THEN Bump(tokenNonce, a) ELSE tokenNonce
        /\ balance' = [balance EXCEPT ![a] = Paid(c, works)]
        /\ tx' = [tx EXCEPT ![c] = IF works THEN "executed" ELSE "reverted"]
  BY DEF Mine
<1>2. works => Works(c)
  <2>1. CASE works = Works(c)
    BY <2>1
  <2>2. CASE works = (Works(c) /\ call[c].cut <= 1)
    BY <2>2
  <2> QED BY <2>1, <2>2
<1>3. /\ Dust \in Nat /\ call[c].amount \in Nat /\ balance[a] \in Nat
      /\ balance \in [Accounts -> Nat]
      /\ forwarderNonce \in [Accounts -> Nat] /\ tokenNonce \in [Accounts -> Nat]
  <2>1. call[c].amount \in Amounts \cup {0}
    BY <1>0 DEF CallState
  <2>2. Amounts \subseteq Nat /\ Dust \in Nat
    BY ConstantsAssumption
  <2>3. call[c].amount \in Nat
    <3>1. ASSUME NEW amount \in Amounts \cup {0} PROVE amount \in Nat
      <4>1. CASE amount \in Amounts
        BY <2>2, <4>1
      <4>2. CASE amount = 0
        BY <4>2
      <4> QED BY <4>1, <4>2
    <3> QED BY <2>1, <3>1
  <2> QED BY <1>0, <2>2, <2>3 DEF TypeOK
<1>4. Paid(c, works) \in Nat
  <2>1. works /\ Transfers(c) => call[c].amount <= balance[a]
    BY <1>2 DEF Works
  <2> QED BY <1>3, <2>1 DEF Paid
<1>5. balance' \in [Accounts -> Nat]
  BY <1>1, <1>3, <1>4
<1>6. forwarderNonce' \in [Accounts -> Nat] /\ tokenNonce' \in [Accounts -> Nat]
  <2>1. Bump(forwarderNonce, a) \in [Accounts -> Nat]
    BY <1>0, <1>3 DEF Bump
  <2>2. Bump(tokenNonce, a) \in [Accounts -> Nat]
    BY <1>0, <1>3 DEF Bump
  <2> QED BY <1>1, <1>3, <2>1, <2>2
<1>7. PICK how \in {"executed", "reverted", "dropped"} : tx' = [tx EXCEPT ![c] = how]
  BY <1>1
<1> QED BY <1>0, <1>5, <1>6, <1>7, Settled

\* Where a wallet that is replaced does not come back, no sender that is not the wallet
\* becomes the wallet.
LEMMA WalletReplacedKeeps ==
  ASSUME IInv, WalletReplaced
  PROVE  IInv'
<1>0. /\ wallet' \in Accounts \cup {Null}
      /\ "return" \notin env.faults => wallet' \notin past
      /\ past' = past \cup ({wallet'} \ {Null})
      /\ UNCHANGED <<env, appVars, serverWorker, chainVars, tx>>
      /\ past \subseteq Accounts
  BY DEF WalletReplaced, IInv, TypeOK
<1>1. TypeOK'
  BY <1>0, ConstantsAssumption DEF IInv, TypeOK, appVars, chainVars
<1>2. wallet' \in past' \cup {Null}
  BY <1>0
<1>3. ASSUME NEW c \in Calls
      PROVE  CallOK(call[c], tx[c], wallet', past', env.faults)
  <2>0. CallOK(call[c], tx[c], wallet, past, env.faults)
    BY DEF IInv
  <2>1. AnswerOK(call[c], tx[c], past') /\ FieldsOK(call[c], past')
    BY <1>0, <2>0 DEF CallOK, AnswerOK, FieldsOK
  <2>2. CheckOK(call[c], wallet', env.faults)
    <3>1. call[c].op # "relay" /\ "return" \notin env.faults /\ call[c].pc \in {"check"} \cup Making
            => wallet' # call[c].from
      BY <1>0, <2>0, ConstantsAssumption DEF CallOK, FieldsOK
    <3> QED BY <2>0, <3>1 DEF CallOK, CheckOK
  <2> QED BY <2>0, <2>1, <2>2 DEF CallOK
<1> QED BY <1>0, <1>1, <1>2, <1>3 DEF IInv, appVars

-----------------------------------------------------------------------------
(* The theorems.                                                           *)

LEMMA Initially == Init => IInv
<1> SUFFICES ASSUME Init PROVE IInv
  OBVIOUS
<1>1. TypeOK
  BY ConstantsAssumption DEF Init, TypeOK, CallState, Methods
<1>2. wallet \in past \cup {Null}
  BY DEF Init
<1>3. ASSUME NEW c \in Calls
      PROVE  CallOK(call[c], tx[c], wallet, past, env.faults)
  BY DEF Init, CallOK, AnswerOK, FieldsOK, CheckOK, PostedOK, WalletPoints, Counting,
         Making, Relaying
<1> QED BY <1>1, <1>2, <1>3 DEF IInv

LEMMA Preserved == IInv /\ [Next]_vars => IInv'
<1> SUFFICES ASSUME IInv, [Next]_vars PROVE IInv'
  OBVIOUS
<1>1. ASSUME NEW c \in Calls, CallSteps(c) PROVE IInv'
  <2>1. Rest
    BY <1>1 DEF CallSteps, Rest
  <2>2. CASE AppCalls(c)
    BY <2>1, <2>2, AppCallsKeep DEF Rest
  <2>3. CASE Continuations(c)
    BY <2>1, <2>3, ContinuationsKeep
  <2>4. CASE Answers(c)
    BY <2>1, <2>4, AnswersKeep
  <2> QED BY <1>1, <2>2, <2>3, <2>4 DEF CallSteps
<1>2. ASSUME NEW c \in Calls, Mine(c) PROVE IInv'
  BY <1>2, MineKeeps
<1>3. ASSUME NEW c \in Calls, Drop(c) PROVE IInv'
  BY <1>3, Settled DEF Drop, chainVars, IInv, TypeOK
<1>4. CASE WorkerRotated
  BY <1>4 DEF WorkerRotated, IInv, TypeOK, appVars, chainVars
<1>5. CASE WalletReplaced
  BY <1>5, WalletReplacedKeeps
<1>6. CASE UNCHANGED vars
  BY <1>6 DEF vars, IInv, TypeOK, appVars, chainVars
<1> QED BY <1>1, <1>2, <1>3, <1>4, <1>5, <1>6 DEF Next

\* The invariant holds in every state of NetworkImpl and the GSN client.
THEOREM Invariant == Spec => []IInv
BY Initially, Preserved, PTL DEF Spec

\* The state of every call, the chain and the wallet stay of their types: every read of
\* a balance or a nonce is one for an account.
THEOREM TypeCorrect == Spec => []TypeOK
<1>1. IInv => TypeOK
  BY DEF IInv
<1> QED BY <1>1, Invariant, PTL

\* What is executed was checked against the balance of the account that pays, whenever
\* the wallet is replaced between transferExact's three looks at it, where a replaced
\* wallet does not come back.
THEOREM PayerChecked == Spec => []CheckedForPayer
<1>1. IInv => CheckedForPayer
  BY DEF IInv, CallOK, PostedOK, CheckedForPayer
<1> QED BY <1>1, Invariant, PTL

\* A hash that handleGsnResponse returns is that of a transaction on chain.
THEOREM ReturnedOnChain == Spec => []ReturnedMined
<1>1. IInv => ReturnedMined
  BY DEF IInv, CallOK, PostedOK, ReturnedMined, Mined
<1> QED BY <1>1, Invariant, PTL

\* A call that throws has left no transaction behind, unless the server's answer was lost
\* or the receipt could not be read.
THEOREM RetryIsSafe == Spec => []RetrySafe
<1>1. IInv => RetrySafe
  BY DEF IInv, CallOK, PostedOK, RetrySafe
<1> QED BY <1>1, Invariant, PTL

-----------------------------------------------------------------------------
(* Calls that the app awaits.                                              *)

\* An app that awaits each call and relays no details twice, and what may go wrong so
\* that the contract holds all the same.
Careful(e) ==
  e.serial /\ ~e.reuse /\ e.faults \subseteq {"read", "reject", "switch", "rotate"}

Made == {"claimRly", "transfer", "transferExact"}
Transferring == {"transfer", "transferExact"}
Late == {"estimate", "relayWallet"} \cup Relaying

\* The methods that wait at a point.
OpAt(s) ==
  /\ s.pc = "none" => s.op = "none"
  /\ s.pc \in {"displayWallet", "displayCheck", "displayBalance", "decimals"} =>
       s.op = "transfer"
  /\ s.pc \in {"simpleWallet", "send"} => s.op = "simpleTransfer"
  /\ s.pc \in {"wallet", "check", "balance", "estimate"} => s.op \in Made
  /\ s.pc \in {"tokenNonce", "altNonce"} => s.op \in Transferring
  /\ s.pc \in {"relayWallet"} \cup Relaying => s.op \in Made \cup {"relay"}

\* A transaction is executed with the nonce it was accepted with, and none reverts.
TxOK(s, t) ==
  /\ t \in {"none", "pending", "executed"}
  /\ t = "pending" => s.nonce = forwarderNonce[s.from]

\* Details are lowered once.
CutOK(s, low) ==
  /\ s.op = "relay" =>
       /\ s.pc \in {"relayWallet", "config"} => low[s.details] = 0
       /\ low[s.details] <= 1
  /\ s.pc \in {"workerNonce", "post", "receipt"} => s.cut <= 1

\* What a call has read of the chain is still so, until its transaction is executed.
ReadOK(s) ==
  /\ s.pc = "balance" /\ s.at = "answered" => s.val = balance[s.checked]
  /\ s.pc \in {"tokenNonce", "altNonce"} /\ s.at = "answered" => s.val = tokenNonce[s.from]
  /\ s.op = "claimRly" /\ s.pc \in Late => balance[s.checked] = 0
  /\ s.op \in Transferring /\ s.pc \in Late \cup {"tokenNonce", "altNonce"} =>
       s.amount <= balance[s.checked]
  /\ s.op \in Transferring /\ s.pc \in Late => s.permit = tokenNonce[s.from]

\* Where nothing changes either, the wallet, the worker and the nonce are those the server
\* will see.
QuietOK(s, t, worker) ==
  /\ s.op # "relay" =>
       /\ s.pc \in WalletPoints /\ s.at = "answered" => s.val = wallet
       /\ s.pc \in {"check"} \cup Making => s.from = wallet
       /\ s.pc \in Relaying => s.signer = s.from
       /\ s.pc = "post" => s.at # "failed"
  /\ s.pc = "config" /\ s.at = "answered" => s.val = serverWorker
  /\ s.pc = "nonce" => worker = serverWorker
  /\ s.pc = "nonce" /\ s.at = "answered" => s.val = forwarderNonce[s.signer]
  /\ s.pc \in {"workerNonce", "post"} /\ t = "none" =>
       s.worker = serverWorker /\ s.nonce = forwarderNonce[s.signer]

SerialOK(s, t, low, worker) ==
  /\ OpAt(s)
  /\ TxOK(s, t)
  /\ CutOK(s, low)
  /\ t # "executed" => ReadOK(s)
  /\ env.faults = {} => QuietOK(s, t, worker)

\* One call runs.
Alone == \A b, c \in Calls : Active(b) /\ Active(c) => b = c

\* Details belong to one call, and are lowered by it.
DetailsOK ==
  /\ \A b, c \in Calls :
       call[b].op = "relay" /\ call[c].op = "relay" /\ call[b].details = call[c].details => b = c
  /\ \A d \in Details :
       cuts[d] # 0 => \E c \in Calls : call[c].op = "relay" /\ call[c].details = d

SerialInv == Alone /\ DetailsOK /\ \A c \in Calls : SerialOK(call[c], tx[c], cuts, relayWorker)


\* A step of the contract, or none.
ContractStep == [Contract!Next]_(Contract!cvars)

-----------------------------------------------------------------------------
(* What the contract sees.                                                 *)

\* A step that changes no request.
LEMMA Unseen ==
  ASSUME balance' = balance,
         \A b \in Calls : Request(call[b], tx[b])' = Request(call[b], tx[b])
  PROVE  ContractStep
<1>1. [b \in Calls |-> Request(call[b], tx[b])]' = [b \in Calls |-> Request(call[b], tx[b])]
  OBVIOUS
<1> QED BY <1>1 DEF ContractStep, Contract!cvars

\* A step in which one call comes further.
LEMMA Seen ==
  ASSUME NEW c \in Calls, NEW from, NEW to,
         \A b \in Calls : b # c => Request(call[b], tx[b])' = Request(call[b], tx[b]),
         Stage(call[c], tx[c]) = from, Stage(call[c], tx[c])' = to,
         call'[c].op = call[c].op, call'[c].amount = call[c].amount
  PROVE  Contract!Stage(c, from, to)
<1> DEFINE req == [b \in Calls |-> Request(call[b], tx[b])]
<1>1. req[c].stage = from
  BY DEF Request
<1>2. Request(call[c], tx[c])' = [Request(call[c], tx[c]) EXCEPT !.stage = to]
  BY DEF Request
<1>3. req' = [req EXCEPT ![c].stage = to]
  <2> DEFINE next == [req EXCEPT ![c].stage = to]
  <2>1. ASSUME NEW b \in Calls
        PROVE  Request(call[b], tx[b])' = next[b]
    BY <1>2
  <2> QED BY <2>1
<1> QED BY <1>1, <1>3 DEF Contract!Stage

-----------------------------------------------------------------------------
(* Steps of the one call that runs.                                        *)

\* What is known of a call and the chain.
LEMMA Facts ==
  ASSUME IInv, SerialInv, Careful(env), NEW c \in Calls
  PROVE  /\ TypeOK /\ call[c] \in CallState
         /\ AnswerOK(call[c], tx[c], past) /\ FieldsOK(call[c], past)
         /\ CheckOK(call[c], wallet, env.faults) /\ PostedOK(call[c], tx[c], env.faults)
         /\ SerialOK(call[c], tx[c], cuts, relayWorker)
         /\ {"reply", "poll"} \cap env.faults = {} /\ "return" \notin env.faults
         /\ call[c].amount \in Nat
         /\ tx[c] # "none" => call[c].pc \in {"post", "receipt", "returned"}
<1>1. /\ TypeOK /\ call[c] \in CallState
      /\ AnswerOK(call[c], tx[c], past) /\ FieldsOK(call[c], past)
      /\ CheckOK(call[c], wallet, env.faults) /\ PostedOK(call[c], tx[c], env.faults)
      /\ SerialOK(call[c], tx[c], cuts, relayWorker)
  BY DEF IInv, TypeOK, CallOK, SerialInv
<1>2. {"reply", "poll"} \cap env.faults = {} /\ "return" \notin env.faults
  BY DEF Careful
<1>3. call[c].amount \in Nat
  <2>1. call[c].amount \in Amounts \cup {0}
    BY <1>1 DEF CallState
  <2>2. ASSUME NEW amount \in Amounts \cup {0} PROVE amount \in Nat
    <3>1. CASE amount \in Amounts
      BY <3>1, ConstantsAssumption
    <3>2. CASE amount = 0
      BY <3>2
    <3> QED BY <3>1, <3>2
  <2> QED BY <2>1, <2>2
<1>4. tx[c] # "none" => call[c].pc \in {"post", "receipt", "returned"}
  BY <1>1, <1>2 DEF PostedOK, Finished
<1> QED BY <1>1, <1>2, <1>3, <1>4

\* The others rest: what is known of them does not depend on what changes.
LEMMA OthersRest ==
  ASSUME IInv, SerialInv, Careful(env), NEW c \in Calls, Rest,
         \A b \in Calls : b # c => call'[b] = call[b] /\ tx'[b] = tx[b] /\ ~Active(b),
         \A d \in Details :
           cuts'[d] = cuts[d] \/ (call[c].op = "relay" /\ call[c].details = d),
         \/ call'[c].op = call[c].op /\ call'[c].details = call[c].details
         \/ /\ call[c].op # "relay"
            /\ call'[c].op = "relay" => \A b \in Calls : call[b].details # call'[c].details,
         SerialOK(call'[c], tx'[c], cuts', relayWorker')
  PROVE  SerialInv'
<1>1. Alone'
  BY DEF Alone, Active
<1>2. DetailsOK'
  <2>1. ASSUME NEW a \in Calls, NEW b \in Calls, call'[a].op = "relay", call'[b].op = "relay",
               call'[a].details = call'[b].details
        PROVE  a = b
    BY <2>1 DEF SerialInv, DetailsOK
  <2>2. ASSUME NEW d \in Details, cuts'[d] # 0
        PROVE  \E b \in Calls : call'[b].op = "relay" /\ call'[b].details = d
    <3>1. CASE cuts[d] # 0
      <4>1. PICK b \in Calls : call[b].op = "relay" /\ call[b].details = d
        BY <3>1 DEF SerialInv, DetailsOK
      <4>2. call'[b].op = "relay" /\ call'[b].details = d
        BY <4>1
      <4> QED BY <4>2
    <3>2. CASE call[c].op = "relay" /\ call[c].details = d
      BY <3>2
    <3> QED BY <2>2, <3>1, <3>2
  <2> QED BY <2>1, <2>2 DEF DetailsOK
<1>3. ASSUME NEW b \in Calls, b # c
      PROVE  SerialOK(call[b], tx[b], cuts', relayWorker')
  <2>0. /\ call[b].pc \in Finished \cup {"none"} /\ SerialOK(call[b], tx[b], cuts, relayWorker)
        /\ FieldsOK(call[b], past)
    BY <1>3, Facts DEF Active
  <2>1. call[b].op = "relay" => cuts'[call[b].details] = cuts[call[b].details]
    BY <1>3, <2>0 DEF FieldsOK, SerialInv, DetailsOK
  <2>2. CutOK(call[b], cuts')
    BY <2>0, <2>1 DEF SerialOK, CutOK, Finished
  <2>3. QuietOK(call[b], tx[b], relayWorker')
    BY <2>0 DEF QuietOK, Finished, WalletPoints, Making, Relaying
  <2> QED BY <2>0, <2>2, <2>3 DEF SerialOK
<1>4. ASSUME NEW b \in Calls
      PROVE  SerialOK(call'[b], tx'[b], cuts', relayWorker')
  BY <1>3
<1>5. \A b \in Calls : SerialOK(call[b], tx[b], cuts, relayWorker)'
  BY <1>4 DEF Rest, chainVars, SerialOK, OpAt, TxOK, CutOK, ReadOK, QuietOK
<1> QED BY <1>1, <1>2, <1>5 DEF SerialInv

\* The state of a call that goes on to pc and asks.
IsAsked(new, state, pc) ==
  /\ new.pc = pc /\ new.at = "asked"
  /\ new.op = state.op /\ new.amount = state.amount /\ new.details = state.details
  /\ new.from = state.from /\ new.checked = state.checked /\ new.permit = state.permit
  /\ new.signer = state.signer /\ new.nonce = state.nonce /\ new.worker = state.worker
  /\ new.cut = state.cut

\* The call that runs goes on: the contract sees nothing.
LEMMA GoesOn ==
  ASSUME IInv, SerialInv, Careful(env), NEW c \in Calls, Active(c), Rest, tx' = tx,
         NEW state \in CallState, NEW pc \in Points, Ask(c, state, pc),
         state.op = call[c].op, state.amount = call[c].amount,
         state.details = call[c].details,
         \A d \in Details :
           cuts'[d] = cuts[d] \/ (call[c].op = "relay" /\ call[c].details = d),
         \A new : IsAsked(new, state, pc) => SerialOK(new, tx[c], cuts', relayWorker')
  PROVE  SerialInv' /\ ContractStep
<1>1. /\ call'[c] = [state EXCEPT !.pc = pc, !.at = "asked", !.val = Null]
      /\ \A b \in Calls : b # c => call'[b] = call[b]
  BY AskIs DEF IInv
<1>2. IsAsked(call'[c], state, pc)
  BY <1>1 DEF IsAsked, CallState
<1>3. \A b \in Calls : b # c => ~Active(b)
  BY DEF SerialInv, Alone
<1>4. SerialInv'
  BY <1>1, <1>2, <1>3, OthersRest DEF IsAsked
<1>5. pc \notin Finished \cup {"none"}
  BY DEF Points, WalletPoints, NodePoints, ServerPoints, Finished
<1>6. ASSUME NEW b \in Calls
      PROVE  Request(call[b], tx[b])' = Request(call[b], tx[b])
  <2>1. CASE b # c
    BY <1>1, <2>1
  <2>2. CASE b = c
    BY <1>2, <1>5, <2>2 DEF IsAsked, Request, Stage, Active
  <2> QED BY <2>1, <2>2
<1>7. balance' = balance
  BY DEF Rest, chainVars
<1> QED BY <1>4, <1>6, <1>7, Unseen

\* The call that runs ends.
LEMMA Ends ==
  ASSUME IInv, SerialInv, Careful(env), NEW c \in Calls, Active(c), Rest, tx' = tx,
         NEW how \in Finished, Finish(c, how), UNCHANGED <<relayWorker, cuts>>,
         how = "threw" => tx[c] = "none",
         how = "returned" => tx[c] = "executed"
  PROVE  SerialInv' /\ ContractStep
<1> DEFINE new == call'[c]
<1>0. /\ call[c] \in CallState /\ SerialOK(call[c], tx[c], cuts, relayWorker)
      /\ how \in {"returned", "threw"}
  BY Facts DEF Finished
<1>1. /\ new = [call[c] EXCEPT !.pc = how, !.at = "answered", !.val = Null]
      /\ \A b \in Calls : b # c => call'[b] = call[b]
  BY FinishIs DEF IInv
<1>2. /\ new.pc = how /\ new.op = call[c].op /\ new.details = call[c].details
      /\ new.amount = call[c].amount
  BY <1>0, <1>1 DEF CallState
<1>3. \A b \in Calls : b # c => ~Active(b)
  BY DEF SerialInv, Alone
<1>4. SerialOK(new, tx[c], cuts, relayWorker)
  <2>1. OpAt(new) /\ CutOK(new, cuts) /\ ReadOK(new) /\ QuietOK(new, tx[c], relayWorker)
    BY <1>0, <1>2 DEF SerialOK, OpAt, CutOK, ReadOK, QuietOK, Late, Relaying, Making, WalletPoints
  <2>2. TxOK(new, tx[c])
    BY <1>0 DEF TxOK
  <2> QED BY <2>1, <2>2 DEF SerialOK
<1>5. SerialInv'
  BY <1>1, <1>2, <1>3, <1>4, OthersRest
<1>6. \A b \in Calls : b # c => Request(call[b], tx[b])' = Request(call[b], tx[b])
  BY <1>1
<1>7. Stage(call[c], tx[c])' = how
  BY <1>2 DEF Stage, Finished
<1>8. balance' = balance
  BY DEF Rest, chainVars
<1>9. CASE how = "threw"
  <2>1. Stage(call[c], tx[c]) = "open"
    BY <1>9 DEF Stage, Active
  <2>2. Contract!Stage(c, "open", "threw")
    BY <1>2, <1>6, <1>7, <1>9, <2>1, Seen
  <2> QED BY <1>5, <1>8, <2>2 DEF ContractStep, Contract!Next, Contract!Throw
<1>10. CASE how = "returned"
  <2>1. Stage(call[c], tx[c]) = "applied"
    BY <1>10 DEF Stage, Active
  <2>2. Contract!Stage(c, "applied", "returned")
    BY <1>2, <1>6, <1>7, <1>10, <2>1, Seen
  <2> QED BY <1>5, <1>8, <2>2 DEF ContractStep, Contract!Next, Contract!Return
<1> QED BY <1>0, <1>9, <1>10

-----------------------------------------------------------------------------
(* The app's calls.                                                        *)

\* The app's calls: where one runs, no other starts.
LEMMA SerialCalls ==
  ASSUME IInv, SerialInv, Careful(env), NEW c \in Calls, AppCalls(c), Rest
  PROVE  SerialInv' /\ ContractStep
<1>0. /\ TypeOK /\ call[c] \in CallState /\ UNCHANGED <<relayWorker, cuts, tx>>
      /\ tx[c] \in {"none", "pending", "executed"} /\ balance' = balance
  BY Facts DEF AppCalls, Rest, chainVars, SerialOK, TxOK
<1>1. /\ call[c].pc = "none" /\ \A b \in Calls : ~Active(b)
      /\ call[c].op = "none"
  BY Facts DEF AppCalls, ClaimRly, TransferExact, Transfer, RelayDetails, SimpleTransfer,
               CanStart, Careful, SerialOK, OpAt
<1>2. tx[c] = "none"
  BY <1>1, Facts
\* A call that starts by asking for the wallet.
<1>start. ASSUME NEW state \in CallState, NEW pc \in Points, Ask(c, state, pc),
                 \/ pc = "wallet" /\ state.op \in {"claimRly", "transferExact"}
                 \/ pc = "displayWallet" /\ state.op = "transfer"
                 \/ pc = "simpleWallet" /\ state.op = "simpleTransfer"
                 \/ /\ pc = "relayWallet" /\ state.op = "relay" /\ cuts[state.details] = 0
                    /\ \A b \in Calls : call[b].details # state.details
          PROVE  SerialInv' /\ ContractStep
  <2> DEFINE new == call'[c]
  <2>1. /\ new = [state EXCEPT !.pc = pc, !.at = "asked", !.val = Null]
        /\ \A b \in Calls : b # c => call'[b] = call[b]
    BY <1>0, <1>start, AskIs
  <2>2. /\ new.pc = pc /\ new.at = "asked" /\ new.op = state.op
        /\ new.details = state.details /\ new.amount = state.amount
    BY <2>1 DEF CallState
  <2>3. SerialOK(new, tx'[c], cuts', relayWorker')
    <3>1. OpAt(new) /\ CutOK(new, cuts) /\ ReadOK(new) /\ QuietOK(new, tx[c], relayWorker)
      BY <1>start, <2>2 DEF OpAt, CutOK, ReadOK, QuietOK, Late, Relaying, Making, Made,
                            Transferring
    <3>2. TxOK(new, tx[c])
      BY <1>2 DEF TxOK
    <3> QED BY <1>0, <3>1, <3>2 DEF SerialOK
  <2>4. SerialInv'
    <3>1. \A b \in Calls : b # c => call'[b] = call[b] /\ tx'[b] = tx[b] /\ ~Active(b)
      BY <1>0, <1>1, <2>1
    <3>2. \A d \in Details :
            cuts'[d] = cuts[d] \/ (call[c].op = "relay" /\ call[c].details = d)
      BY <1>0
    <3>3. /\ call[c].op # "relay"
          /\ call'[c].op = "relay" => \A b \in Calls : call[b].details # call'[c].details
      BY <1>1, <1>start, <2>2
    <3> QED BY <2>3, <3>1, <3>2, <3>3, OthersRest
  <2>5. \A b \in Calls : b # c => Request(call[b], tx[b])' = Request(call[b], tx[b])
    BY <1>0, <2>1
  <2>6. Contract!Call(c)
    <3> DEFINE req == [b \in Calls |-> Request(call[b], tx[b])]
               r == Request(call[c], tx[c])'
    <3>1. req[c].stage = "none"
      BY <1>1 DEF Request, Stage
    <3>2. pc \notin Finished \cup {"none"}
      BY DEF Points, WalletPoints, NodePoints, ServerPoints, Finished
    <3>3. r.stage = "open"
      BY <1>0, <1>2, <2>2, <3>2 DEF Request, Stage
    <3>4. req' = [req EXCEPT ![c] = r]
      <4> DEFINE next == [req EXCEPT ![c] = r]
      <4>1. ASSUME NEW b \in Calls PROVE Request(call[b], tx[b])' = next[b]
        BY <2>5
      <4> HIDE DEF r
      <4> QED BY <4>1
    <3>5. req'[c] = r
      OBVIOUS
    <3> QED BY <1>0, <3>1, <3>3, <3>4, <3>5 DEF Contract!Call
  <2> QED BY <2>4, <2>6 DEF ContractStep, Contract!Next
<1>state. call[c] \in CallState
  BY <1>0
<1>3. CASE ClaimRly(c)
  <2> DEFINE state == Started(c, "claimRly")
  <2>1. state \in CallState /\ state.op = "claimRly"
    BY <1>state DEF Started, CallState, Operations
  <2>2. Ask(c, state, "wallet") /\ "wallet" \in Points
    BY <1>3 DEF ClaimRly, Points, WalletPoints
  <2> HIDE DEF state
  <2> QED BY <2>1, <2>2, <1>start
<1>4. CASE TransferExact(c)
  <2>1. PICK amount \in Amounts, method \in Methods :
          Ask(c, [Started(c, "transferExact") EXCEPT !.amount = amount, !.method = method],
              "wallet")
    BY <1>4 DEF TransferExact
  <2> DEFINE state == [Started(c, "transferExact") EXCEPT !.amount = amount,
                                                          !.method = method]
  <2>2. state \in CallState /\ state.op = "transferExact"
    <3>1. "transferExact" \in Operations
      BY DEF Operations
    <3>2. state = Sized(Started(c, "transferExact"), amount, method)
      BY DEF Sized
    <3> HIDE DEF state
    <3> QED BY <1>state, <3>1, <3>2, StartedIs
  <2>3. Ask(c, state, "wallet") /\ "wallet" \in Points
    BY <2>1 DEF Points, WalletPoints
  <2> HIDE DEF state
  <2> QED BY <2>2, <2>3, <1>start
<1>5. CASE Transfer(c)
  <2>1. PICK amount \in Amounts, method \in Methods :
          Ask(c, [Started(c, "transfer") EXCEPT !.amount = amount, !.method = method],
              "displayWallet")
    BY <1>5 DEF Transfer
  <2> DEFINE state == [Started(c, "transfer") EXCEPT !.amount = amount, !.method = method]
  <2>2. state \in CallState /\ state.op = "transfer"
    <3>1. "transfer" \in Operations
      BY DEF Operations
    <3>2. state = Sized(Started(c, "transfer"), amount, method)
      BY DEF Sized
    <3> HIDE DEF state
    <3> QED BY <1>state, <3>1, <3>2, StartedIs
  <2>3. Ask(c, state, "displayWallet") /\ "displayWallet" \in Points
    BY <2>1 DEF Points, WalletPoints
  <2> HIDE DEF state
  <2> QED BY <2>2, <2>3, <1>start
\* Details that no call has used have not been lowered.
<1>6. CASE RelayDetails(c)
  <2>1. PICK d \in Details :
          /\ \A b \in Calls : call[b].details # d
          /\ Ask(c, [Started(c, "relay") EXCEPT !.details = d, !.from = From[d]], "relayWallet")
    BY <1>6 DEF RelayDetails, Careful
  <2> DEFINE state == [Started(c, "relay") EXCEPT !.details = d, !.from = From[d]]
  <2>2. From[d] \in Accounts
    BY ConstantsAssumption
  <2>3. state \in CallState /\ state.op = "relay" /\ state.details = d
    <3>1. Started(c, "relay") \in CallState /\ Started(c, "relay").op = "relay"
      BY <1>state DEF Started, CallState, Operations
    <3>2. state = Detailed(Started(c, "relay"), d)
      BY DEF Detailed
    <3> HIDE DEF state
    <3> QED BY <2>2, <3>1, <3>2, DetailedIs
  <2>4. Ask(c, state, "relayWallet") /\ "relayWallet" \in Points
    BY <2>1 DEF Points, WalletPoints
  <2>5. cuts[d] = 0
    BY <2>1 DEF SerialInv, DetailsOK
  <2> HIDE DEF state
  <2> QED BY <2>1, <2>3, <2>4, <2>5, <1>start
<1>7. CASE SimpleTransfer(c)
  <2> DEFINE state == Started(c, "simpleTransfer")
  <2>1. state \in CallState /\ state.op = "simpleTransfer"
    BY <1>state DEF Started, CallState, Operations
  <2>2. Ask(c, state, "simpleWallet") /\ "simpleWallet" \in Points
    BY <1>7 DEF SimpleTransfer, Points, WalletPoints
  <2> HIDE DEF state
  <2> QED BY <2>1, <2>2, <1>start
<1> QED BY <1>3, <1>4, <1>5, <1>6, <1>7 DEF AppCalls

-----------------------------------------------------------------------------
(* Answers reach the methods.                                              *)

\* The code between two awaits: each answer goes where the next point needs it.
LEMMA SerialContinuations ==
  ASSUME IInv, SerialInv, Careful(env), NEW c \in Calls, Continuations(c), Rest
  PROVE  SerialInv' /\ ContractStep
<1> USE DEF Answered, WalletFound
<1> DEFINE s == call[c]
<1>0. /\ TypeOK /\ s \in CallState /\ tx' = tx
      /\ AnswerOK(s, tx[c], past) /\ FieldsOK(s, past)
      /\ CheckOK(s, wallet, env.faults) /\ PostedOK(s, tx[c], env.faults)
      /\ {"reply", "poll"} \cap env.faults = {} /\ "return" \notin env.faults
      /\ s.amount \in Nat
  BY Facts DEF Continuations
<1>ok. OpAt(s) /\ TxOK(s, tx[c]) /\ CutOK(s, cuts) /\ (tx[c] # "executed" => ReadOK(s))
       /\ (env.faults = {} => QuietOK(s, tx[c], relayWorker))
  BY Facts DEF SerialOK
<1>none. tx[c] # "none" => s.pc \in {"post", "receipt", "returned"} /\ s.at # "failed"
  BY <1>0, Facts DEF PostedOK
<1>points. Points = {"displayWallet", "displayCheck", "simpleWallet", "wallet", "check",
                     "relayWallet", "displayBalance", "decimals", "send", "balance",
                     "tokenNonce", "altNonce", "estimate", "nonce", "workerNonce",
                     "receipt", "config", "post"}
  BY DEF Points, WalletPoints, NodePoints, ServerPoints
<1>wallets. WalletPoints = {"displayWallet", "displayCheck", "simpleWallet", "wallet", "check",
                            "relayWallet"}
  BY DEF WalletPoints
\* A call that throws.
<1>throw. ASSUME Throw(c), UNCHANGED <<relayWorker, cuts>>, Active(c),
                 s.pc \notin {"post", "receipt"} \/ s.at = "failed"
          PROVE  SerialInv' /\ ContractStep
  <2>1. Finish(c, "threw") /\ "threw" \in Finished /\ tx[c] = "none"
    BY <1>throw, <1>none DEF Throw, Finished, Active
  <2> QED BY <1>0, <1>throw, <2>1, Ends
\* A call that goes on to pc without a change of its state.
<1>ask. ASSUME NEW pc \in Points, Active(c), Ask(c, s, pc), UNCHANGED <<relayWorker, cuts>>,
               \A new : IsAsked(new, s, pc) => SerialOK(new, tx[c], cuts, relayWorker)
        PROVE  SerialInv' /\ ContractStep
  BY <1>0, <1>ask, GoesOn
<1> USE DEF Late, Relaying, Making, Made, Transferring
<1>1. CASE RequestFailed(c)
  <2>0. Active(c) /\ s.at = "failed" /\ UNCHANGED <<relayWorker, cuts>>
    BY <1>1 DEF RequestFailed
  <2>1. CASE s.pc = "tokenNonce" /\ Ask(c, s, "altNonce")
    <3>1. ASSUME NEW new, IsAsked(new, s, "altNonce")
          PROVE  SerialOK(new, tx[c], cuts, relayWorker)
      BY <1>ok, <1>none, <2>1, <3>1
      DEF IsAsked, SerialOK, OpAt, TxOK, CutOK, ReadOK, QuietOK
    <3> QED BY <1>ask, <1>points, <2>0, <2>1, <3>1
  <2>2. CASE Throw(c)
    BY <1>throw, <2>0, <2>2
  <2> QED BY <1>1, <2>1, <2>2 DEF RequestFailed
<1>2. CASE WalletMissing(c)
  BY <1>2, <1>throw, <1>wallets DEF WalletMissing, Active, Finished
<1>3. CASE WalletFetched(c)
  <2> DEFINE state == [s EXCEPT !.from = s.val]
  <2>1. /\ s.pc = "wallet" /\ s.at = "answered" /\ s.val # Null /\ Ask(c, state, "check")
        /\ UNCHANGED <<relayWorker, cuts>> /\ Active(c)
    BY <1>3 DEF WalletFetched, Active, Finished
  <2>2. s.val \in Accounts
    BY <1>0, <1>wallets, <2>1 DEF AnswerOK, TypeOK
  <2>3. /\ state \in CallState /\ state.from = s.val /\ state.op = s.op
        /\ state.details = s.details /\ state.amount = s.amount
    BY <1>0, <2>2 DEF CallState
  <2> HIDE DEF state
  <2>4. ASSUME NEW new, IsAsked(new, state, "check")
        PROVE  SerialOK(new, tx[c], cuts', relayWorker')
    BY <1>ok, <1>none, <1>wallets, <2>1, <2>3, <2>4
    DEF IsAsked, SerialOK, OpAt, TxOK, CutOK, ReadOK, QuietOK
  <2> QED BY <1>0, <1>points, <2>1, <2>3, <2>4, GoesOn
<1>4. CASE BalanceAsked(c)
  <2> DEFINE state == [s EXCEPT !.checked = s.val]
             pc == IF s.pc = "check" THEN "balance" ELSE "displayBalance"
  <2>1. /\ s.pc \in {"check", "displayCheck"} /\ s.at = "answered" /\ s.val # Null
        /\ Ask(c, state, pc) /\ UNCHANGED <<relayWorker, cuts>> /\ Active(c)
    BY <1>4 DEF BalanceAsked, Active, Finished
  <2>2. s.val \in Accounts
    BY <1>0, <1>wallets, <2>1 DEF AnswerOK, TypeOK
  <2>3. /\ state \in CallState /\ state.checked = s.val /\ state.op = s.op
        /\ state.details = s.details /\ state.amount = s.amount /\ state.from = s.from
    BY <1>0, <2>2 DEF CallState
  <2> HIDE DEF state
  <2>4. ASSUME NEW new, IsAsked(new, state, pc)
        PROVE  SerialOK(new, tx[c], cuts', relayWorker')
    BY <1>ok, <1>none, <1>wallets, <2>1, <2>3, <2>4
    DEF IsAsked, SerialOK, OpAt, TxOK, CutOK, ReadOK, QuietOK
  <2> QED BY <1>0, <1>points, <2>1, <2>3, <2>4, GoesOn
<1>5. CASE DisplayBalanceChecked(c)
  <2>0. UNCHANGED <<relayWorker, cuts>>
    BY <1>5 DEF DisplayBalanceChecked
  \* A call of transfer that goes on.
  <2>ask. ASSUME NEW from, NEW to, from \in {"displayWallet", "displayBalance", "decimals"},
                 to \in {"displayCheck", "decimals", "wallet"}, s.pc = from, Ask(c, s, to)
          PROVE  SerialInv' /\ ContractStep
    <3>1. Active(c) /\ to \in Points
      BY <1>points, <2>ask DEF Active, Finished
    <3>2. ASSUME NEW new, IsAsked(new, s, to)
          PROVE  SerialOK(new, tx[c], cuts, relayWorker)
      BY <1>ok, <1>none, <1>wallets, <2>ask, <3>2
      DEF IsAsked, SerialOK, OpAt, TxOK, CutOK, ReadOK, QuietOK
    <3> QED BY <1>ask, <2>0, <2>ask, <3>1, <3>2
  <2>1. CASE s.pc = "displayWallet" /\ Ask(c, s, "displayCheck")
    BY <2>ask, <2>1
  <2>2. CASE s.pc = "displayBalance" /\ Throw(c)
    BY <1>throw, <2>0, <2>2 DEF Active, Finished
  <2>3. CASE s.pc = "displayBalance" /\ Ask(c, s, "decimals")
    BY <2>ask, <2>3
  <2>4. CASE s.pc = "decimals" /\ Ask(c, s, "wallet")
    BY <2>ask, <2>4
  <2> QED BY <1>5, <2>1, <2>2, <2>3, <2>4 DEF DisplayBalanceChecked
\* What the balance is found to cover it still covers when the token is called.
<1>6. CASE BalanceRead(c)
  <2>0. /\ s.pc = "balance" /\ s.at = "answered" /\ UNCHANGED <<relayWorker, cuts>>
        /\ Active(c)
    BY <1>6 DEF BalanceRead, Active, Finished
  <2>1. s.val \in Nat /\ s.val = balance[s.checked]
    BY <1>0, <1>ok, <1>none, <2>0 DEF AnswerOK, Counting, ReadOK
  <2>2. CASE Throw(c)
    BY <1>throw, <2>0, <2>2
  <2>3. CASE s.op = "claimRly" /\ ~(s.val > 0) /\ Ask(c, s, "estimate")
    <3>1. ASSUME NEW new, IsAsked(new, s, "estimate")
          PROVE  SerialOK(new, tx[c], cuts, relayWorker)
      <4>1. balance[s.checked] = 0
        BY <2>1, <2>3
      <4> QED BY <1>ok, <1>none, <2>0, <2>3, <3>1, <4>1
              DEF IsAsked, SerialOK, OpAt, TxOK, CutOK, ReadOK, QuietOK
    <3> QED BY <1>ask, <1>points, <2>0, <2>3, <3>1
  <2>4. CASE s.op # "claimRly" /\ ~Insufficient(c) /\ Ask(c, s, "tokenNonce")
    <3>1. ASSUME NEW new, IsAsked(new, s, "tokenNonce")
          PROVE  SerialOK(new, tx[c], cuts, relayWorker)
      <4>1. s.amount <= balance[s.checked]
        BY <1>0, <2>1, <2>4 DEF Insufficient
      <4> QED BY <1>ok, <1>none, <2>0, <2>4, <3>1, <4>1
              DEF IsAsked, SerialOK, OpAt, TxOK, CutOK, ReadOK, QuietOK
    <3> QED BY <1>ask, <1>points, <2>0, <2>4, <3>1
  <2> QED BY <1>6, <2>2, <2>3, <2>4 DEF BalanceRead
<1>7. CASE TokenNonceRead(c)
  <2> DEFINE state == [s EXCEPT !.permit = s.val]
  <2>1. /\ s.pc \in {"tokenNonce", "altNonce"} /\ s.at = "answered" /\ Active(c)
        /\ Ask(c, state, "estimate") /\ UNCHANGED <<relayWorker, cuts>>
    BY <1>7 DEF TokenNonceRead, Active, Finished
  <2>2. s.val \in Nat
    BY <1>0, <2>1 DEF AnswerOK, Counting
  <2>3. /\ state \in CallState /\ state.op = s.op /\ state.details = s.details
        /\ state.from = s.from /\ state.checked = s.checked /\ state.amount = s.amount
        /\ state.permit = s.val
    BY <1>0, <2>2 DEF CallState
  <2> HIDE DEF state
  <2>4. ASSUME NEW new, IsAsked(new, state, "estimate")
        PROVE  SerialOK(new, tx[c], cuts', relayWorker')
    BY <1>ok, <1>none, <1>wallets, <2>1, <2>3, <2>4
    DEF IsAsked, SerialOK, OpAt, TxOK, CutOK, ReadOK, QuietOK
  <2> QED BY <1>0, <1>points, <2>1, <2>3, <2>4, GoesOn
<1>8. CASE TransactionMade(c)
  <2>1. /\ s.pc = "estimate" /\ Ask(c, s, "relayWallet") /\ UNCHANGED <<relayWorker, cuts>>
        /\ Active(c)
    BY <1>8 DEF TransactionMade, Active, Finished
  <2>2. ASSUME NEW new, IsAsked(new, s, "relayWallet")
        PROVE  SerialOK(new, tx[c], cuts, relayWorker)
    BY <1>ok, <1>none, <2>1, <2>2
    DEF IsAsked, SerialOK, OpAt, TxOK, CutOK, ReadOK, QuietOK
  <2> QED BY <1>ask, <1>points, <2>1, <2>2
<1>9. CASE RelayWalletFetched(c)
  <2> DEFINE state == [s EXCEPT !.signer = s.val]
  <2>1. /\ s.pc = "relayWallet" /\ s.at = "answered" /\ s.val # Null /\ Active(c)
        /\ Ask(c, state, "config") /\ UNCHANGED <<relayWorker, cuts>>
    BY <1>9 DEF RelayWalletFetched, Active, Finished
  <2>2. s.val \in Accounts
    BY <1>0, <1>wallets, <2>1 DEF AnswerOK, TypeOK
  <2>3. /\ state \in CallState /\ state.signer = s.val /\ state.op = s.op
        /\ state.details = s.details /\ state.from = s.from /\ state.checked = s.checked
        /\ state.amount = s.amount /\ state.permit = s.permit
    BY <1>0, <2>2 DEF CallState
  <2> HIDE DEF state
  <2>4. ASSUME NEW new, IsAsked(new, state, "config")
        PROVE  SerialOK(new, tx[c], cuts', relayWorker')
    BY <1>ok, <1>none, <1>wallets, <2>1, <2>3, <2>4
    DEF IsAsked, SerialOK, OpAt, TxOK, CutOK, ReadOK, QuietOK
  <2> QED BY <1>0, <1>points, <2>1, <2>3, <2>4, GoesOn
\* The one cut of the details' gas.
<1>10. CASE ConfigUpdated(c)
  <2>1. /\ s.pc = "config" /\ s.at = "answered" /\ Ask(c, s, "nonce") /\ Active(c)
        /\ relayWorker' = s.val
        /\ cuts' = IF s.op = "relay" THEN [cuts EXCEPT ![s.details] = @ + 1] ELSE cuts
    BY <1>10 DEF ConfigUpdated, Active, Finished
  <2>2. s.op = "relay" => s.details \in Details
    BY <1>0 DEF FieldsOK
  <2>3. \A d \in Details : cuts'[d] = cuts[d] \/ (s.op = "relay" /\ s.details = d)
    BY <1>0, <2>1, <2>2 DEF TypeOK
  <2>4. s.op = "relay" => cuts'[s.details] = 1
    BY <1>0, <1>ok, <2>1, <2>2 DEF TypeOK, CutOK
  <2>5. ASSUME NEW new, IsAsked(new, s, "nonce")
        PROVE  SerialOK(new, tx[c], cuts', relayWorker')
    BY <1>ok, <1>none, <2>1, <2>4, <2>5
    DEF IsAsked, SerialOK, OpAt, TxOK, CutOK, ReadOK, QuietOK
  <2> QED BY <1>0, <1>points, <2>1, <2>3, <2>5, GoesOn
<1>11. CASE RequestBuilt(c)
  <2> DEFINE cut == IF s.op = "relay" THEN cuts[s.details] ELSE 1
             state == [s EXCEPT !.nonce = s.val, !.worker = relayWorker, !.cut = cut]
  <2>1. /\ s.pc = "nonce" /\ s.at = "answered" /\ Ask(c, state, "workerNonce")
        /\ UNCHANGED <<relayWorker, cuts>> /\ Active(c)
    BY <1>11 DEF RequestBuilt, Active, Finished
  <2>2. s.val \in Nat /\ cut \in Nat /\ relayWorker \in Workers
    BY <1>0, <2>1 DEF AnswerOK, Counting, FieldsOK, TypeOK
  <2>3. cut <= 1
    BY <1>ok DEF CutOK
  <2> HIDE DEF cut
  <2>4. /\ state \in CallState /\ state.op = s.op /\ state.details = s.details
        /\ state.from = s.from /\ state.checked = s.checked /\ state.signer = s.signer
        /\ state.amount = s.amount /\ state.permit = s.permit /\ state.nonce = s.val
        /\ state.worker = relayWorker /\ state.cut = cut
    <3>1. state = Built(s, s.val, relayWorker, cut)
      BY DEF Built
    <3>2. s \in CallState
      BY <1>0
    <3> HIDE DEF state, s
    <3> QED BY <2>2, <3>1, <3>2, BuiltIs
  <2> HIDE DEF state
  <2>5. ASSUME NEW new, IsAsked(new, state, "workerNonce")
        PROVE  SerialOK(new, tx[c], cuts', relayWorker')
    BY <1>ok, <1>none, <2>1, <2>3, <2>4, <2>5
    DEF IsAsked, SerialOK, OpAt, TxOK, CutOK, ReadOK, QuietOK
  <2> QED BY <1>0, <1>points, <2>1, <2>4, <2>5, GoesOn
<1>12. CASE RequestPosted(c)
  <2>1. /\ s.pc = "workerNonce" /\ Ask(c, s, "post") /\ UNCHANGED <<relayWorker, cuts>>
        /\ Active(c)
    BY <1>12 DEF RequestPosted, Active, Finished
  <2>2. ASSUME NEW new, IsAsked(new, s, "post")
        PROVE  SerialOK(new, tx[c], cuts, relayWorker)
    BY <1>ok, <1>none, <2>1, <2>2
    DEF IsAsked, SerialOK, OpAt, TxOK, CutOK, ReadOK, QuietOK
  <2> QED BY <1>ask, <1>points, <2>1, <2>2
\* Once the server has answered, the receipt is awaited.
<1>poll. ASSUME s.pc \in {"post", "receipt"}, Ask(c, s, "receipt"),
                UNCHANGED <<relayWorker, cuts>>
         PROVE  SerialInv' /\ ContractStep
  <2>1. Active(c)
    BY <1>poll DEF Active, Finished
  <2>2. ASSUME NEW new, IsAsked(new, s, "receipt")
        PROVE  SerialOK(new, tx[c], cuts, relayWorker)
    BY <1>ok, <1>poll, <2>2
    DEF IsAsked, SerialOK, OpAt, TxOK, CutOK, ReadOK, QuietOK
  <2> QED BY <1>ask, <1>points, <1>poll, <2>1, <2>2
<1>13. CASE ResponseReceived(c)
  BY <1>13, <1>poll DEF ResponseReceived
<1>14. CASE ReceiptRead(c)
  <2>1. CASE s.val # Null /\ Finish(c, "returned")
    <3>1. tx[c] = "executed" /\ UNCHANGED <<relayWorker, cuts>> /\ Active(c)
      BY <1>0, <1>ok, <1>14, <2>1 DEF ReceiptRead, AnswerOK, TxOK, Active, Finished
    <3> QED BY <1>0, <2>1, <3>1, Ends DEF Finished
  <2>2. CASE Ask(c, s, "receipt")
    BY <1>14, <1>poll, <2>2 DEF ReceiptRead
  <2> QED BY <1>14, <2>1, <2>2 DEF ReceiptRead
<1>15. CASE SimpleTransferSent(c)
  <2>1. /\ s.pc = "simpleWallet" /\ Ask(c, s, "send") /\ UNCHANGED <<relayWorker, cuts>>
        /\ Active(c)
    BY <1>15 DEF SimpleTransferSent, Active, Finished
  <2>2. ASSUME NEW new, IsAsked(new, s, "send")
        PROVE  SerialOK(new, tx[c], cuts, relayWorker)
    BY <1>ok, <1>none, <2>1, <2>2
    DEF IsAsked, SerialOK, OpAt, TxOK, CutOK, ReadOK, QuietOK
  <2> QED BY <1>ask, <1>points, <2>1, <2>2
<1> QED BY <1>1, <1>2, <1>3, <1>4, <1>5, <1>6, <1>7, <1>8, <1>9, <1>10, <1>11, <1>12,
           <1>13, <1>14, <1>15 DEF Continuations

-----------------------------------------------------------------------------
(* The wallet, the node and the server answer.                             *)

\* A call that has been answered, or whose request has failed.
IsTold(new, s, at) ==
  /\ new.at = at
  /\ new.pc = s.pc /\ new.op = s.op /\ new.amount = s.amount /\ new.details = s.details
  /\ new.from = s.from /\ new.checked = s.checked /\ new.permit = s.permit
  /\ new.signer = s.signer /\ new.nonce = s.nonce /\ new.worker = s.worker
  /\ new.cut = s.cut

\* The call that runs is told something: the contract sees nothing.
LEMMA IsToldOf ==
  ASSUME IInv, SerialInv, Careful(env), NEW c \in Calls, Active(c), Rest,
         UNCHANGED <<relayWorker, cuts>>,
         \/ tx' = tx
         \/ tx[c] = "none" /\ tx' = [tx EXCEPT ![c] = "pending"],
         \A b \in Calls : b # c => call'[b] = call[b],
         NEW at, IsTold(call'[c], call[c], at),
         SerialOK(call'[c], tx'[c], cuts, relayWorker)
  PROVE  SerialInv' /\ ContractStep
<1> DEFINE new == call'[c]
<1>1. tx \in [Calls -> {"none", "pending", "executed", "reverted", "dropped"}]
  BY DEF IInv, TypeOK
<1>2. \A b \in Calls : b # c => call'[b] = call[b] /\ tx'[b] = tx[b] /\ ~Active(b)
  BY <1>1 DEF SerialInv, Alone
<1>3. SerialInv'
  <2>1. \A d \in Details :
          cuts'[d] = cuts[d] \/ (call[c].op = "relay" /\ call[c].details = d)
    OBVIOUS
  <2>2. call'[c].op = call[c].op /\ call'[c].details = call[c].details
    BY DEF IsTold
  <2>3. SerialOK(call'[c], tx'[c], cuts', relayWorker')
    OBVIOUS
  <2> QED BY <1>2, <2>1, <2>2, <2>3, OthersRest
<1>4. tx'[c] = "executed" <=> tx[c] = "executed"
  BY <1>1
<1>5. ASSUME NEW b \in Calls
      PROVE  Request(call[b], tx[b])' = Request(call[b], tx[b])
  <2>1. CASE b # c
    BY <1>2, <2>1
  <2>2. CASE b = c
    BY <1>4, <2>2 DEF IsTold, Request, Stage
  <2> QED BY <2>1, <2>2
<1>6. balance' = balance
  BY DEF Rest, chainVars
<1> QED BY <1>3, <1>5, <1>6, Unseen

\* The answers: what is read of the chain is what the chain holds.
LEMMA SerialAnswers ==
  ASSUME IInv, SerialInv, Careful(env), NEW c \in Calls, Answers(c), Rest
  PROVE  SerialInv' /\ ContractStep
<1> USE DEF Asked
<1> DEFINE s == call[c]
<1>0. /\ TypeOK /\ s \in CallState /\ UNCHANGED <<relayWorker, cuts>>
      /\ AnswerOK(s, tx[c], past) /\ FieldsOK(s, past)
      /\ CheckOK(s, wallet, env.faults) /\ PostedOK(s, tx[c], env.faults)
      /\ {"reply", "poll"} \cap env.faults = {} /\ "return" \notin env.faults
      /\ wallet \in Accounts \cup {Null} /\ serverWorker \in Workers
  BY Facts DEF Answers, TypeOK
<1>ok. OpAt(s) /\ TxOK(s, tx[c]) /\ CutOK(s, cuts) /\ (tx[c] # "executed" => ReadOK(s))
       /\ (env.faults = {} => QuietOK(s, tx[c], relayWorker))
  BY Facts DEF SerialOK
<1>none. s.at = "asked" /\ s.pc # "receipt" /\ s.pc \in Points => tx[c] = "none"
  BY <1>0, Facts DEF PostedOK, Points, WalletPoints, NodePoints, ServerPoints
<1>points. Points = {"displayWallet", "displayCheck", "simpleWallet", "wallet", "check",
                     "relayWallet", "displayBalance", "decimals", "send", "balance",
                     "tokenNonce", "altNonce", "estimate", "nonce", "workerNonce",
                     "receipt", "config", "post"}
  BY DEF Points, WalletPoints, NodePoints, ServerPoints
<1>active. s.pc \in Points => Active(c)
  BY <1>points DEF Active, Finished
\* An answer.
<1>answer. ASSUME NEW val \in Accounts \cup {Null} \cup Workers \cup Nat, Answer(c, val),
                  tx' = tx, s.pc \in Points, s.at = "asked",
                  s.pc \in WalletPoints => val = wallet,
                  s.pc = "balance" => val = balance[s.checked],
                  s.pc \in {"tokenNonce", "altNonce"} => val = tokenNonce[s.from],
                  s.pc = "nonce" => val = forwarderNonce[s.signer],
                  s.pc = "config" => val = serverWorker
           PROVE  SerialInv' /\ ContractStep
  <2> DEFINE new == call'[c]
  <2>1. /\ new = [s EXCEPT !.at = "answered", !.val = val]
        /\ \A b \in Calls : b # c => call'[b] = call[b]
    BY <1>0, <1>answer, AnswerIs
  <2>2. IsTold(new, s, "answered") /\ new.val = val
    BY <1>0, <2>1 DEF IsTold, CallState
  <2> HIDE DEF new
  <2>3. SerialOK(new, tx[c], cuts, relayWorker)
    BY <1>ok, <1>answer, <2>2
    DEF IsTold, SerialOK, OpAt, TxOK, CutOK, ReadOK, QuietOK, Late, Relaying
  <2> QED BY <1>0, <1>active, <1>answer, <2>1, <2>2, <2>3, IsToldOf DEF new
\* A failure.
<1>fail. ASSUME Fail(c), tx' = tx, s.pc \in Points, s.at = "asked",
                s.pc = "post" /\ s.op # "relay" => env.faults # {}
         PROVE  SerialInv' /\ ContractStep
  <2> DEFINE new == call'[c]
  <2>1. /\ new = [s EXCEPT !.at = "failed"]
        /\ \A b \in Calls : b # c => call'[b] = call[b]
    BY <1>0, <1>fail, FailIs
  <2>2. IsTold(new, s, "failed")
    BY <1>0, <2>1 DEF IsTold, CallState
  <2> HIDE DEF new
  <2>3. SerialOK(new, tx[c], cuts, relayWorker)
    BY <1>ok, <1>fail, <2>2
    DEF IsTold, SerialOK, OpAt, TxOK, CutOK, ReadOK, QuietOK, Late, Relaying
  <2> QED BY <1>0, <1>active, <1>fail, <2>1, <2>2, <2>3, IsToldOf DEF new
<1>1. CASE WalletAnswers(c)
  <2>1. s.pc \in WalletPoints /\ s.at = "asked" /\ Answer(c, wallet) /\ tx' = tx
    BY <1>1 DEF WalletAnswers
  <2>2. s.pc \in Points
    BY <2>1 DEF Points
  <2>3. s.pc \notin {"balance", "tokenNonce", "altNonce", "nonce", "config"}
    BY <2>1 DEF WalletPoints
  <2> QED BY <1>0, <1>answer, <2>1, <2>2, <2>3
<1>2. CASE RequestFails(c)
  <2>1. s.pc \in Points \ {"post"} /\ s.at = "asked" /\ Fail(c) /\ tx' = tx
    BY <1>0, <1>2, <1>points DEF RequestFails
  <2> QED BY <1>fail, <2>1
<1>3. CASE NodeAnswers(c)
  <2>0. s.at = "asked" /\ tx' = tx /\ s.pc \in NodePoints
    BY <1>3 DEF NodeAnswers, NodePoints
  <2>1. s.pc \in Points /\ s.pc \notin WalletPoints \cup {"config", "post"}
    BY <2>0 DEF Points, NodePoints, WalletPoints
  <2>2. CASE s.pc \in {"balance", "displayBalance"} /\ Answer(c, balance[s.checked])
    <3>1. balance[s.checked] \in Nat
      BY <1>0, <2>2 DEF TypeOK, FieldsOK
    <3> QED BY <1>answer, <2>0, <2>1, <2>2, <3>1
  <2>3. CASE s.pc \in {"tokenNonce", "altNonce"} /\ Answer(c, tokenNonce[s.from])
    <3>1. tokenNonce[s.from] \in Nat
      BY <1>0, <2>3 DEF TypeOK, FieldsOK, Making
    <3> QED BY <1>answer, <2>0, <2>1, <2>3, <3>1
  <2>4. CASE s.pc = "nonce" /\ Answer(c, forwarderNonce[s.signer])
    <3>1. forwarderNonce[s.signer] \in Nat
      BY <1>0, <2>4 DEF TypeOK, FieldsOK, Relaying
    <3> QED BY <1>answer, <2>0, <2>1, <2>4, <3>1
  <2>5. CASE s.pc \in {"decimals", "estimate", "workerNonce"} /\ Answer(c, Null)
    BY <1>answer, <2>0, <2>1, <2>5
  <2>6. CASE s.pc = "receipt" /\ Answer(c, Receipt(c))
    <3>1. Receipt(c) \in Nat \cup {Null}
      BY DEF Receipt, Mined
    <3> QED BY <1>answer, <2>0, <2>1, <2>6, <3>1
  <2>7. CASE s.pc = "send" /\ Fail(c)
    BY <1>fail, <2>0, <2>1, <2>7
  <2> QED BY <1>3, <2>2, <2>3, <2>4, <2>5, <2>6, <2>7 DEF NodeAnswers
<1>4. CASE ServerAnswersConfig(c)
  <2>1. s.pc = "config" /\ s.at = "asked" /\ Answer(c, serverWorker) /\ tx' = tx
    BY <1>4 DEF ServerAnswersConfig
  <2>2. s.pc \in Points /\ s.pc \notin WalletPoints
    BY <2>1, <1>points DEF WalletPoints
  <2> QED BY <1>0, <1>answer, <2>1, <2>2
\* What the server accepts has the next nonce.
<1>5. CASE ServerAccepts(c)
  <2>1. /\ s.pc = "post" /\ s.at = "asked" /\ tx' = [tx EXCEPT ![c] = "pending"]
        /\ s.nonce = forwarderNonce[s.from] /\ Answer(c, Null)
    BY <1>0, <1>5 DEF ServerAccepts, Acceptable
  <2>2. s.pc \in Points /\ tx[c] = "none" /\ tx'[c] = "pending"
    <3>1. tx \in [Calls -> {"none", "pending", "executed", "reverted", "dropped"}]
      BY <1>0 DEF TypeOK
    <3> QED BY <1>none, <1>points, <2>1, <3>1
  <2> DEFINE new == call'[c]
  <2>3. /\ new = [s EXCEPT !.at = "answered", !.val = Null]
        /\ \A b \in Calls : b # c => call'[b] = call[b]
    BY <1>0, <2>1, AnswerIs
  <2>4. IsTold(new, s, "answered")
    BY <1>0, <2>3 DEF IsTold, CallState
  <2> HIDE DEF new
  <2>5. SerialOK(new, tx'[c], cuts, relayWorker)
    BY <1>ok, <2>1, <2>2, <2>4
    DEF IsTold, SerialOK, OpAt, TxOK, CutOK, ReadOK, QuietOK, Late, Relaying, WalletPoints, Making
  <2> QED BY <1>0, <1>active, <2>1, <2>2, <2>3, <2>4, <2>5, IsToldOf DEF new
\* Where nothing fails, it refuses nothing that was made for the wallet.
<1>6. CASE ServerRefuses(c)
  <2>1. /\ s.pc = "post" /\ s.at = "asked" /\ Fail(c) /\ tx' = tx
        /\ ~Acceptable(c) \/ {"reject", "reply"} \cap env.faults # {}
    BY <1>6 DEF ServerRefuses
  <2>2. tx[c] = "none" /\ s.pc \in Points
    BY <1>none, <1>points, <2>1
  <2>3. env.faults = {} /\ s.op # "relay" => Acceptable(c)
    BY <1>ok, <2>1, <2>2 DEF QuietOK, Relaying, Acceptable
  <2>4. s.op # "relay" => env.faults # {}
    BY <2>1, <2>3
  <2> QED BY <1>fail, <2>1, <2>2, <2>4
<1> QED BY <1>1, <1>2, <1>3, <1>4, <1>5, <1>6 DEF Answers

-----------------------------------------------------------------------------
(* The chain and the wallet.                                               *)

\* A transaction is executed: its call takes effect.
LEMMA SerialMine ==
  ASSUME IInv, SerialInv, Careful(env), NEW c \in Calls, Mine(c)
  PROVE  SerialInv' /\ ContractStep
<1> DEFINE s == call[c]
           a == s.from
<1>0. /\ TypeOK /\ s \in CallState /\ tx[c] = "pending"
      /\ UNCHANGED <<env, call, relayWorker, cuts, wallet, serverWorker>>
      /\ PostedOK(s, tx[c], env.faults) /\ "return" \notin env.faults
      /\ s.amount \in Nat /\ s.pc \in {"post", "receipt"}
  BY Facts DEF Mine, appVars, PostedOK
<1>ok. OpAt(s) /\ TxOK(s, tx[c]) /\ CutOK(s, cuts) /\ ReadOK(s)
  BY <1>0, Facts DEF SerialOK
<1>1. a \in Accounts /\ (s.op # "relay" => s.checked = a)
  BY <1>0 DEF PostedOK
<1>2. ~(s.pc = "post" /\ s.at = "asked") /\ Active(c)
  BY <1>0 DEF PostedOK, Active, Finished
<1>3. s.op \in Made \cup {"relay"}
  BY <1>ok, <1>0 DEF OpAt, Relaying
<1>4. Works(c)
  BY <1>ok, <1>0, <1>1 DEF Works, TxOK, ReadOK, Transfers, Transferring, Late, Relaying
<1>5. s.cut <= 1
  BY <1>ok, <1>0 DEF CutOK
<1>6. /\ balance' = [balance EXCEPT ![a] = Paid(c, TRUE)]
      /\ tx' = [tx EXCEPT ![c] = "executed"]
  BY <1>4, <1>5 DEF Mine
<1>7. tx \in [Calls -> {"none", "pending", "executed", "reverted", "dropped"}]
  BY <1>0 DEF TypeOK
<1>8. \A b \in Calls : b # c => ~Active(b) /\ tx'[b] = tx[b]
  BY <1>2, <1>6, <1>7 DEF SerialInv, Alone
<1>9. SerialInv'
  <2>1. Alone' /\ DetailsOK'
    BY <1>0 DEF SerialInv, Alone, Active, DetailsOK
  <2>2. ASSUME NEW b \in Calls
        PROVE  SerialOK(call[b], tx[b], cuts, relayWorker)'
    <3>0. SerialOK(call[b], tx[b], cuts, relayWorker)
      BY DEF SerialInv
    <3>1. CASE b = c
      <4>1. tx'[b] = "executed"
        BY <1>6, <1>7, <3>1
      <4>2. OpAt(call[b])' /\ CutOK(call[b], cuts)'
        BY <1>0, <3>0 DEF SerialOK, OpAt, CutOK
      <4>3. env.faults = {} => QuietOK(call[b], tx[b], relayWorker)'
        <5>1. env.faults = {} => QuietOK(s, tx[c], relayWorker)
          BY <3>0, <3>1 DEF SerialOK
        <5> QED BY <1>0, <3>1, <4>1, <5>1 DEF QuietOK
      <4> QED BY <1>0, <4>1, <4>2, <4>3 DEF SerialOK, TxOK
    <3>2. CASE b # c
      <4>1. call[b].pc \in Finished \cup {"none"} /\ tx'[b] = tx[b]
        BY <1>8, <3>2 DEF Active
      <4>2. tx[b] \in {"none", "executed"}
        <5>1. TxOK(call[b], tx[b])
          BY <3>0 DEF SerialOK
        <5>2. PostedOK(call[b], tx[b], env.faults) /\ {"reply", "poll"} \cap env.faults = {}
          BY Facts
        <5> QED BY <4>1, <5>1, <5>2 DEF PostedOK, TxOK, Finished
      <4>3. OpAt(call[b])' /\ CutOK(call[b], cuts)'
        BY <1>0, <3>0 DEF SerialOK, OpAt, CutOK
      <4>4. ReadOK(call[b])' /\ QuietOK(call[b], tx[b], relayWorker)'
        BY <1>0, <4>1
        DEF ReadOK, QuietOK, Finished, Late, Relaying, Making, WalletPoints
      <4> QED BY <4>1, <4>2, <4>3, <4>4 DEF SerialOK, TxOK
    <3> QED BY <3>1, <3>2
  <2> QED BY <2>1, <2>2 DEF SerialInv
<1>10. Contract!Stage(c, "open", "applied")
  <2>1. \A b \in Calls : b # c => Request(call[b], tx[b])' = Request(call[b], tx[b])
    BY <1>0, <1>8
  <2>2. Stage(call[c], tx[c]) = "open"
    BY <1>0, <1>2 DEF Stage, Active
  <2>3. Stage(call[c], tx[c])' = "applied"
    BY <1>0, <1>2, <1>6, <1>7 DEF Stage, Active
  <2> QED BY <1>0, <2>1, <2>2, <2>3, Seen
<1>11. /\ [b \in Calls |-> Request(call[b], tx[b])][c].op = s.op
       /\ [b \in Calls |-> Request(call[b], tx[b])][c].amount = s.amount
  BY DEF Request
<1>12. balance \in [Accounts -> Nat] /\ Dust \in Nat
  BY <1>0, ConstantsAssumption DEF TypeOK
<1>13. CASE s.op = "claimRly"
  <2>1. balance[a] = 0
    BY <1>0, <1>1, <1>ok, <1>13 DEF ReadOK, Late, Relaying
  <2>2. Paid(c, TRUE) = Dust
    BY <1>12, <1>13, <2>1 DEF Paid
  <2>3. Contract!Claim(c)
    BY <1>1, <1>6, <1>10, <1>11, <1>13, <2>1, <2>2 DEF Contract!Claim
  <2> QED BY <1>9, <2>3 DEF ContractStep, Contract!Next
<1>14. CASE s.op \in Transferring
  <2>1. s.amount <= balance[a]
    BY <1>0, <1>1, <1>ok, <1>14 DEF ReadOK, Late, Relaying, Transferring
  <2>2. Paid(c, TRUE) = balance[a] - s.amount
    BY <1>14 DEF Paid, Transfers, Transferring
  <2>3. Contract!Transfer(c)
    BY <1>1, <1>6, <1>10, <1>11, <1>12, <1>14, <2>1, <2>2 DEF Contract!Transfer, Transferring
  <2> QED BY <1>9, <2>3 DEF ContractStep, Contract!Next
<1>15. CASE s.op = "relay"
  <2>1. Paid(c, TRUE) = balance[a]
    BY <1>15 DEF Paid, Transfers
  <2>2. balance' = balance
    BY <1>6, <1>12, <2>1
  <2>3. Contract!Relay(c)
    BY <1>10, <1>11, <1>15, <2>2 DEF Contract!Relay
  <2> QED BY <1>9, <2>3 DEF ContractStep, Contract!Next
<1> QED BY <1>3, <1>13, <1>14, <1>15 DEF Made, Transferring

\* Another worker or another wallet: nothing that was read of the chain changes.
LEMMA SerialSwitch ==
  ASSUME SerialInv, env.faults # {},
         UNCHANGED <<env, appVars, chainVars, tx>>
  PROVE  SerialInv' /\ ContractStep
<1>1. UNCHANGED <<env, call, relayWorker, cuts, balance, forwarderNonce, tokenNonce, tx>>
  BY DEF appVars, chainVars
<1>2. Alone' /\ DetailsOK'
  BY <1>1 DEF SerialInv, Alone, Active, DetailsOK
<1>3. ASSUME NEW c \in Calls
      PROVE  SerialOK(call[c], tx[c], cuts, relayWorker)'
  BY <1>1 DEF SerialInv, SerialOK, OpAt, TxOK, CutOK, ReadOK
<1>4. ContractStep
  BY <1>1, Unseen
<1> QED BY <1>2, <1>3, <1>4 DEF SerialInv

\* Every step keeps the invariant of calls that the app awaits, and is one of the contract.
LEMMA SerialSteps ==
  ASSUME IInv, SerialInv, Careful(env), [Next]_vars
  PROVE  SerialInv' /\ ContractStep
<1>1. ASSUME NEW c \in Calls, CallSteps(c) PROVE SerialInv' /\ ContractStep
  <2>1. Rest
    BY <1>1 DEF CallSteps, Rest
  <2>2. CASE AppCalls(c)
    BY <2>1, <2>2, SerialCalls
  <2>3. CASE Continuations(c)
    BY <2>1, <2>3, SerialContinuations
  <2>4. CASE Answers(c)
    BY <2>1, <2>4, SerialAnswers
  <2> QED BY <1>1, <2>2, <2>3, <2>4 DEF CallSteps
<1>2. ASSUME NEW c \in Calls, Mine(c) PROVE SerialInv' /\ ContractStep
  BY <1>2, SerialMine
<1>3. ASSUME NEW c \in Calls, Drop(c) PROVE FALSE
  BY <1>3 DEF Drop, Careful
<1>4. CASE WorkerRotated
  BY <1>4, SerialSwitch DEF WorkerRotated
<1>5. CASE WalletReplaced
  BY <1>5, SerialSwitch DEF WalletReplaced
<1>6. CASE UNCHANGED vars
  <2>1. UNCHANGED <<env, call, relayWorker, cuts, wallet, serverWorker, balance,
                    forwarderNonce, tokenNonce, tx>>
    BY <1>6 DEF vars, appVars, chainVars
  <2>2. Alone' /\ DetailsOK'
    BY <2>1 DEF SerialInv, Alone, Active, DetailsOK
  <2>3. ASSUME NEW c \in Calls
        PROVE  SerialOK(call[c], tx[c], cuts, relayWorker)'
    BY <2>1 DEF SerialInv, SerialOK, OpAt, TxOK, CutOK, ReadOK, QuietOK
  <2>4. ContractStep
    BY <2>1, Unseen
  <2> QED BY <2>2, <2>3, <2>4 DEF SerialInv
<1> QED BY <1>1, <1>2, <1>3, <1>4, <1>5, <1>6 DEF Next

\* The states the installation starts in.
LEMMA SerialInitially ==
  ASSUME Init
  PROVE  SerialInv /\ Contract!Init
<1>1. \A c \in Calls : call[c].pc = "none" /\ call[c].op = "none" /\ tx[c] = "none"
  BY DEF Init
<1>2. \A d \in Details : cuts[d] = 0
  BY DEF Init
<1>3. Alone /\ DetailsOK
  BY <1>1, <1>2 DEF Alone, Active, DetailsOK
<1>4. ASSUME NEW c \in Calls
      PROVE  SerialOK(call[c], tx[c], cuts, relayWorker)
  BY <1>1 DEF SerialOK, OpAt, TxOK, CutOK, ReadOK, QuietOK, Late, Relaying, Making, WalletPoints
<1>5. balance \in [Accounts -> Nat]
  BY ConstantsAssumption DEF Init
<1>6. \A c \in Calls : [b \in Calls |-> Request(call[b], tx[b])][c].stage = "none"
  BY <1>1 DEF Request, Stage
<1> QED BY <1>3, <1>4, <1>5, <1>6 DEF SerialInv, Contract!Init

\* The invariant where the app is careful.
CarefulInv == IInv /\ (Careful(env) => SerialInv)

\* Every step keeps it.
LEMMA CarefulKept == CarefulInv /\ [Next]_vars => CarefulInv'
<1> SUFFICES ASSUME CarefulInv, [Next]_vars PROVE CarefulInv'
  OBVIOUS
<1>1. IInv'
  BY Preserved DEF CarefulInv
<1>2. env' = env
  BY DEF Next, CallSteps, Mine, Drop, WorkerRotated, WalletReplaced, vars
<1>3. Careful(env) => SerialInv'
  BY SerialSteps DEF CarefulInv
<1> QED BY <1>1, <1>2, <1>3 DEF CarefulInv

\* Where nothing fails and the wallet stays, and the app awaits each call, the server
\* refuses no request that claimRly, transfer or transferExact makes.
THEOREM NothingRefused == Spec => []NeverRefused
<1>1. Init => CarefulInv
  BY Initially, SerialInitially DEF CarefulInv
<1>2. CarefulInv => NeverRefused
  BY DEF CarefulInv, NeverRefused, Quiet, Careful, SerialInv, SerialOK, QuietOK
<1> QED BY <1>1, <1>2, CarefulKept, PTL DEF Spec

\* NetworkImpl implements RelayContract: where the app awaits each call and relays no
\* details twice, and no answer about a posted transaction is lost, a claim is made for an
\* account without tokens, a transfer for one with enough, once, before the call returns;
\* and a call that throws has had no effect.  Requests, the server and the wallet may
\* fail, refuse and change at any moment.
THEOREM ContractImplemented ==
  ASSUME \A e \in Environments : Careful(e)
  PROVE  Spec => ContractHolds
<1>1. Init => CarefulInv /\ Contract!Init
  BY Initially, SerialInitially DEF CarefulInv
<1>2. CarefulInv /\ [Next]_vars => [Contract!Next]_(Contract!cvars)
  BY SerialSteps DEF CarefulInv, IInv, TypeOK, ContractStep
<1> QED BY <1>1, <1>2, CarefulKept, PTL DEF Spec, ContractHolds, Contract!Spec

=============================================================================
