------------------------------- MODULE Relay -------------------------------
(***************************************************************************)
(* NetworkImpl and the GSN client (lib/src/networks/evm_networks.dart,     *)
(* lib/src/gsn): claims, transfers and relayed transactions, from the      *)
(* app's call to the receipt.                                              *)
(*                                                                         *)
(* A method is cut at each await: it asks the wallet, the chain's node or  *)
(* the relay server, the answer is given at one moment and used at a later *)
(* one, and the app's other calls go on in between.  Awaits whose answers  *)
(* do not matter here (decimals, estimates, the worker's nonce) are one    *)
(* each.  WalletManager.getWallet answers the wallet of the moment.        *)
(*                                                                         *)
(* The node, the relay server, the forwarder, the token and the faucet are *)
(* not in the repository: they are what the calls made of them need.  Of a *)
(* transfer only the sender's balance is kept; amounts are those that the  *)
(* token's decimals can express.                                           *)
(***************************************************************************)
EXTENDS Naturals, FiniteSets

CONSTANTS
  Calls,        \* the app's calls, each made at most once
  Accounts,     \* addresses of wallets
  Null,    \* null
  Workers,      \* addresses of the relay server's workers
  Details,      \* GsnTransactionDetails the app has built itself
  From,         \* the sender each of them names
  Amounts,      \* the amounts that are transferred
  Dust,         \* what the faucet pays
  Balances,     \* the balances accounts may have at first
  Environments  \* what an installation may be like: the methods its app calls
                \* (ops), whether it awaits each call before the next (serial),
                \* whether it relays the same details again (reuse), and what
                \* may go wrong (faults)

Operations == {"claimRly", "transfer", "transferExact", "relay", "simpleTransfer"}

FaultKinds ==
  {"read",    \* a request before the transaction is posted may fail
   "reply",   \* the answer to the posted transaction may be lost
   "poll",    \* reading the receipt may fail
   "reject",  \* the server may refuse a transaction for reasons of its own
   "drop",    \* a transaction may never be mined
   "rotate",  \* the server may change its worker
   "switch",  \* the app may replace or delete its wallet
   "return"}  \* a wallet that was replaced may be imported again

ASSUME ConstantsAssumption ==
  /\ Null \notin Accounts
  /\ From \in [Details -> Accounts]
  /\ Amounts \subseteq Nat
  /\ Dust \in Nat \ {0}
  /\ Balances \subseteq Nat
ASSUME AppAssumption ==
  \A e \in Environments :
    /\ e.ops \subseteq Operations
    /\ {e.serial, e.reuse} \subseteq BOOLEAN
    /\ e.faults \subseteq FaultKinds

VARIABLES
  env,           \* the environment; it never changes
  call,          \* the state of each call
  relayWorker,   \* config.gsn.relayWorkerAddress, shared by all calls
  cuts,          \* how often the gas of each of Details has been lowered
  wallet,        \* what WalletManager.getWallet answers
  past,          \* history: the wallets there have been
  serverWorker,  \* the worker the server uses
  balance,       \* on chain: the tokens of each account
  forwarderNonce, tokenNonce,  \* on chain: the next nonce of each account
  tx             \* what has become of the transaction of each call

appVars == <<call, relayWorker, cuts>>
chainVars == <<balance, forwarderNonce, tokenNonce>>
vars == <<env, appVars, wallet, past, serverWorker, chainVars, tx>>

Finished == {"returned", "threw"}
WalletPoints == {"displayWallet", "displayCheck", "simpleWallet", "wallet", "check",
                 "relayWallet"}
NodePoints == {"displayBalance", "decimals", "send", "balance", "tokenNonce", "altNonce",
               "estimate", "nonce", "workerNonce", "receipt"}
ServerPoints == {"config", "post"}
Points == WalletPoints \cup NodePoints \cup ServerPoints
Methods == {"Permit", "ExecuteMetaTransaction"}

Nonces == 0 .. Cardinality(Calls)

CallState ==
  [op : Operations \cup {"none"},
   pc : Points \cup Finished \cup {"none"},
   at : {"asked", "answered", "failed"},       \* the request awaited at pc
   val : Accounts \cup {Null} \cup Workers \cup Nat,  \* its answer
   amount : Amounts \cup {0},
   method : Methods,
   details : Details \cup {Null},
   from : Accounts \cup {Null},           \* the transaction's sender
   checked : Accounts \cup {Null},        \* the account whose balance was read
   permit : Nat,                               \* the token nonce that was signed
   signer : Accounts \cup {Null},         \* the account that relays
   nonce : Nat,                                \* the forwarder nonce of the request
   worker : Workers,                           \* the worker of the request
   cut : Nat]                                  \* how often its gas was lowered

TypeOK ==
  /\ env \in Environments
  /\ call \in [Calls -> CallState]
  /\ relayWorker \in Workers
  /\ cuts \in [Details -> Nat]
  /\ wallet \in Accounts \cup {Null}
  /\ past \subseteq Accounts
  /\ serverWorker \in Workers
  /\ balance \in [Accounts -> Nat]
  /\ forwarderNonce \in [Accounts -> Nat]
  /\ tokenNonce \in [Accounts -> Nat]
  /\ tx \in [Calls -> {"none", "pending", "executed", "reverted", "dropped"}]

Init ==
  /\ env \in Environments
  /\ relayWorker \in Workers
  /\ serverWorker \in Workers
  /\ call = [c \in Calls |->
               [op |-> "none", pc |-> "none", at |-> "answered", val |-> Null,
                amount |-> 0, method |-> "Permit", details |-> Null,
                from |-> Null, checked |-> Null, permit |-> 0,
                signer |-> Null, nonce |-> 0, worker |-> relayWorker, cut |-> 0]]
  /\ cuts = [d \in Details |-> 0]
  /\ wallet \in Accounts \cup {Null}
  /\ past = {wallet} \ {Null}
  /\ balance \in [Accounts -> Balances]
  /\ forwarderNonce = [a \in Accounts |-> 0]
  /\ tokenNonce = [a \in Accounts |-> 0]
  /\ tx = [c \in Calls |-> "none"]

-----------------------------------------------------------------------------
(* How a method goes on.                                                   *)

Active(c) == call[c].pc \notin Finished \cup {"none"}

\* Go to pc and send the request awaited there.
Ask(c, state, pc) ==
  call' = [call EXCEPT ![c] = [state EXCEPT !.pc = pc, !.at = "asked",
                                            !.val = Null]]

Finish(c, how) ==
  call' = [call EXCEPT ![c] = [@ EXCEPT !.pc = how, !.at = "answered", !.val = Null]]

Throw(c) == Finish(c, "threw")

Asked(c, points) == call[c].pc \in points /\ call[c].at = "asked"
Answered(c, pc) == call[c].pc = pc /\ call[c].at = "answered"

Answer(c, val) == call' = [call EXCEPT ![c] = [@ EXCEPT !.at = "answered", !.val = val]]
Fail(c) == call' = [call EXCEPT ![c].at = "failed"]

-----------------------------------------------------------------------------
(* The app calls NetworkImpl.                                              *)

CanStart(c, op) ==
  /\ op \in env.ops
  /\ call[c].pc = "none"
  /\ env.serial => \A d \in Calls : ~Active(d)

Started(c, op) == [call[c] EXCEPT !.op = op]

\* registerAccount is claimRly.
ClaimRly(c) ==
  /\ CanStart(c, "claimRly")
  /\ Ask(c, Started(c, "claimRly"), "wallet")

TransferExact(c) ==
  /\ CanStart(c, "transferExact")
  /\ \E amount \in Amounts, method \in Methods :
       Ask(c, [Started(c, "transferExact") EXCEPT !.amount = amount, !.method = method],
           "wallet")

\* The amount as a double is checked first, then transferExact is called.
Transfer(c) ==
  /\ CanStart(c, "transfer")
  /\ \E amount \in Amounts, method \in Methods :
       Ask(c, [Started(c, "transfer") EXCEPT !.amount = amount, !.method = method],
           "displayWallet")

RelayDetails(c) ==
  /\ CanStart(c, "relay")
  /\ \E d \in Details :
       /\ env.reuse \/ \A b \in Calls : call[b].details # d
       /\ Ask(c, [Started(c, "relay") EXCEPT !.details = d, !.from = From[d]],
              "relayWallet")

SimpleTransfer(c) ==
  /\ CanStart(c, "simpleTransfer")
  /\ Ask(c, Started(c, "simpleTransfer"), "simpleWallet")

AppCalls(c) ==
  /\ \/ ClaimRly(c)
     \/ TransferExact(c)
     \/ Transfer(c)
     \/ RelayDetails(c)
     \/ SimpleTransfer(c)
  /\ UNCHANGED <<relayWorker, cuts, tx>>

-----------------------------------------------------------------------------
(* An answer reaches the method that awaits it.                            *)

\* Mutant: a nonce that cannot be read is left out of the request.
NonceFailureIgnored(c) ==
  /\ Active(c)
  /\ call[c].at = "failed"
  /\ IF call[c].pc = "nonce"
     THEN Ask(c, [call[c] EXCEPT !.nonce = Null], "workerNonce")
     ELSE Throw(c)
  /\ UNCHANGED <<relayWorker, cuts>>

\* Mutant: the receipt is polled for after the server has refused the transaction.
RefusalPolled(c) ==
  /\ Active(c)
  /\ call[c].at = "failed"
  /\ IF call[c].pc = "post" THEN Ask(c, call[c], "receipt") ELSE Throw(c)
  /\ UNCHANGED <<relayWorker, cuts>>

\* A failed request throws, except that getSenderContractNonce tries getNonce
\* when the token has no nonces.
RequestFailed(c) ==
  /\ Active(c)
  /\ call[c].at = "failed"
  /\ IF call[c].pc = "tokenNonce" /\ call[c].method = "ExecuteMetaTransaction"
     THEN Ask(c, call[c], "altNonce")
     ELSE Throw(c)
  /\ UNCHANGED <<relayWorker, cuts>>

\* Without a wallet every method throws.
WalletMissing(c) ==
  /\ \E pc \in WalletPoints : Answered(c, pc)
  /\ call[c].val = Null
  /\ Throw(c)
  /\ UNCHANGED <<relayWorker, cuts>>

\* The wallet asked for at pc is there.
WalletFound(c, pc) == Answered(c, pc) /\ call[c].val # Null

\* The wallet the transaction is made for; getBalance asks for the wallet again.
WalletFetched(c) ==
  /\ WalletFound(c, "wallet")
  /\ Ask(c, [call[c] EXCEPT !.from = call[c].val], "check")
  /\ UNCHANGED <<relayWorker, cuts>>

\* getBalance has the wallet whose balance it reads.
BalanceAsked(c) ==
  /\ UNCHANGED <<relayWorker, cuts>>
  /\ \/ /\ WalletFound(c, "check")
        /\ Ask(c, [call[c] EXCEPT !.checked = call[c].val], "balance")
     \/ /\ WalletFound(c, "displayCheck")
        /\ Ask(c, [call[c] EXCEPT !.checked = call[c].val], "displayBalance")

\* The balance that was read does not cover the amount.
Insufficient(c) == call[c].val < call[c].amount

\* transfer up to its call of transferExact.
DisplayBalanceChecked(c) ==
  /\ UNCHANGED <<relayWorker, cuts>>
  /\ \/ WalletFound(c, "displayWallet") /\ Ask(c, call[c], "displayCheck")
     \/ /\ Answered(c, "displayBalance")
        /\ IF Insufficient(c) THEN Throw(c) ELSE Ask(c, call[c], "decimals")
     \/ Answered(c, "decimals") /\ Ask(c, call[c], "wallet")

\* Mutant: a claim does not look at the balance.
BalanceReadNotChecked(c) ==
  /\ Answered(c, "balance")
  /\ IF call[c].op = "claimRly"
     THEN Ask(c, call[c], "estimate")
     ELSE IF Insufficient(c) THEN Throw(c) ELSE Ask(c, call[c], "tokenNonce")
  /\ UNCHANGED <<relayWorker, cuts>>

\* claimRly wants no balance, a transfer wants enough.
BalanceRead(c) ==
  /\ Answered(c, "balance")
  /\ IF call[c].op = "claimRly"
     THEN IF call[c].val > 0 THEN Throw(c) ELSE Ask(c, call[c], "estimate")
     ELSE IF Insufficient(c) THEN Throw(c) ELSE Ask(c, call[c], "tokenNonce")
  /\ UNCHANGED <<relayWorker, cuts>>

\* getPermitTx and getExecuteMetatransactionTx sign for the nonce they have read.
TokenNonceRead(c) ==
  /\ Answered(c, "tokenNonce") \/ Answered(c, "altNonce")
  /\ Ask(c, [call[c] EXCEPT !.permit = call[c].val], "estimate")
  /\ UNCHANGED <<relayWorker, cuts>>

\* Mutant: the transaction is relayed with the wallet it was made for.
TransactionMadeBySender(c) ==
  /\ Answered(c, "estimate")
  /\ Ask(c, [call[c] EXCEPT !.signer = call[c].from], "config")
  /\ UNCHANGED <<relayWorker, cuts>>

\* The transaction is made; relay fetches the wallet once more.
TransactionMade(c) ==
  /\ Answered(c, "estimate")
  /\ Ask(c, call[c], "relayWallet")
  /\ UNCHANGED <<relayWorker, cuts>>

RelayWalletFetched(c) ==
  /\ WalletFound(c, "relayWallet")
  /\ Ask(c, [call[c] EXCEPT !.signer = call[c].val], "config")
  /\ UNCHANGED <<relayWorker, cuts>>

\* Mutant: the worker is not taken over from the server.
ConfigKept(c) ==
  /\ Answered(c, "config")
  /\ Ask(c, call[c], "nonce")
  /\ UNCHANGED <<relayWorker, cuts>>

\* updateConfig, and buildRelayRequest up to its first await: the gas of the
\* caller's object is lowered by the cost of the call data.
ConfigUpdated(c) ==
  /\ Answered(c, "config")
  /\ relayWorker' = call[c].val
  /\ IF call[c].op = "relay"
     THEN cuts' = [cuts EXCEPT ![call[c].details] = @ + 1]
     ELSE UNCHANGED cuts
  /\ Ask(c, call[c], "nonce")

\* The rest of buildRelayRequest, and signRequest: the request takes the gas and the
\* worker as they are now.
RequestBuilt(c) ==
  /\ Answered(c, "nonce")
  /\ Ask(c, [call[c] EXCEPT
               !.nonce = call[c].val,
               !.worker = relayWorker,
               !.cut = IF call[c].op = "relay" THEN cuts[call[c].details] ELSE 1],
         "workerNonce")
  /\ UNCHANGED <<relayWorker, cuts>>

RequestPosted(c) ==
  /\ Answered(c, "workerNonce")
  /\ Ask(c, call[c], "post")
  /\ UNCHANGED <<relayWorker, cuts>>

ResponseReceived(c) ==
  /\ Answered(c, "post")
  /\ Ask(c, call[c], "receipt")
  /\ UNCHANGED <<relayWorker, cuts>>

\* Mutant: the call gives up when there is no receipt yet.
ReceiptPolledOnce(c) ==
  /\ Answered(c, "receipt")
  /\ IF call[c].val # Null THEN Finish(c, "returned") ELSE Throw(c)
  /\ UNCHANGED <<relayWorker, cuts>>

\* Mutant: the hash is returned whether there is a receipt or not.
ReceiptIgnored(c) ==
  /\ Answered(c, "receipt")
  /\ Finish(c, "returned")
  /\ UNCHANGED <<relayWorker, cuts>>

\* The receipt is asked for until there is one; its status is not looked at.
ReceiptRead(c) ==
  /\ Answered(c, "receipt")
  /\ IF call[c].val # Null THEN Finish(c, "returned") ELSE Ask(c, call[c], "receipt")
  /\ UNCHANGED <<relayWorker, cuts>>

\* simpleTransfer signs for chain 80001, whatever the configured network.
SimpleTransferSent(c) ==
  /\ WalletFound(c, "simpleWallet")
  /\ Ask(c, call[c], "send")
  /\ UNCHANGED <<relayWorker, cuts>>

Continuations(c) ==
  /\ \/ RequestFailed(c)
     \/ WalletMissing(c)
     \/ WalletFetched(c)
     \/ BalanceAsked(c)
     \/ DisplayBalanceChecked(c)
     \/ BalanceRead(c)
     \/ TokenNonceRead(c)
     \/ TransactionMade(c)
     \/ RelayWalletFetched(c)
     \/ ConfigUpdated(c)
     \/ RequestBuilt(c)
     \/ RequestPosted(c)
     \/ ResponseReceived(c)
     \/ ReceiptRead(c)
     \/ SimpleTransferSent(c)
  /\ UNCHANGED tx

-----------------------------------------------------------------------------
(* The wallet, the node and the server answer.                             *)

WalletAnswers(c) ==
  /\ Asked(c, WalletPoints)
  /\ Answer(c, wallet)
  /\ UNCHANGED tx

\* Any request before the post may fail.
RequestFails(c) ==
  /\ \/ "read" \in env.faults /\ Asked(c, Points \ {"post", "receipt"})
     \/ "poll" \in env.faults /\ Asked(c, {"receipt"})
  /\ Fail(c)
  /\ UNCHANGED tx

Mined(c) == tx[c] \in {"executed", "reverted"}

\* The status in the receipt, if there is one.
Receipt(c) == IF ~Mined(c) THEN Null ELSE IF tx[c] = "executed" THEN 1 ELSE 0

NodeAnswers(c) ==
  /\ UNCHANGED tx
  /\ \/ Asked(c, {"balance", "displayBalance"}) /\ Answer(c, balance[call[c].checked])
     \/ Asked(c, {"tokenNonce", "altNonce"}) /\ Answer(c, tokenNonce[call[c].from])
     \/ Asked(c, {"nonce"}) /\ Answer(c, forwarderNonce[call[c].signer])
     \/ Asked(c, {"decimals", "estimate", "workerNonce"}) /\ Answer(c, Null)
     \/ Asked(c, {"receipt"}) /\ Answer(c, Receipt(c))
     \/ Asked(c, {"send"}) /\ Fail(c)  \* not this node's chain

ServerAnswersConfig(c) ==
  /\ Asked(c, {"config"})
  /\ Answer(c, serverWorker)
  /\ UNCHANGED tx

\* The server tries a request out before it takes it.
Acceptable(c) ==
  /\ call[c].worker = serverWorker
  /\ call[c].signer = call[c].from
  /\ call[c].nonce = forwarderNonce[call[c].from]

ServerAccepts(c) ==
  /\ Asked(c, {"post"})
  /\ Acceptable(c)
  /\ tx' = [tx EXCEPT ![c] = "pending"]
  /\ \/ Answer(c, Null)
     \/ "reply" \in env.faults /\ Fail(c)

ServerRefuses(c) ==
  /\ Asked(c, {"post"})
  /\ ~Acceptable(c) \/ {"reject", "reply"} \cap env.faults # {}
  /\ Fail(c)
  /\ UNCHANGED tx

Answers(c) ==
  /\ \/ WalletAnswers(c)
     \/ RequestFails(c)
     \/ NodeAnswers(c)
     \/ ServerAnswersConfig(c)
     \/ ServerAccepts(c)
     \/ ServerRefuses(c)
  /\ UNCHANGED <<relayWorker, cuts>>

-----------------------------------------------------------------------------
(* What happens on chain, to the server and to the wallet.                 *)

Bump(nonce, a) == [nonce EXCEPT ![a] = @ + 1]

Transfers(c) == call[c].op \in {"transfer", "transferExact"}

\* The forwarder checks the nonce, the token the permit and the balance.
Works(c) ==
  LET a == call[c].from IN
  /\ call[c].nonce = forwarderNonce[a]
  /\ Transfers(c) => call[c].permit = tokenNonce[a] /\ call[c].amount <= balance[a]

\* The sender's balance after the transaction.
Paid(c, works) ==
  LET b == balance[call[c].from] IN
  IF works /\ call[c].op = "claimRly" THEN b + Dust
  ELSE IF works /\ Transfers(c) THEN b - call[c].amount ELSE b

\* The gas left after two cuts may not be enough.
Mine(c) ==
  /\ tx[c] = "pending"
  /\ \E works \in {Works(c), Works(c) /\ call[c].cut <= 1} :
     LET a == call[c].from IN
     /\ forwarderNonce' = IF call[c].nonce = forwarderNonce[a]
                          THEN Bump(forwarderNonce, a) ELSE forwarderNonce
     /\ tokenNonce' = IF works /\ Transfers(c) THEN Bump(tokenNonce, a) ELSE tokenNonce
     /\ balance' = [balance EXCEPT ![a] = Paid(c, works)]
     /\ tx' = [tx EXCEPT ![c] = IF works THEN "executed" ELSE "reverted"]
  /\ UNCHANGED <<env, appVars, wallet, past, serverWorker>>

Drop(c) ==
  /\ "drop" \in env.faults
  /\ tx[c] = "pending"
  /\ tx' = [tx EXCEPT ![c] = "dropped"]
  /\ UNCHANGED <<env, appVars, wallet, past, serverWorker, chainVars>>

WorkerRotated ==
  /\ "rotate" \in env.faults
  /\ serverWorker' \in Workers
  /\ UNCHANGED <<env, appVars, wallet, past, chainVars, tx>>

\* The app makes a wallet, imports one or deletes it: WalletManager, in one step.
WalletReplaced ==
  /\ "switch" \in env.faults
  /\ wallet' \in Accounts \cup {Null}
  /\ wallet' \in past => "return" \in env.faults
  /\ past' = past \cup ({wallet'} \ {Null})
  /\ UNCHANGED <<env, appVars, serverWorker, chainVars, tx>>

CallSteps(c) ==
  /\ AppCalls(c) \/ Continuations(c) \/ Answers(c)
  /\ UNCHANGED <<env, wallet, past, serverWorker, chainVars>>

Next ==
  \/ \E c \in Calls : CallSteps(c) \/ Mine(c) \/ Drop(c)
  \/ WorkerRotated
  \/ WalletReplaced

Spec == Init /\ [][Next]_vars

\* Dart's event loop takes every answer, every request is answered or fails, and what
\* is not dropped is mined.
Fairness ==
  \A c \in Calls :
    /\ WF_vars((Continuations(c) \/ Answers(c))
               /\ UNCHANGED <<env, wallet, past, serverWorker, chainVars>>)
    /\ WF_vars(Mine(c))

FairSpec == Spec /\ Fairness

-----------------------------------------------------------------------------
\* A transfer or claim that is executed was checked against the balance of the account
\* that pays: the wallet is fetched for the transaction, for the balance and for the
\* signature, and may be replaced in between (transferExact, getBalance, relay), as long
\* as it does not come back.
CheckedForPayer ==
  "return" \notin env.faults =>
    \A c \in Calls :
      tx[c] = "executed" /\ call[c].op # "relay" => call[c].checked = call[c].from

\* A call returns a hash only for a transaction that is on chain (handleGsnResponse).
ReturnedMined == \A c \in Calls : call[c].pc = "returned" => Mined(c)

\* A call that throws may be made again: it has left no transaction behind, unless the
\* server's answer was lost or the receipt could not be read.
RetrySafe ==
  {"reply", "poll"} \cap env.faults = {} =>
    \A c \in Calls : call[c].pc = "threw" => tx[c] = "none"

\* An app that awaits each call and relays no details twice, where nothing fails and the
\* wallet stays.
Quiet(e) == e.serial /\ ~e.reuse /\ e.faults = {}

\* There the server refuses no request that the SDK makes for its own wallet: its worker
\* is the one the server has just named, its nonce the one the last receipt has left, its
\* signer its sender (updateConfig, buildRelayRequest, relay).
NeverRefused ==
  Quiet(env) =>
    \A c \in Calls :
      call[c].op # "relay" => ~(call[c].pc = "post" /\ call[c].at = "failed")

=============================================================================
