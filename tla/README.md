# Verification of the Rally Protocol Flutter SDK

TLA+ models of the SDK in this repository, the TLC runs that check them on small
instances, and TLAPS proofs of what holds for every instance. `PROJECT.json` lists
the runs, the lines of source each definition stands for, and one mutant of the
code for every property: the property fails on the mutant.

## The system

| component | state it keeps | operations | hard behaviour |
| --- | --- | --- | --- |
| `WalletManager`, `KeyManager` (Dart, `lib/src`) | the static `_cachedWallet`; the suspended calls | create, import, get, update storage, delete, account phrase, cloud eligibility | calls interleave at every `await`; what was checked or read before an await is used after it |
| Android plugin (`FlutterSdkPlugin.kt`, `MnemonicStorageHelper.kt`) | Block Store, EncryptedSharedPreferences (map and file), `isEndToEndEncryptionAvailable` | one handler per method of the channel; listeners of Block Store tasks | asynchronous stores and reads, deletes nobody waits for, fallback from one store to the other, process death, restore from a backup |
| iOS plugin (`RlyNetworkMobileSdk.swift`, `KeyChainHelper.swift`) | two keychain items | the same handlers, synchronous | ignored statuses, iCloud changes from other devices, `"failure"` as a value |
| GSN relay client (`lib/src/gsn`) | the shared network configuration; the gas of the caller's details; a nonce on chain | build, sign and send a relay request, poll for its receipt | two requests with one nonce, configuration written before and read after an await, polling without end |
| `NetworkImpl` (`lib/src/networks`) | the suspended calls | claim, transfer, relay, balance | the wallet is fetched up to three times in one transfer and may change in between |
| fees, gas, units (`lib/src/transactions`, `gsn_tx_helpers.dart`) | - | pure | negative differences, rounding, the length of a hexadecimal string taken for bytes |
| meta transactions, permits (`lib/src/gsn/EIP712`) | nonces on chain | choose, sign, encode | deadlines in milliseconds |
| zkSync (`lib/src/zksync`) | - | build, sign, send | what is signed against what is sent |
| hash functions (`ios/Classes/sha2.c`, `sha3.c`, `ripemd160.c`, `hmac.c`, `pbkdf2.c`) | a context: chaining state, block buffer, byte count | init, update, final; HMAC and PBKDF2 with their short cuts | pieces that end at, before or after a block, padding that needs a second block, the 64 and 128 bit counts |
| numbers, curve, signatures (`bignum.c`, `ecdsa.c`, `secp256k1.c`) | - | add, multiply, reduce, invert; multiply a point; sign, verify, recover | carries and partly reduced results, two numbers in one register, additions that are doublings |
| phrases and keys (`bip39.c`, `bip32.c`) | two ring caches | phrase from data and back, seed, child keys, nodes as text | entries of another root or phrase, overwritten entries, macs that are no key |
| texts and addresses (`base58.c`, `ecdsa.c`) | - | encode and decode with a checksum | leading zeros, buffer sizes |
| AES (`aeskey.c`, `aescrypt.c`, `aes_modes.c`) | the place in a block between two calls | key schedules, ECB, CBC, CFB, OFB, CTR | a message cut at any place |

`WalletManager` calls `KeyManager`, which sends one message per call over Flutter's
method channel; the plugin's handler runs on the platform's main thread and replies,
at once or from a listener. `NetworkImpl` takes the wallet from `WalletManager`,
builds a transaction with the relay client's helpers and either relays it through a
GSN server or sends it to a zkSync node. The C code derives the key on iOS only.

What makes each part correct:

- wallet: an existing wallet is replaced only when asked to; one phrase is *the*
  wallet in the cache, in the stores and after a restart; a move between stores never
  loses it; a call that was told to reject rejects; every call ends;
- relay: a nonce is used by one accepted request; what is sent is what was signed, by
  the account the transaction was made for; a call reports what happened on chain;
- arithmetic: estimates are never negative or too small, units convert exactly;
- key derivation: a phrase round-trips; a seed or key found in a cache is the one that
  would be computed; who has only public keys derives the keys that belong to the private
  ones;
- the C library: each function computes what its standard or its comment defines, however
  its input is cut, and no carry is lost.

The components and hazards of `PROJECT.json` list all parts one by one.

## The modules

- `WalletManager` is the Dart half. What a method does between two awaits of the
  platform is one action: `CreateWallet`, `ImportExistingWallet`, `GetWallet`,
  `UpdateWalletStorage`, `PermanentlyDeleteWallet`, `GetAccountPhrase` and
  `WalletEligibleForCloudSync` start a call (several may be under way, in any order);
  `MnemonicGenerated`, `ExistingRead`, `ExistingDerived`, `MnemonicSaved`, ... go on
  when the reply comes, and `CallThrows` when it is an error. `call[c].pc` is the
  `await` a call is suspended at, `channel` and `replies` are the two directions of
  the method channel, which keep order. A wallet is identified with its phrase, and a
  phrase is a model value.
- `WalletAndroid` extends it with the handlers of the plugin, `MnemonicStorageHelper`,
  and Play services: a Block Store call is a task, that is pending, then executed (or
  failed), then reported to its listener if it has one and its process still lives.
  `prefs` is the map in memory, `disk` the file `commit()` writes.
- `WalletIos` extends it with the keychain: handlers are synchronous, most statuses are
  ignored.
- `WalletContract` is the abstract specification: one wallet or none, and calls that
  take effect at one point or throw without effect. Both platforms implement it, under
  a refinement mapping, in the installations named `ContractDevices`.
- `WalletPromises` states what the documentation promises, for both platforms;
  `WalletAndroid` and `WalletIos` say what is stored and where, and in which installations
  each promise is kept (`SafeMoves`, `Steady`, `OneStore`, `OneItem`).
- `MCWalletAndroid` and `MCWalletIos` give the constants values. The refinement mappings are
  in `WalletAndroid` and `WalletIos`: `Stored` is the wallet, and `Request` (of
  `WalletManager`) shows the contract a call as open, applied or ended. Whether it has
  been applied is `Acted` on Android, where Block Store may have carried out a store that
  is not reported yet, and `Confirmed` on iOS.
- `Relay` is `NetworkImpl` and the GSN client, cut at each `await`. `ClaimRly`,
  `TransferExact`, `Transfer`, `RelayDetails` and `SimpleTransfer` start a call;
  `WalletFetched`, `BalanceAsked`, `BalanceRead`, `TokenNonceRead`, `TransactionMade`,
  `RelayWalletFetched`, `ConfigUpdated`, `RequestBuilt`, `RequestPosted`,
  `ResponseReceived` and `ReceiptRead` go on with the answer that has come, and
  `RequestFailed` and `WalletMissing` throw. An answer is given at one moment
  (`WalletAnswers`, `NodeAnswers`, `ServerAccepts`, ...) and used at a later one.
  `call[c].from`, `.checked` and `.signer` are the wallets of the three looks a transfer
  takes at it: the sender, the account whose balance was read, the account that signs.
  `relayWorker` and `cuts` are what calls share: `config.gsn.relayWorkerAddress`, and
  the gas that `buildRelayRequest` lowers in the caller's object. The server, the node,
  the forwarder, the token and the faucet are external: the server tries a request out
  before it takes it, the forwarder wants the next nonce, the token the permit's nonce
  and a balance. Of `WalletManager` it has `getWallet`, and that the wallet may be
  replaced or deleted at any time.
- `RelayContract` is what an app that awaits each call may expect of it: a claim, a
  transfer or a relayed transaction takes effect once and returns, or throws without
  effect; claims are for accounts without tokens, transfers for those with enough.
- `RelayRefinement` holds the refinement mapping of `Relay` to `RelayContract`: a call takes
  effect when the chain executes its transaction. `MCRelay` gives the constants values.
- `TransactionDetails` is the gas and the fees of one transaction, with their texts and
  numbers: `GasEstimated`, `BlockRead` and `PriceRead` make the details while blocks go
  by, `BuildRelayRequest` lowers the gas and puts it into the request, once or twice.
  `MCTransactionDetails` has the SDK's call data.
- `Computations` composes what nothing interrupts, the modules below and
  `TransactionDetails`: each is a machine of its own, one of which (`part`) is at work.
  `MCComputations` gives the constants values.

The modules of the C library, in `Computations`:

- `MachineWords` and `BitWords` are words as numbers, with wrapping sums, and as sets of
  bits, with exclusive or and rotations; a module takes the one its code is easier in.
  `Octets` are bytes, of any number of bits, and the number that some of them write, as
  `HashContext` and `AesModes` read and count with them.
- `HashContext` is Init, Update and Final of each hash, with the block buffer and the
  counter; a context's chain is the sequence of the blocks that were transformed.
  `HashStream` feeds a message in chunks and compares with the padding of the standards.
  `KeyStretch` is HMAC and PBKDF2 on these contexts, `MnemonicSeed` the seed of a phrase,
  computed in parts (`StretchSeed`, `StretchPart`, `KeepSeed`) or found in its ring
  (`FindSeed`).
- `HashTransforms` are the compression functions, `AesCipher` the key schedules and rounds
  of AES, on words of full size. `BlockFunctions` puts them to work, next to the
  definitions of their standards. `AesModes` is the modes of operation on a message in
  pieces.
- `Bignum` is every operation of `bignum.c` on limbs, `NumberRegister` a sequence of such
  calls on one number, each where its comment allows it. `BignumInverse` is `bn_inverse`
  step by step, with its two registers of words, and `AlmostInverse` the algorithm of its
  comments with whole numbers: the first implements the second.
- `CurvePoints` is the arithmetic of points in affine and Jacobian coordinates, on the
  limbs of `Bignum`; `PointMultiply` both multiplications, a round a step; `Ecdsa` signing
  with retries, verifying and recovering; `CurveGroup` what integers give for all of them.
- `HDNode` is the tree of keys: private and public children, the ring of parents
  (`DerivePrivate`, `DeriveCached`, ...) and nodes as text. `Mnemonic` is phrases from data
  and back, `Base58` texts with a checksum and addresses; `Encodings` writes something,
  copies it right or wrong, and reads it.

The proofs: `WalletManager_proofs` (what the Dart half keeps true whatever the platform
does), `WalletAndroid_proofs` and `WalletIos_proofs` on top of it, `Relay_proofs`,
`HashStream_proofs` (of `HashStream` and of `MnemonicSeed`), `AesModes_proofs` on top of it
and `KeysAndFees_proofs` (of `HDNode`, `AlmostInverse` and `TransactionDetails`).
`Induction` has induction and recursion over the natural numbers, for the proofs about
recursive functions.

The model of the wallet and that of the relay are checked apart: they meet only in
`getWallet`, of which `Relay` assumes that it answers the wallet of the moment. That it
does so between calls is what `CacheStaysTrue` and the wallet's contract say.

An *installation* (`env`, chosen in the initial state) fixes the operations the app
uses, whether it awaits each call before the next, the `KeyStorageConfig` values it
passes and what may go wrong. One run explores several of them.

## The runs

| run | question | result |
| --- | --- | --- |
| `android_safety` | Is every wallet in the cache one that was stored durably (`CachedWasStored`)? Does the cache agree with the store (`CacheStaysTrue`)? Do moves lose (`NeverLost`) or change (`MovesKeepWallet`) the wallet, do they clean the cloud (`MovesLeaveCloud`), is the reject flag honoured (`RejectHonoured`)? | yes, in the installations each property names |
| `android_contract` | Does an app that awaits each call see `WalletContract`, and does every call end? | yes: cloud storage, with stores that fail; device storage, with everything failing but `commit()` |
| `ios_safety` | the same questions on iOS | yes, while writes to the keychain succeed |
| `ios_contract` | the contract and termination on iOS | yes, with one keychain item in use |
| `android_shadowed` | "the existing wallet will be overwritten" (`wallet_manager.dart:24`) | violated: a device-only save leaves an older Block Store entry, which reads prefer |
| `android_invalid_saved` | "Mnemonic is not valid" (`FlutterSdkPlugin.kt:99`) | violated: the handler replies the error and saves the phrase |
| `ios_two_creates` | "it will throw an error unless the overwrite flag is set" (`wallet_manager.dart:23`) | violated: two calls started together both pass the check |
| `ios_move_loses` | "only stored on device" (`wallet_manager.dart:79`) | violated: the device write fails unnoticed and the iCloud item is deleted |
| `relay_safety` | Was an executed transfer checked against the balance of the account that pays (`CheckedForPayer`)? Is what a call returns on chain (`ReturnedMined`)? May a call that throws be made again (`RetrySafe`)? | yes, the last unless the server's answer is lost or a poll fails |
| `relay_contract` | Does an app that awaits each call see `RelayContract`, does the server refuse nothing when nothing fails (`NeverRefused`), and does every call end? | yes, where no answer about a posted transaction is lost and each transaction is mined |
| `computations` | Does each part of `Computations` compute what it should (next table)? | yes, where the callers keep the conditions stated there and under *Not modelled* |
| `details_readme` | `gas: gas.toString()` (`README.md:71`) | violated: the decimal text is read as hexadecimal after its first two characters |

The properties of `computations`:

| property | what it says |
| --- | --- |
| `GasAsEstimated`, `GasCoversCall` | a request asks for the gas that was estimated; it is enough for the SDK's own calls |
| `FeeLasts` | the maximal fee covers the base fee for five blocks, also if the gas price is that of a later block than the base fee |
| `HashesMessage` | what is transformed is the padded message of the standard, whatever the chunks |
| `SeedIsDefined` | a seed, computed or found in the ring, is the one BIP-39 defines |
| `NumbersAgree` | limbs stay normalized and agree with integer arithmetic after any calls that are allowed |
| `InverseByAlgorithm` | `bn_inverse` implements the algorithm of its comments: no word is needed by both numbers of a register |
| `MultipliesPoint` | both multiplications give the multiple of the point, whatever z was drawn |
| `SignaturesVerify` | a signature verifies, has a low s, and gives back its key |
| `VerifiesAsDefined` | only what solves the equation of ECDSA is accepted, and a key is recovered only from that |
| `CachedAsDerived` | a child found through the ring of parents is the one its path leads to |
| `PublicFollowsPrivate` | public derivation and its fast path for addresses agree with private derivation, also when a mac is retried |
| `DecodesBack` | what was written is read back and nothing else is read; phrases of 15 and 21 words are made but not read (`bip39.c:142`) |
| `CipherStreams` | a message in pieces is enciphered like the whole |
| `BlocksAsDefined` | AES blocks, SHA-2, RIPEMD-160 and Keccak in place compute what their standards define |

Bounds. Two calls at a time (one where the app awaits each): every hazard here is a
pair, a call against a call, or a call against the platform. One generated phrase and
one or two others: a second phrase is needed to tell a stale wallet from the current
one. `MaxTasks`, two Block Store calls under way: each call waits for at most one, and
a delete nobody waits for makes the second. In the violation runs the smallest
instance that shows the behaviour. The relay has two accounts (a wallet and the one that
replaces it), two workers, two details, one amount, and balances that allow a claim or a
transfer; `relay_safety` has three kinds of installation, each with the faults that meet
in one place, as all together would only add their states. `computations` has the
SDK's call data with as few and as many zero bytes as there can be, base fees on both
sides of the rounding, and six blocks, one more than the property speaks of.
`CHECK_DEADLOCK FALSE` is stated in the relay, details and computations runs only: their
calls are made once each, after which the system stops.

The C code is the same for every size of its words, numbers and blocks, and the models
take these sizes as constants. `computations` has small ones, so that limits are reached
by few steps, each with the room the code has:

- hashes: bytes of 4 bits in words of 2 and blocks of 8 words, so that the count, which
  takes the last words of a block, overflows its low word in the fifth block; chunks around
  a block's size;
- numbers: three limbs of 9 bits for 256-bit numbers in nine of 30, with primes just below
  2^22 as the code's are just below 2^256, and operands around the moduli, the limbs'
  bounds and the largest number; inverses in three words of 4 bits, with primes that fill
  them and a smaller one;
- curves of prime order with these primes, with a = 0 as secp256k1 and with a = -3; factors
  at both ends, and those for which the last addition is a doubling; in `Ecdsa`, nonces, digests and forged numbers
  that are zero, the order, or above it, which small primes make as likely as their
  neighbours;
- keys: a group of seven points, in which a child often meets its parent or infinity, and
  macs of which many are no key, so that retries happen, which no test can reach; rings of
  two nodes and of two seeds;
- texts: bytes of 32 and digits of 13 values, data with leading zeros, buffers too
  short for a text and longer than the data; phrases of all lengths BIP-39 has;
- modes: blocks of four bytes with an invertible toy cipher, pieces that end inside, at and
  after a block; the block functions have their full size, since their tables leave no
  choice, with a few inputs.

Each of these conditions was needed; TLC found the behaviour that breaks the property
without it:

- Android, a failed `retrieveBytes` is answered from the preferences
  (`MnemonicStorageHelper.kt:114`): with a cloud wallet, `createWallet` then replaces
  it without `overwrite`, and `updateWalletStorage` can bring an older wallet back.
  The contract therefore assumes that retrievals work where Block Store is used.
- Android, `deleteBytes` is not waited for (`MnemonicStorageHelper.kt:134`): if it
  fails, a deleted wallet comes back and a move leaves the cloud copy.
- Android, `saveToCloud = false` with `rejectOnCloudSaveFailure = true` never saves
  anything (`MnemonicStorageHelper.kt:77`), where `wallet_manager.dart:29` says it is
  saved on the device.
- Android, the result of `commit()` is ignored: `CachedWasStored` assumes it succeeds.
- both, a `getWallet` under way while the wallet is deleted caches the deleted wallet:
  `CacheStaysTrue` excludes deletes.
- iOS, `rejectOnCloudSaveFailure` has no effect; when no random bytes are available
  the string `"failure"` is saved as the phrase.

- relay, two transfers at once read one forwarder nonce (`gsn_client.dart:42`): one
  reverts, and its hash is returned as if it had not; two claims at once both pass the
  balance check (`evm_networks.dart:28`). The contract assumes an app that awaits.
- relay, the status of the receipt is not looked at (`gsn_tx_helpers.dart:302`): a
  reverted transaction returns. In the contract's installations nothing reverts.
- relay, a worker that changes between a call's `/getaddr` and its post makes the server
  refuse; `relayWorkerAddress` itself is shared, and a call may build its request with
  the worker another call has just written.
- relay, relaying one `GsnTransactionDetails` twice lowers its gas twice
  (`gsn_client.dart:32`): the second may run out of gas.
- relay, when a poll fails or the server's answer is lost, the call throws and the
  transaction is executed all the same: a retry sends it twice.
- relay, a transaction that is dropped is polled for without end; `EveryCallEnds` assumes
  that each is mined.
- relay, `CheckedForPayer` needs that a replaced wallet does not come back: if the old
  phrase is imported again between the balance check and the signature, the transfer
  was checked against the other account's balance.
- `simpleTransfer` signs for chain 80001 whatever the network, and ignores its amount:
  on the configured networks its request fails.
- `transfer` compares doubles; `parseUnits` does not cut a fraction longer than the
  token's decimals. `Relay` takes amounts the decimals can express.
- `bip39.c`: phrases of 15 and 21 words are made but not read back
  (`bip39.c:142`).
- `ecdsa.c`: `ecdsa_verify_digest_recover` may return the point at infinity as a key; a
  digest that is zero modulo the order is signed but does not verify.
- fees: base fees below eight wei rise by one, a larger part; `FeesLast` assumes eight.

Fairness. `FairSpec` says that Dart's event loop and the platform's main thread take
what is queued for them, and that Play services executes (or fails) each call it has
been given and reports it. Nothing obliges the app to make a call, iCloud to bring a
change, a process to die, or the end-to-end encryption check to say yes. Weak fairness
is enough: each of these steps stays enabled until it is taken. In `Relay` it says that a
request is answered or fails, that what has come is taken, and that what is not dropped
is mined; nothing obliges the app, the worker or the wallet.

## The proofs

The wallet. `WalletAndroid_proofs` and `WalletIos_proofs` prove, for every set of calls,
phrases and installations, and on Android every bound on the Block Store calls:

- `TypeCorrect`: `Spec => []TypeOK`;
- `CachedStored`: where `commit()` (Android) or the write to the keychain (iOS) does not
  fail, `Spec => []CachedWasStored`;
- `NeverLostByMoves`: any number of concurrent moves, `Spec => NeverLost` (on iOS
  `MovesNeverLose`);
- `KeptByMoves` and `CloudLeftByMoves`: for an app that awaits each call,
  `Spec => MovesKeepWallet` and `Spec => MovesLeaveCloud`;
- `RejectionHonoured` (Android): for such an app, `Spec => RejectHonoured`;
- `CacheAgreesWithStored`: with one store, or one keychain item, in use and any number of
  concurrent calls, `Spec => []CacheStaysTrue`.

The first two are not inductive: the phrase that reaches the cache was read from a store by a
task, carried in a reply, kept in the call, and cached two replies later. `IInv`
follows it all the way. Its part about Dart, `DartOK`, is the same on both platforms and
is in `WalletManager_proofs`: `CallOK` says what a call may rely on at each await,
`QueueOK` that a call is in a queue once, both for a set of phrases that are known to be
stored. The lemmas there say that a step of Dart, a reply, or the end of the app keeps
it, provided a reply tells of no other phrase. Each platform says what its stores hold:
on Android `TaskOK` is what a Block Store task found or stored, and `WaitedFor` that the
call a task will reply to still waits for exactly that. `Trusted` is the set of phrases
that were stored, or all phrases where a write may fail unnoticed, so that one invariant
serves both theorems.

Moves. A cloud copy is deleted only when the device's copy is there, and what is to be
proved is that it still is when the delete is executed: two awaits later on iOS, at any
later time on Android, where nobody waits for it and the process may have ended. On iOS
`DeviceHeld` says that the device's item is not empty once a move is about to delete; on
Android `PrefsHeld` says it of each call that will delete and of each delete under way, for
the preferences' *file*, which is what a new process reads. Since an app of these theorems
stores one wallet, what is there is that wallet.

For an app that awaits each call, one call runs (`Alone`) and `Tracks` (`MoveTracks` on
iOS) says for each await of a move what it has done: it has read the stored phrase, has
written it, has deleted the other copy. On Android what is stored is what will be in Block
Store when what is under way is done, `SettledCloud`, so `SteadyInv` also speaks of the
list of tasks: the only task that is waited for was made last, and its answer is what is
there (`Steadily`); a store that nobody waits for can only be that of an invalid phrase
(`Clean`, `Fits`), which the property excludes. `InOrder` says that tasks are executed in
order, and that those of an earlier process come first. `RejectionHonoured` is from the
same invariant: a `save` that was forced and has succeeded is in Block Store.

The cache. A call that was told a phrase derives the wallet and caches it two replies later,
while other calls are told other phrases. The invariant is about the order of what is under
way: `Distance` is how far a call is from caching its wallet, and `Latest` says that the
call that will cache last, by distance and by its place in the queues of requests and of
replies, carries the stored phrase, or that none is on its way and the cache is right. Each
step of Dart, and each handler, moves one call from the head of one queue to the end of the
other; the lemmas `LatestTold`, `LatestCloser`, `LatestCached` and `LatestAside` of
`WalletManager_proofs` are the four things that can happen to it. `DerivesOK` is needed,
too: a call that was told a phrase is not refused its key, else the last one to be told
would never cache. On Android a phrase waits in a third queue, as a task that is executed
and not yet reported: `LastTells` says that the last of these has the stored phrase, and
then `Latest` need not hold yet. A store left by an ended process may still be executed; it
changes what is stored under an app that has cached nothing and been told nothing
(`Idling`), because tasks are executed in order and everything this process has asked for
is behind it. That is where the property needs Block Store to keep the order: with
`"reorder"` it is claimed for the preferences only.

The assumptions used are those the modules name: phrases are
disjoint from null and from the undecryptable value, and `NoCall` is not a call.

The contract. `ContractImplemented` says on both platforms that the SDK implements
`WalletContract`, `Spec => ContractHolds`, for every set of calls and phrases (and bound on
the Block Store calls), under `ContractAssumption`: phrases are valid, the app awaits each
call, it keeps to one storage location, and that location does what it is told, except
that Block Store may fail to store; with the keychain or the preferences the app may be
killed at any moment. A call is a chain of up to six platform calls, and one of them is the
step of the contract. The proof needs that what a call has read is still what is stored:
`Agrees` says for each await how the call's state and the store are related, `Alone` that
one call runs, and `LocationOK` that the other location is empty and stays so. The Dart
half is the same on both platforms: `DartServes` in `WalletManager_proofs` says that each
of its steps is, of the contract, a call that starts, one that returns what is stored, one
that throws, or none, provided that replies agree with what is stored. Each platform then
has one case per handler and, on Android, per task: `CInv` is kept and the step is one of
the contract or none. On Android a store takes effect when Block Store executes it, while
its call still waits and its listener has not run (`PlayedInCloud`); `MayStore` says that
such a store is allowed (nothing was stored, or the call was told to overwrite), and
`SteadyInv` of the moves says that no other store is on its way. When the listener reports
it (`ReportsInCloud`), the contract sees nothing.

The relay. `Relay_proofs` proves, for every set of calls, accounts, details and installations, with
any fault unless the list says otherwise:

- `TypeCorrect`: `Spec => []TypeOK`;
- `PayerChecked`: `Spec => []CheckedForPayer`;
- `ReturnedOnChain`: `Spec => []ReturnedMined`;
- `RetryIsSafe`: `Spec => []RetrySafe`;
- `NothingRefused`: `Spec => []NeverRefused`;
- `ContractImplemented`: `Spec => ContractHolds`, the refinement of `RelayContract`, where
  every installation is `Careful`: the app awaits each call and relays no details twice,
  and of the faults only these occur: a request that fails before the server has taken it,
  a refusal, a new worker, another wallet at any moment.

`CheckedForPayer` speaks of executed transactions and of two of the three wallets a
call has fetched; the invariant has to speak of the third and of the wallet of the
moment. `CheckOK` says that once the balance was read of another account than the
sender, the sender is not the wallet any more; that it cannot become the wallet again,
since senders are past wallets (`FieldsOK`) and, with `"return"` not among the faults,
`WalletReplaced` takes a new one; so that
the signer will not be the sender, and the server refuses. `PostedOK` ties the fate of a
transaction to the point its call has reached, and `AnswerOK` says what an answer on its
way may be. The proof has one lemma for a call that goes on (`AskKeeps`), ends
(`FinishKeeps`), is answered (`AnswerKeeps`) or failed (`FailKeeps`), one case per
action, and `Settled` for the chain. The assumptions are those of the module: null is
not an account, details name accounts, amounts are natural numbers.

The last two rest on a second invariant, `SerialInv`, kept where the app is `Careful`. One
call runs (`Alone`), and only its own transaction can be pending, so the chain stands still
between its reads and its effect: a balance it has read is the balance, and the nonce of its
permit the token's, until the transaction is executed (`ReadOK`); its request has the
forwarder's next nonce (`TxOK`) and gas that was lowered once (`CutOK`, for which
`DetailsOK` says that details belong to one call). So none reverts, and the step that mines
it (`SerialMine`) is `Claim`, `Transfer` or `Relay` of the contract; every other step is a
call, a return, a throw without effect or a stutter. `QuietOK` adds, where nothing fails,
that the wallet, the worker and the nonce of the request are those the server compares.

The C library and the fees.

- `KeysAndFees_proofs` proves `CachedChild`, `HDSpec => []CachedAsDerived`, for every curve, mac,
  set of paths and size of the ring. The ring outlives the roots it was filled for. The
  invariant, `CacheIsSound`, is that each entry is the node at its own path below the
  root the *ring* remembers; an entry that is found has the wanted path, and a ring
  whose root differs is cleared first.
- It also proves `HDSpec => []PublicFollowsPrivate` (`PublicDerivation`) and its invariant
  (`KeysAreKeys`): each node, the root and the child, is a private key with its own public
  key or none, or a public key, and neither is zero or the point at infinity. Both
  derivations of a child make the same mac of the same public key, refuse the same halves
  and add the left half to the same number. The code makes refused macs again for as long
  as it takes; that this ends is assumed (`MacAssumption`): macs are pairs of halves, and
  no set of halves that are all refused leads only into itself. The mac of `computations`
  refuses some and satisfies it. `RetryExists` and `RetryEnds` solve the recursion.
- It also proves about the algorithm of `bn_inverse` that it ends with the
  inverse (`InverseComputed`), that the result needs no reduction (`ResultIsReduced`) and
  that the registers hold both numbers (`RegistersShared`). The invariant is
  `u * s + v * r = prime` and two congruences, `x * r = -u * 2^k` and `x * s = v * 2^k`.
  Primes are assumed prime in Euclid's words, and to divide no power of two. That the
  code's words are this algorithm, `InverseByAlgorithm`, is model-checked.
- Of the fees it proves `FeesLast`: from base fees of eight wei or more, and
  any tips, the maximal fee lasts for five blocks. A block raises the base fee by an
  eighth at most, and 9/8 to the fifth power is below two; the base fee may have risen
  before the price is read, and then as many blocks fewer are left.
- Of the details it proves `Spec => []TypeOK` (`DetailsTyped`), `Spec => []GasAsEstimated`
  (`RequestAsEstimated`) and, where a byte costs 16 and the SDK's own call data has at most
  750 bytes (`ShortCalls`; its largest call has fewer than 300), `Spec => []GasCoversCall`
  (`RequestCoversCall`). The
  gas is a number, then a text, then a number again, twice: `HexParsed` and `DecimalParsed`
  say that the text of any number is read as that number, in both radices and with the
  prefix or without. The invariant, `GasInv`, relates the text in the details to the
  estimate and to how often they have been relayed.
- `HashStream_proofs` proves `StreamSpec => []HashesMessage` (`MessageIsHashed`) for all
  five algorithms, for every size of bytes, words and blocks, every message and every
  sequence of chunks. The invariant, `HashInv`, sees what has come as the beginning of a
  stream: until Final, the chain holds the complete blocks of the stream, the buffer begins
  with the bytes after them, whatever it holds behind those (old blocks in either order of
  bytes), and the count is that of the bytes, or of their bits, in one counter or in two
  words with a carry (`Absorbs`); afterwards what was returned is what is expected, and a
  sponge is closed (`Returned`). One lemma (`AbsorbsBlocks`) says what any Update makes of
  its data. Final is shown to go on with the stream of the padded message: one block or
  two, the length with its high word first or its low byte first, also when the number of
  bits has wrapped around two words, and in a sponge the mark and the last bit in one byte
  or in two. `CountsAssumption` says what the sizes of the standards satisfy: a block's
  number of bits divides the values of a word, without which a count that wraps would lose
  its place in the block, and a chunk of RIPEMD-160 has a length of one word, which is
  what `ripemd160_Update` takes. The law of exponents, for the powers that are written in
  the model, is `PowersAssumption`, since the provers know no powers.
- It also proves `SeedSpec => []SeedIsDefined` (`SeedComputed`): the seed of a phrase is
  PBKDF2 with HMAC as RFC 2898 and RFC 2104 define them, whatever was asked for before. The
  definition hashes each padded key and digest as a message; the code hashes the two keys
  once (`HmacPrepare`), starts a context behind them on a buffer that was never set
  (`SaltedIs`), and from then on transforms blocks it put together itself: `BlockAndDigest`
  shows that a digest with its mark and its length is the last block of what the standard
  pads, so that `IterateIs`, one `Iterate` is one more hash of the definition, holds. The
  code adds the hashes as words, the definition as bytes (`XorOfDigests`, bit by bit). The
  invariant, `SeedInv`, is that the context of a seed that is computed in parts is the state
  behind as many hashes as lie behind its parts (`At`, with the first call one round
  shorter, as the first hash is made before it), and that every entry of the ring is defined.
  `StretchAssumption` says that a block has room for a digest, the mark and the length, and
  that the lengths of two blocks fit into a word; `SeedAssumption` that the parts divide the
  rounds, as 16 does 2048. That the compression function returns words (`DigestsAreWords`)
  is a hypothesis of the theorem: TLC cannot try every chain of blocks. The one of
  `computations` ends in `% Radix` and satisfies it.
- `AesModes_proofs` proves `ModesSpec => []CipherStreams` (`MessagesStream`): in every mode
  and in both directions, what is put out is what the mode makes of the whole message,
  however the message is cut into calls; for every size of bytes, blocks and buffers, every
  message and every cipher that can be undone. The invariant, `StreamHolds`, says where a
  context stands that was passed `k * BlockBytes + p` bytes: at place `p` of block `k + 1`
  of the mode's chain (`Placed`, `PassedTo`). In CBC the iv is the cipher block before it
  (`BlockHolds`). In CFB and OFB it is, between two blocks, what is enciphered next, and
  inside a block that block enciphered, in which each byte that was used has been replaced by
  the one that is fed back (`Mixed`, `FeedHolds`). In CTR it is the
  counter of the block (`CtrHolds`), and here a place is not unique: the code leaves `b_pos`
  at the end of a block and counts only when more comes, so the end of one block and the
  beginning of the next are both where `k` blocks end. That carrying into the bytes before
  is adding one, also where the counter wraps, is `CounterSteps`; that deciphering comes back
  is `XorTwice` and `XorBack`. A call goes by the rest of a block, whole blocks or buffers of
  them, and the beginning of the next (`BlocksHold`, `FeedCalls`, `CtrCalls`, together
  `CryptPlaces`); one that ECB or CBC refuses changes nothing but its answer. The assumptions
  are that `Encipher` makes blocks of blocks and `Decipher` undoes it (`CipherAssumption`;
  the failure of `aes_encrypt` for a key that was never set is not modelled), and the law of
  exponents for the powers in the counter (`CounterAssumption`). The lemmas about quotients,
  powers and the bits of an exclusive or are those of `HashStream_proofs`, with the
  assumptions of `HashContext` on its sizes.

Texts are read and written by recursion over their digits. The induction theorems of the
library take an operator as a parameter, which the provers cannot fill in; `Induction` has
them for *sets*: a set of numbers that has zero and with each number the next is all of
`Nat` (`SetInduction`), because one that lacked a number would have a smallest that it
lacks. A definition is proved for every number by taking the set of those it holds for. That
a recursive function exists, so that its equation may be used, is proved in the same way:
`PrimitiveRecursion` from the sequence of its approximations, and `GeneralRecursion` for a
value that depends on all smaller ones.

Model-checked only, of the C library:

- `NumbersAgree` and `InverseByAlgorithm`, loops over limbs with their carries, and
  `DecodesBack`, loops over the digits of texts, of numbers to 58 and of groups of eleven
  bits: for these `Induction` opens the way, function by function;
- `MultipliesPoint`, `SignaturesVerify` and `VerifiesAsDefined`, which besides need that the
  points of a curve are a group; the provers know nothing of that;
- `BlocksAsDefined`, which compares tables of full size with a definition on a few inputs.

Liveness and what else needs `ENABLED` are out of this prover's reach.

## Not modelled

`getPlatformVersion` and `getBundleId` (no state); the text of phrases and addresses;
exceptions that stop the Android app (an uncaught `GeneralSecurityException`, the
second reply to one Flutter `Result`): the app's death is a step of its own
(`AppKilled`); `EncryptedSharedPreferencesHelper.kt` (imported, never used); the
example app.

Of Dart: what is encoded, hashed and signed in a relay request, a permit, a meta
transaction and a zkSync transaction. These functions build bytes from fields, have no
state, and what the other side makes of them is not in the repository: a model could
only repeat them. For the same reason no property speaks of the permit's deadline, which
is in milliseconds (`permit_transaction.dart:237`), of a fraction longer than the token's
decimals (`gsn_tx_helpers.dart:332`), or of private keys of 31 or 33 bytes
(`FlutterSdkPlugin.kt:128`); they are among the hazards.

Of the C library: functions that only pass their arguments on or print
(`mnemonic_generate`, `hdnode_sign`, `ecdsa_sign`, `ecdsa_verify`, the `End` and `Data`
functions); RFC 6979, whose nonces are a choice of `Ecdsa`; the alternatives the build
leaves out. The word list is a bijection of words and numbers. The values of the round
constants of SHA-2 do not matter to the properties and are parameters.

Callers of the C library must keep to these conditions, which the code does not test; the
models assume them:

- `bn_inverse` is not given zero, on which it does not end;
- `base58_decode_check` is not given a text with more leading ones than its buffer has
  bytes (`Overlong`);
- `hdnode_private_ckd_cached` gets paths of at most `BIP32_CACHE_MAXDEPTH` and one numbers;
- a node that `hdnode_public_ckd` refuses is not used again: its private key is cleared
  first;
- a node that is written as text is not deeper than 255, as its depth is one byte there;
- `ecdsa_sig_to_der` is not given a part that is all zero.

## Plan

Done: the wallet on both platforms with its contract, `Relay` with its contract,
`TransactionDetails`, and the C library; theorems of every safety property of the wallet and
the relay that a run checks, the contracts of both platforms and of the relay, the ring of
parents and the public derivation, the almost inverse, the hashing of messages, the seed of
a phrase, the modes of AES, the gas and the fees.

What is left, in the order of use:

1. `NumbersAgree` for all sizes of limbs, function by function, once the loops of `Bignum`
   can be proved about;
2. the exact decimal arithmetic of `parseUnits` and `balanceToDouble`.
