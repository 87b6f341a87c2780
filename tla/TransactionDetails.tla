------------------------- MODULE TransactionDetails -------------------------
(***************************************************************************)
(* The gas and the fees of a relayed transaction: how the details are made *)
(* (getClaimTx, getPermitTx, getExecuteMetatransactionTx, or by the app),  *)
(* and the gas that buildRelayRequest puts into the request.               *)
(*                                                                         *)
(* Gas travels as text.  A text is a sequence of characters; a digit is    *)
(* the number it stands for.  Blocks go by while the node is asked.        *)
(***************************************************************************)
EXTENDS Integers, Sequences

CONSTANTS
  Makers,      \* who makes the details
  Payloads,    \* for each, the numbers of [zero, nonzero] bytes of its call data
  Costs,       \* the gas the call itself may need
  BaseFees,    \* the base fees there may be at first, Legacy for none
  Tips,        \* what a gas price may be above the base fee
  FixedTip,    \* 1500000000 wei
  gtxDataNonZero, gtxDataZero,  \* the price of a byte of call data
  MaxBlocks,   \* how many blocks go by after the details' block
  MaxRelays    \* how often the details are relayed

KnownMakers ==
  {"feeData",          \* getClaimTx, getPermitTx: FeeData.getFeeData
   "metaTransaction",  \* getExecuteMetatransactionTx: a fixed tip
   "app",              \* the app, with gas in hexadecimal
   "readme"}           \* the app, as the README shows it

Legacy == -1
Intrinsic == 21000  \* what a transaction without call data costs

ASSUME DetailsAssumption ==
  /\ Makers \subseteq KnownMakers
  /\ Payloads \in [Makers -> SUBSET [zero : Nat, nonzero : Nat]]
  /\ Costs \subseteq Nat /\ Tips \subseteq Nat /\ FixedTip \in Nat
  /\ BaseFees \subseteq Nat \cup {Legacy}
  /\ {gtxDataNonZero, gtxDataZero, MaxBlocks, MaxRelays} \subseteq Nat

VARIABLES
  maker, payload, cost,  \* what is relayed; they never change
  stage,      \* how far the details have come
  estimate,   \* the gas the node has estimated
  gas,        \* transaction.gas
  fees,       \* maxFeePerGas and maxPriorityFeePerGas
  block,      \* the base fee in the block that was read
  request,    \* the gas in the last relay request
  relays,     \* how often the details have been relayed
  base,       \* on chain: the base fee of the current block
  price,      \* the gas price that was read
  blocks      \* the blocks since the one that was read

detailVars == <<stage, estimate, gas, fees, block, price, request, relays>>
vars == <<maker, payload, cost, detailVars, base, blocks>>

-----------------------------------------------------------------------------
(* Texts.                                                                  *)

LetterX == 16
Minus == 17
Characters == 0 .. 17

\* The digits of a natural number.
Digits(n, radix) ==
  LET digits[k \in Nat] ==
        IF k < radix THEN <<k>> ELSE Append(digits[k \div radix], k % radix)
  IN digits[n]

\* BigInt.toRadixString.
Text(n, radix) == IF n < 0 THEN <<Minus>> \o Digits(-n, radix) ELSE Digits(n, radix)

Value(digits) ==
  LET value[i \in 0 .. Len(digits)] ==
        IF i = 0 THEN 0 ELSE 16 * value[i - 1] + digits[i]
  IN value[Len(digits)]

\* BigInt.parse with radix 16.
Parse(text) == IF Head(text) = Minus THEN -Value(Tail(text)) ELSE Value(text)

\* Mutant: the gas is prefixed but not converted.
HexOfDecimal(n) == <<0, LetterX>> \o Text(n, 10)

Hex(n) == <<0, LetterX>> \o Text(n, 16)

\* Mutant: one character too many is cut.
ParseGasShort(text) == Parse(SubSeq(text, 4, Len(text)))

\* int.parse(gas.substring(2), radix: 16), whatever the two characters are.
ParseGas(text) == Parse(SubSeq(text, 3, Len(text)))

-----------------------------------------------------------------------------
(* Gas and fees.                                                           *)

\* The call data is counted by the characters of its hexadecimal form, none of which
\* is the character 0.
CalculateCalldataCost(data) ==
  LET zeroBytes == 0
      nonzeroBytes == 2 * (data.zero + data.nonzero)
  IN zeroBytes * gtxDataZero + nonzeroBytes * gtxDataNonZero

EstimateGasWithoutCallData(text, data) == Hex(ParseGas(text) - CalculateCalldataCost(data))

\* What the node answers to eth_estimateGas.
NodeEstimate == Intrinsic + 4 * payload.zero + 16 * payload.nonzero + cost

PriorityFee(gasPrice, baseFee) == gasPrice + (gasPrice * 10) \div 100 - baseFee

\* Mutant: the base fee is not doubled.
MaxFeeOfBase(baseFee, priority) == baseFee + priority

MaxFee(baseFee, priority) == baseFee * 2 + priority

-----------------------------------------------------------------------------
Init ==
  /\ maker \in Makers
  /\ payload \in Payloads[maker]
  /\ cost \in Costs
  /\ base \in BaseFees
  /\ stage = "estimate"
  /\ estimate = 0
  /\ gas = <<>>
  /\ fees = [max |-> 0, priority |-> 0]
  /\ block = 0 /\ price = 0
  /\ request = 0 /\ relays = 0
  /\ blocks = 0

\* The node's estimate becomes the gas.
GasEstimated ==
  /\ stage = "estimate"
  /\ stage' = "block"
  /\ estimate' = NodeEstimate
  /\ gas' = IF maker = "readme" THEN Text(NodeEstimate, 10) ELSE Hex(NodeEstimate)
  /\ UNCHANGED <<maker, payload, cost, fees, block, price, request, relays, base, blocks>>

\* Mutant: a block without a base fee is used.
LegacyBlockUsed ==
  /\ stage = "block"
  /\ block' = base
  /\ IF maker = "feeData"
     THEN stage' = "price" /\ UNCHANGED fees
     ELSE /\ stage' = "made"
          /\ fees' = [max |-> MaxFee(base, FixedTip), priority |-> FixedTip]
  /\ blocks' = 0
  /\ UNCHANGED <<maker, payload, cost, estimate, gas, price, request, relays, base>>

\* The block's information.  Without a base fee, maxFeePerGas would be null: all throw.
BlockRead ==
  /\ stage = "block"
  /\ block' = base
  /\ IF base = Legacy
     THEN stage' = "threw" /\ UNCHANGED fees
     ELSE IF maker = "feeData"
     THEN stage' = "price" /\ UNCHANGED fees
     ELSE /\ stage' = "made"
          /\ fees' = [max |-> MaxFee(base, FixedTip), priority |-> FixedTip]
  /\ blocks' = 0
  /\ UNCHANGED <<maker, payload, cost, estimate, gas, price, request, relays, base>>

\* The gas price, of a later block perhaps.
PriceRead ==
  /\ stage = "price"
  /\ stage' = "made"
  /\ \E tip \in Tips :
       LET priority == PriorityFee(base + tip, block) IN
       /\ price' = base + tip
       /\ fees' = [max |-> MaxFee(block, priority), priority |-> priority]
  /\ UNCHANGED <<maker, payload, cost, estimate, gas, block, request, relays, base, blocks>>

\* buildRelayRequest lowers the gas of the details and puts it into the request.
BuildRelayRequest ==
  /\ stage = "made"
  /\ relays < MaxRelays
  /\ relays' = relays + 1
  /\ gas' = EstimateGasWithoutCallData(gas, payload)
  /\ request' = ParseGas(gas')
  /\ UNCHANGED <<maker, payload, cost, stage, estimate, fees, block, price, base, blocks>>

\* A block changes the base fee by an eighth at most.  Blocks before the one that is
\* read make no difference: the first base fee is any.
NextBlock ==
  /\ stage \in {"price", "made"}
  /\ blocks < MaxBlocks
  /\ blocks' = blocks + 1
  /\ LET eighth == base \div 8 IN
     base' \in {base - eighth, base, base + IF eighth = 0 THEN 1 ELSE eighth}
  /\ UNCHANGED <<maker, payload, cost, detailVars>>

Next == GasEstimated \/ BlockRead \/ PriceRead \/ BuildRelayRequest \/ NextBlock

Spec == Init /\ [][Next]_vars

-----------------------------------------------------------------------------
\* The details and the chain are of their types; in particular the fees are those of a
\* block with a base fee.
TypeOK ==
  /\ maker \in Makers /\ payload \in Payloads[maker] /\ cost \in Costs
  /\ stage \in {"estimate", "block", "price", "made", "threw"}
  /\ {estimate, relays, blocks, price} \subseteq Nat
  /\ gas \in Seq(Characters)
  /\ {fees.max, fees.priority, request} \subseteq Int
  /\ stage \in {"price", "made"} => block \in Nat
  /\ base \in Nat \cup {Legacy}

Lowered(n) == estimate - n * CalculateCalldataCost(payload)

\* Where the gas is given in hexadecimal, the request asks for the estimate less the call
\* data's cost for each time the details have been relayed: twice, if they are relayed
\* again, and also where that is negative.
GasAsEstimated ==
  relays > 0 /\ maker # "readme" => request = Lowered(relays)

\* The request made for the SDK's own calls has the gas the call itself needs, although
\* the call data is charged by its characters.
GasCoversCall ==
  relays = 1 /\ maker \in {"feeData", "metaTransaction"} => request >= cost

\* The maximal fee covers the base fee of five blocks after the one that was read, even
\* if the gas price was read after the base fee had changed.
FeeLasts == stage = "made" /\ blocks <= 5 => base <= fees.max

\* README.md:71 gives the estimate to GsnTransactionDetails with gas.toString().
GasAsDocumented == relays = 1 => request = Lowered(1)

=============================================================================
