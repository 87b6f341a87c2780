---------------------------- MODULE Computations ----------------------------
(* The computations that nothing interrupts: the details of a transaction   *)
(* (Dart), and what the iOS plugin calls in its C library, each a machine   *)
(* of its own.  One of them is at work; the others rest in an initial state.*)
EXTENDS TransactionDetails, HashStream, MnemonicSeed, NumberRegister, BignumInverse,
        PointMultiply, Ecdsa, HDNode, Encodings, AesModes, BlockFunctions

VARIABLE part   \* the machine that is at work

computationVars ==
  <<part, vars, streamVars, seedVars, registerVars, registerState, multiplyVars, signVars,
    hdVars, coding, stream, primitive>>

-----------------------------------------------------------------------------
\* A machine that rests has the first of its initial states.
RestDetails ==
  /\ maker = CHOOSE m \in Makers : TRUE
  /\ payload = CHOOSE p \in Payloads[maker] : TRUE
  /\ cost = CHOOSE c \in Costs : TRUE
  /\ base = CHOOSE b \in BaseFees : TRUE
RestStream == algorithm = CHOOSE h \in Hashes : TRUE
RestNumber ==
  /\ modulus = CHOOSE m \in Moduli : TRUE
  /\ number = ReadBE(CHOOSE words \in StartWords : TRUE)
RestInverse == inverseOf = CHOOSE input \in InverseInputs : TRUE
RestMultiply ==
  /\ scalar = FALSE /\ curveIs = CHOOSE c \in Curves : TRUE
  /\ factor = CHOOSE f \in Factors : f < curveIs.order
  /\ baseMultiple = CHOOSE m \in BasePoints : TRUE
RestSign ==
  signing = [curve |-> CHOOSE c \in SigningCurves : TRUE,
             key |-> CHOOSE key \in PrivateKeys : \A other \in PrivateKeys : key <= other,
             digest |-> CHOOSE d \in DigestValues : TRUE]
RestNode == keyRoot = FromSeed(CHOOSE seed \in Seeds : TRUE)
RestMode == stream = Opened(CHOOSE mode \in Modes : TRUE)
RestBlock == primitive = Fresh("sha3")

RestsIn(machine, first) == IF part = machine THEN TRUE ELSE first

ComputationsInit ==
  /\ part \in {"details", "hash", "seed", "number", "inverse", "multiply", "sign", "node",
               "text", "mode", "block"}
  /\ RestsIn("details", RestDetails) /\ Init
  /\ RestsIn("hash", RestStream) /\ StreamInit
  /\ SeedInit
  /\ RestsIn("number", RestNumber) /\ RegisterInit
  /\ RestsIn("inverse", RestInverse) /\ BignumInverseInit
  /\ RestsIn("multiply", RestMultiply) /\ MultiplyInit
  /\ RestsIn("sign", RestSign) /\ SignInit
  /\ RestsIn("node", RestNode) /\ HDInit
  /\ EncodingInit
  /\ RestsIn("mode", RestMode) /\ ModesInit
  /\ RestsIn("block", RestBlock) /\ BlocksInit

-----------------------------------------------------------------------------
\* The others keep their state.
Rests(machine, state) == IF part = machine THEN TRUE ELSE UNCHANGED state
AtWork(machine) ==
  /\ part = machine /\ UNCHANGED part
  /\ Rests("details", vars) /\ Rests("hash", streamVars) /\ Rests("seed", seedVars)
  /\ Rests("number", registerVars) /\ Rests("inverse", registerState)
  /\ Rests("multiply", multiplyVars) /\ Rests("sign", signVars) /\ Rests("node", hdVars)
  /\ Rests("text", coding) /\ Rests("mode", stream) /\ Rests("block", primitive)

DetailsStep == AtWork("details") /\ Next
HashStep == AtWork("hash") /\ StreamNext
SeedStep == AtWork("seed") /\ SeedNext
NumberStep == AtWork("number") /\ RegisterNext
InverseStep == AtWork("inverse") /\ BignumInverseNext
MultiplyStep == AtWork("multiply") /\ MultiplyNext
SignStep == AtWork("sign") /\ SignNext
NodeStep == AtWork("node") /\ HDNext
TextStep == AtWork("text") /\ EncodingNext
ModeStep == AtWork("mode") /\ ModesNext
BlockStep == AtWork("block") /\ BlocksNext

ComputationsNext ==
  \/ DetailsStep \/ HashStep \/ SeedStep \/ NumberStep \/ InverseStep \/ MultiplyStep
  \/ SignStep \/ NodeStep \/ TextStep \/ ModeStep \/ BlockStep

ComputationsSpec == ComputationsInit /\ [][ComputationsNext]_computationVars

=============================================================================
