------------------------ MODULE MCTransactionDetails ------------------------
(* Instances of TransactionDetails for TLC.                                 *)
EXTENDS TransactionDetails

Bytes(zero, nonzero) == [zero |-> zero, nonzero |-> nonzero]

\* The SDK's calls: claim() or permit(...), and executeMetaTransaction(...) of a
\* transfer, with as few and as many zero bytes as there may be.  The app's: a short
\* one, and one of 800 zero bytes.
CallData ==
  [m \in Makers |->
     CASE m = "feeData" -> {Bytes(0, 4), Bytes(0, 228), Bytes(224, 4)}
       [] m = "metaTransaction" -> {Bytes(0, 292), Bytes(288, 4)}
       [] m = "app" -> {Bytes(32, 36), Bytes(800, 0)}
       [] m = "readme" -> {Bytes(0, 4), Bytes(32, 36)}]

FirstBaseFees == {Legacy, 8, 100, 250}

=============================================================================
