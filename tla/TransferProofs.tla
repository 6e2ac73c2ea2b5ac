--------------------------- MODULE TransferProofs ---------------------------
(***************************************************************************)
(* Proofs about the unsigned transactions of Transfer, for every address,  *)
(* amount, fee and answer of the network.                                  *)
(***************************************************************************)
EXTENDS Transfer, TLAPS

\* Products of naturals are left alone by the SMT solver.
LEMMA ProductIsNat == \A m, n \in Nat : m * n \in Nat
  OBVIOUS

\* parseUnits has at most one result, a natural number.
LEMMA UnitsAreNat ==
  ASSUME NEW amount \in Entered, NEW unit \in Nat \ {0}, NEW a \in ParseUnits(amount, unit)
  PROVE  a \in Nat /\ ParseUnits(amount, unit) = {a}
  <1>1. amount.n \in Nat /\ amount.part \in Nat \ {0}
    BY DEF Entered
  <1>2. unit \div amount.part \in Nat
    BY <1>1
  <1>3. a = amount.n * (unit \div amount.part) /\ ParseUnits(amount, unit) = {a}
    BY DEF ParseUnits
  <1> QED
    BY <1>1, <1>2, <1>3, ProductIsNat

LEMMA WeiIsNat ==
  ASSUME NEW intent \in Intent, NEW wei \in Wei(intent)
  PROVE  wei \in Nat /\ Wei(intent) = {wei} /\ Raw(intent) = {wei}
  BY UnitsAreNat, UnitsPositive, TokenHasEtherDecimals DEF Intent, Wei, Raw

LEMMA FeesAreNat ==
  ASSUME NEW net \in Network
  PROVE  Tip(net) \in Nat /\ MaxFee(net) \in Nat
  BY NullIsNoFee, GasPositive DEF Network, Fee, Tip, MaxFee

LEMMA Erc20GasIsNat ==
  ASSUME NEW net \in Network
  PROVE  Erc20Gas(net) \in Nat
  BY NullIsNoFee, GasPositive DEF Network, Fee, Erc20Gas, Padded

LEMMA BuiltIsTx ==
  ASSUME NEW net \in Network, NEW to \in Addresses, NEW value \in Nat, NEW data \in CallData,
         NEW gas \in Nat
  PROVE  Eip1559Transfer(to, value, data, gas, net) \in Tx
  BY FeesAreNat DEF Eip1559Transfer, Tx, Network

\* What the two prepare functions that normal withdraws use return.
LEMMA PreparedEth ==
  ASSUME NEW net \in Network, NEW from \in Addresses, NEW to \in Addresses, NEW amount \in Nat,
         NEW tx \in PrepareAmount(from, to, amount, net)
  PROVE  /\ tx = Eip1559Transfer(to, amount, NoCall, TransferGas, net)
         /\ tx \in Tx
         /\ amount > 0 /\ net.chainId = SepoliaChain
         /\ net.balance >= amount + FeeWei(net, TransferGas)
  <1>1. /\ tx = Eip1559Transfer(to, amount, NoCall, TransferGas, net)
        /\ amount > 0 /\ net.chainId = SepoliaChain
        /\ net.balance >= amount + FeeWei(net, TransferGas)
    BY DEF PrepareAmount
  <1>2. NoCall \in CallData /\ TransferGas \in Nat
    BY GasPositive DEF CallData
  <1> QED
    BY <1>1, <1>2, BuiltIsTx

LEMMA PreparedToken ==
  ASSUME NEW net \in Network, NEW from \in Addresses, NEW recipient \in Addresses,
         NEW token \in Addresses, NEW amount \in Nat,
         NEW tx \in PrepareErc20(from, recipient, token, amount, net)
  PROVE  /\ tx = Eip1559Transfer(token, 0, TransferCall(recipient, amount), Erc20Gas(net), net)
         /\ tx \in Tx
         /\ amount > 0 /\ net.chainId = SepoliaChain
         /\ net.balance >= FeeWei(net, Erc20Gas(net)) /\ net.tokenBalance >= amount
  <1>1. /\ tx = Eip1559Transfer(token, 0, TransferCall(recipient, amount), Erc20Gas(net), net)
        /\ amount > 0 /\ net.chainId = SepoliaChain
        /\ net.balance >= FeeWei(net, Erc20Gas(net)) /\ net.tokenBalance >= amount
    BY DEF PrepareErc20
  <1>2. TransferCall(recipient, amount) \in CallData /\ 0 \in Nat
    BY DEF CallData, TransferCall
  <1> QED
    BY <1>1, <1>2, BuiltIsTx, Erc20GasIsNat

---------------------------------------------------------------------------

\* No answer of the API, of whatever form, makes the browser sign anything but
\* the asset, the recipient and the amount that the user entered, on Sepolia.
THEOREM SignedIsIntended ==
  ASSUME NEW intent \in Intent, NEW answer, NEW d \in AssertWysiwys(intent, answer)
  PROVE  Does(d, intent) /\ d = answer.digest
  <1>1. PICK c \in Normalized(answer.tx.data), wei \in Wei(intent) :
            /\ d = Rebuilt(answer.tx, c) /\ d = answer.digest
            /\ ShowsIntent(intent, wei, answer.tx, c)
    BY DEF AssertWysiwys
  <1>2. wei \in Raw(intent)
    BY WeiIsNat
  <1>3. CASE intent.asset = "ERC20"
    BY <1>1, <1>2, <1>3 DEF ShowsIntent, Rebuilt, Does, Decimal
  <1>4. CASE intent.asset = "ETH"
    BY <1>1, <1>2, <1>4 DEF ShowsIntent, Rebuilt, Does, Decimal
  <1> QED
    BY <1>1, <1>3, <1>4 DEF Intent

\* The stored fields of a transaction rebuild it.
LEMMA RebuiltFromStored ==
  ASSUME NEW tx \in Tx, tx.chainId = SepoliaChain
  PROVE  Rebuilt(Stored(tx), tx.data) = tx
  BY DEF Rebuilt, Stored, Decimal, Tx

\* txFromStoredFields of what txFieldsForStorage wrote is the transaction: the
\* bytes that complete broadcasts are those of the digest that was signed.
THEOREM StoredSurvives ==
  ASSUME NEW tx \in Tx, tx.chainId = SepoliaChain
  PROVE  FromStored(Stored(tx)) = {tx}
  <1>1. /\ Stored(tx).chainId = SepoliaChain
        /\ Normalized(Stored(tx).data) = {tx.data}
    BY DEF Stored, Normalized
  <1>2. FromStored(Stored(tx)) =
          {[to |-> tx.to, value |-> tx.value, nonce |-> tx.nonce, gas |-> tx.gas,
            maxFee |-> tx.maxFee, tip |-> tx.tip, chainId |-> tx.chainId, data |-> tx.data]}
    BY <1>1 DEF FromStored, Stored, Decimal
  <1>3. tx = [to |-> tx.to, value |-> tx.value, nonce |-> tx.nonce, gas |-> tx.gas,
              maxFee |-> tx.maxFee, tip |-> tx.tip, chainId |-> tx.chainId, data |-> tx.data]
    BY DEF Tx
  <1> QED
    BY <1>2, <1>3

\* The answer that an honest API gives for the transaction it prepared.
HonestAnswer(tx, wei) == [tx |-> Stored(tx), digest |-> tx, amountWei |-> Decimal(wei)]

LEMMA ShownIsSigned ==
  ASSUME NEW intent \in Intent, NEW wei \in Wei(intent), NEW tx \in Tx, tx.chainId = SepoliaChain,
         ShowsIntent(intent, wei, Stored(tx), tx.data)
  PROVE  AssertWysiwys(intent, HonestAnswer(tx, wei)) = {tx}
  <1>1. Normalized(Stored(tx).data) = {tx.data} /\ Stored(tx).chainId = SepoliaChain
    BY DEF Stored, Normalized
  <1>2. Rebuilt(Stored(tx), tx.data) = tx
    BY RebuiltFromStored
  <1> QED
    BY <1>1, <1>2 DEF AssertWysiwys, HonestAnswer

\* The browser refuses no honest answer: whatever the fees, the nonce and the
\* gas estimate are, what the API prepares for an intent passes the check.
THEOREM HonestPasses ==
  ASSUME NEW net \in Network, NEW from \in Addresses, NEW intent \in Intent, NEW wei \in Wei(intent),
         NEW tx \in IF intent.asset = "ETH"
                    THEN PrepareAmount(from, intent.to, wei, net)
                    ELSE PrepareErc20(from, intent.to, intent.token, wei, net)
  PROVE  AssertWysiwys(intent, HonestAnswer(tx, wei)) = {tx}
  <1>0. /\ intent.to \in Addresses /\ intent.token \in Addresses /\ wei \in Nat
        /\ intent.asset \in {"ETH", "ERC20"}
    BY WeiIsNat DEF Intent
  <1>1. CASE intent.asset = "ETH"
    <2>1. tx \in PrepareAmount(from, intent.to, wei, net)
      BY <1>1
    <2>2. /\ tx = Eip1559Transfer(intent.to, wei, NoCall, TransferGas, net)
          /\ tx \in Tx /\ net.chainId = SepoliaChain
      BY <1>0, <2>1, PreparedEth
    <2>3. /\ tx.to = intent.to /\ tx.value = wei /\ tx.data = NoCall
          /\ tx.chainId = SepoliaChain
      BY <2>2 DEF Eip1559Transfer
    <2>4. ShowsIntent(intent, wei, Stored(tx), tx.data)
      BY <1>1, <2>3 DEF ShowsIntent, Stored
    <2> QED
      BY <2>2, <2>3, <2>4, ShownIsSigned
  <1>2. CASE intent.asset = "ERC20"
    <2>1. tx \in PrepareErc20(from, intent.to, intent.token, wei, net)
      BY <1>2
    <2>2. /\ tx = Eip1559Transfer(intent.token, 0, TransferCall(intent.to, wei), Erc20Gas(net), net)
          /\ tx \in Tx /\ net.chainId = SepoliaChain
      BY <1>0, <2>1, PreparedToken
    <2>3. /\ tx.to = intent.token /\ tx.value = 0 /\ tx.data = TransferCall(intent.to, wei)
          /\ tx.chainId = SepoliaChain
      BY <2>2 DEF Eip1559Transfer
    <2>4. ShowsIntent(intent, wei, Stored(tx), tx.data)
      BY <1>2, <2>3 DEF ShowsIntent, Stored
    <2> QED
      BY <2>2, <2>3, <2>4, ShownIsSigned
  <1> QED
    BY <1>0, <1>1, <1>2

\* A transaction of an amount, of a token or of the whole balance can be paid,
\* at the highest fee, from the balance that was read.
THEOREM PreparedIsAffordable ==
  ASSUME NEW net \in Network, NEW from \in Addresses, NEW to \in Addresses, NEW token \in Addresses,
         NEW amount \in Nat,
         NEW tx \in PrepareAmount(from, to, amount, net) \cup PrepareFull(from, to, net)
                       \cup PrepareErc20(from, to, token, amount, net)
                       \cup PrepareErc20Full(from, to, token, net)
  PROVE  Affordable(tx, net)
  <1>0. /\ MaxFee(net) \in Nat /\ net.balance \in Nat /\ net.tokenBalance \in Nat
        /\ TransferGas \in Nat /\ Erc20Gas(net) \in Nat
    BY FeesAreNat, Erc20GasIsNat, GasPositive DEF Network
  <1>1. FeeWei(net, TransferGas) \in Nat /\ FeeWei(net, Erc20Gas(net)) \in Nat
    BY <1>0, ProductIsNat DEF FeeWei
  <1>2. ASSUME NEW a \in Nat, NEW b \in PrepareErc20(from, to, token, a, net)
        PROVE  Affordable(b, net)
    <2>1. /\ b.value = 0 /\ b.gas = Erc20Gas(net) /\ b.maxFee = MaxFee(net)
          /\ net.balance >= FeeWei(net, Erc20Gas(net))
      BY <1>2, PreparedToken DEF Eip1559Transfer
    <2>2. b.gas * b.maxFee = FeeWei(net, Erc20Gas(net))
      BY <2>1 DEF FeeWei
    <2> QED
      BY <1>0, <1>1, <2>1, <2>2 DEF Affordable
  <1>3. CASE tx \in PrepareAmount(from, to, amount, net)
    <2>1. /\ tx.value = amount /\ tx.gas = TransferGas /\ tx.maxFee = MaxFee(net)
          /\ net.balance >= amount + FeeWei(net, TransferGas)
      BY <1>3, PreparedEth DEF Eip1559Transfer
    <2>2. tx.gas * tx.maxFee = FeeWei(net, TransferGas)
      BY <2>1 DEF FeeWei
    <2> QED
      BY <1>0, <1>1, <2>1, <2>2 DEF Affordable
  <1>4. CASE tx \in PrepareFull(from, to, net)
    <2>1. /\ tx.value = net.balance - FeeWei(net, TransferGas)
          /\ tx.gas = TransferGas /\ tx.maxFee = MaxFee(net)
      BY <1>4 DEF PrepareFull, Eip1559Transfer
    <2>2. tx.gas * tx.maxFee = FeeWei(net, TransferGas)
      BY <2>1 DEF FeeWei
    <2> QED
      BY <1>0, <1>1, <2>1, <2>2 DEF Affordable
  <1>5. CASE tx \in PrepareErc20Full(from, to, token, net)
    <2>1. tx \in PrepareErc20(from, to, token, net.tokenBalance, net)
      BY <1>5 DEF PrepareErc20Full
    <2> QED
      BY <1>0, <1>2, <2>1
  <1> QED
    BY <1>2, <1>3, <1>4, <1>5
=============================================================================
