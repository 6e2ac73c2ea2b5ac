------------------------------ MODULE Transfer ------------------------------
(***************************************************************************)
(* The unsigned transaction of a withdraw: how the API builds it           *)
(* (eth-transfer.ts), stores it as JSON and builds it again, and how the   *)
(* browser rebuilds it from the answer of sign/start and compares it with  *)
(* what the user entered (wysiwys.ts).                                     *)
(*                                                                         *)
(* An operator whose code may throw returns the set of its results: one    *)
(* result, or none when it throws. keccak256 has no collisions, so the     *)
(* digest of a transaction is the transaction. An address is a value, and  *)
(* getAddress is the equality of addresses.                                *)
(***************************************************************************)
EXTENDS Integers, Sequences

CONSTANTS
    Addresses,
    Null,             \* a fee the node does not report
    SepoliaChain,     \* SEPOLIA_CHAIN_ID
    TransferGas,      \* TRANSFER_GAS_LIMIT
    FallbackGas,      \* ERC20_TRANSFER_GAS_FALLBACK
    OneGwei,          \* the tip when the node reports none
    EtherUnit,        \* wei of one ETH
    TokenUnit         \* base units of one token, from its decimals()

ASSUME NullIsNoFee == Null \notin Nat
ASSUME GasPositive == /\ SepoliaChain \in Nat /\ TransferGas \in Nat \ {0}
                      /\ FallbackGas \in Nat \ {0} /\ OneGwei \in Nat

ASSUME UnitsPositive == EtherUnit \in Nat \ {0} /\ TokenUnit \in Nat \ {0}

\* "TTK, 18 decimals" (README.md:107). The code reads the amount of a token as
\* if it were ETH, so it is right for such a token only.
ASSUME TokenHasEtherDecimals == TokenUnit = EtherUnit

Fee == Nat \cup {Null}

\* What the API reads of the node before it builds a transaction. estimate is
\* the answer of estimateGas, Null when that call fails.
Network == [balance : Nat, nonce : Nat, chainId : Nat, hasCode : BOOLEAN, tokenBalance : Nat,
            estimate : Fee, tip : Fee, maxFee : Fee, gasPrice : Fee]

\* Call data: none, or transfer(to, amount).
NoCall == <<>>
TransferCall(to, amount) == <<to, amount>>
CallData == {NoCall} \cup (Addresses \X Nat)

Tx == [to : Addresses, value : Nat, nonce : Nat, gas : Nat, maxFee : Nat, tip : Nat,
       chainId : Nat, data : CallData]

\* Call data on the wire: hex in either case, missing, or not hex.
HexText == [text : {"lower", "upper", "bad"}, call : CallData]

\* A decimal string: toString makes the canonical one of a number, BigInt
\* reads every other one, too.
Numeral == [n : Nat, canonical : BOOLEAN]
Decimal(n) == [n |-> n, canonical |-> TRUE]

Fields == [to : Addresses, value : Numeral, nonce : Nat, gas : Nat, maxFee : Nat, tip : Nat,
           chainId : Nat, data : HexText]

---------------------------------------------------------------------------
(* eth-transfer.ts *)

Tip(net) == IF net.tip = Null THEN OneGwei ELSE net.tip

\* A gas price of zero counts as missing.
MaxFee(net) == IF net.maxFee # Null THEN net.maxFee
               ELSE IF net.gasPrice \notin {Null, 0} THEN net.gasPrice * 2
               ELSE Tip(net) * 2

FeeWei(net, gas) == gas * MaxFee(net)

Eip1559Transfer(to, value, data, gas, net) ==
    [to |-> to, value |-> value, nonce |-> net.nonce, gas |-> gas, maxFee |-> MaxFee(net),
     tip |-> Tip(net), chainId |-> net.chainId, data |-> data]

\* prepareFullBalanceTransfer
PrepareFull(from, to, net) ==
    LET fee == FeeWei(net, TransferGas) IN
    IF from # to /\ net.balance > fee /\ net.chainId = SepoliaChain
    THEN {Eip1559Transfer(to, net.balance - fee, NoCall, TransferGas, net)} ELSE {}

\* prepareAmountTransfer
PrepareAmount(from, to, amount, net) ==
    IF /\ from # to /\ amount > 0
       /\ net.balance >= amount + FeeWei(net, TransferGas)
       /\ net.chainId = SepoliaChain
    THEN {Eip1559Transfer(to, amount, NoCall, TransferGas, net)} ELSE {}

Padded(net) == (net.estimate * 12) \div 10

\* A failed or a small estimate leaves the fallback.
Erc20Gas(net) == IF net.estimate # Null /\ Padded(net) > TransferGas THEN Padded(net) ELSE FallbackGas

\* prepareErc20AmountTransfer
PrepareErc20(from, recipient, token, amount, net) ==
    IF /\ from # recipient /\ recipient # token /\ amount > 0
       /\ net.chainId = SepoliaChain /\ net.hasCode
       /\ net.tokenBalance >= amount
       /\ net.balance >= FeeWei(net, Erc20Gas(net))
    THEN {Eip1559Transfer(token, 0, TransferCall(recipient, amount), Erc20Gas(net), net)} ELSE {}

\* prepareErc20FullBalanceTransfer
PrepareErc20Full(from, recipient, token, net) ==
    IF net.tokenBalance = 0 THEN {} ELSE PrepareErc20(from, recipient, token, net.tokenBalance, net)

\* normalizeTxData
Normalized(hex) == IF hex.text = "bad" THEN {} ELSE {hex.call}

\* Mutant: both fee caps are stored from one of them.
StoredOneFee(tx) ==
    [to |-> tx.to, value |-> Decimal(tx.value), nonce |-> tx.nonce, gas |-> tx.gas,
     maxFee |-> tx.maxFee, tip |-> tx.maxFee, chainId |-> tx.chainId,
     data |-> [text |-> "lower", call |-> tx.data]]

\* txFieldsForStorage
Stored(tx) ==
    [to |-> tx.to, value |-> Decimal(tx.value), nonce |-> tx.nonce, gas |-> tx.gas,
     maxFee |-> tx.maxFee, tip |-> tx.tip, chainId |-> tx.chainId,
     data |-> [text |-> "lower", call |-> tx.data]]

\* txFromStoredFields
FromStored(f) ==
    {[to |-> f.to, value |-> f.value.n, nonce |-> f.nonce, gas |-> f.gas, maxFee |-> f.maxFee,
      tip |-> f.tip, chainId |-> f.chainId, data |-> call] :
        call \in IF f.chainId = SepoliaChain THEN Normalized(f.data) ELSE {}}

---------------------------------------------------------------------------
(* wysiwys.ts *)

\* An entered decimal is n parts of a coin: "0.02" is two hundredths.
Entered == [n : Nat \ {0}, part : Nat \ {0}]

\* parseUnits throws when the decimal has more places than the coin.
ParseUnits(amount, unit) ==
    IF unit % amount.part = 0 THEN {amount.n * (unit \div amount.part)} ELSE {}

\* What the user entered: a positive amount of ETH or of a token.
Intent == [asset : {"ETH", "ERC20"}, to : Addresses, amount : Entered, token : Addresses]

\* parseWithdrawAmountToWei, of the API and of the browser: always as ETH.
Wei(intent) == ParseUnits(intent.amount, EtherUnit)

\* The base units that the modal compares with the balance it shows.
Raw(intent) == ParseUnits(intent.amount, IF intent.asset = "ETH" THEN EtherUnit ELSE TokenUnit)

\* The answer of sign/start that the browser signs for.
Answer == [tx : Fields, digest : Tx, amountWei : Numeral]

\* Mutant: call data of an ETH transfer is not compared.
ShowsIntentLoosely(intent, wei, f, call) ==
    \/ /\ intent.asset = "ERC20"
       /\ f.to = intent.token /\ f.value = Decimal(0)
       /\ call = TransferCall(intent.to, wei)
    \/ /\ intent.asset = "ETH"
       /\ f.to = intent.to /\ f.value = Decimal(wei)

\* The comparison with the entered asset, recipient and amount; numbers are
\* compared as strings.
ShowsIntent(intent, wei, f, call) ==
    \/ /\ intent.asset = "ERC20"
       /\ f.to = intent.token /\ f.value = Decimal(0)
       /\ call = TransferCall(intent.to, wei)
    \/ /\ intent.asset = "ETH"
       /\ f.to = intent.to /\ f.value = Decimal(wei)
       /\ call = NoCall

\* The transaction rebuilt from the fields.
Rebuilt(f, call) ==
    [to |-> f.to, value |-> f.value.n, nonce |-> f.nonce, gas |-> f.gas, maxFee |-> f.maxFee,
     tip |-> f.tip, chainId |-> SepoliaChain, data |-> call]

\* assertWysiwysDigest: the digest to sign.
AssertWysiwys(intent, answer) ==
    {Rebuilt(answer.tx, call) :
        call \in {c \in Normalized(answer.tx.data) :
                     /\ \E wei \in Wei(intent) : /\ answer.amountWei = Decimal(wei)
                                               /\ ShowsIntent(intent, wei, answer.tx, c)
                     /\ answer.tx.chainId = SepoliaChain
                     /\ Rebuilt(answer.tx, c) = answer.digest}}

---------------------------------------------------------------------------
(* What the transactions mean *)

\* On Sepolia a transaction moves its value to its recipient, and a call of
\* transfer moves an amount of the called token: as much as the user entered.
Does(tx, intent) ==
    /\ tx.chainId = SepoliaChain
    /\ \E raw \in Raw(intent) :
          IF intent.asset = "ETH"
          THEN tx.to = intent.to /\ tx.value = raw /\ tx.data = NoCall
          ELSE /\ tx.to = intent.token /\ tx.value = 0
               /\ tx.data = TransferCall(intent.to, raw)

\* The account can pay the value and the highest fee.
Affordable(tx, net) == tx.value + tx.gas * tx.maxFee <= net.balance
=============================================================================
