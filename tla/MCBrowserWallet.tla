-------------------------- MODULE MCBrowserWallet --------------------------
(***************************************************************************)
(* Instance of BrowserWallet for TLC: a wallet "own" in two tabs, an ETH   *)
(* and a token withdraw, a node that reports its fees and one that reports *)
(* none. Amounts and fees are a few units.                                 *)
(***************************************************************************)
EXTENDS BrowserWallet, TLC

MCIntents == {[asset |-> "ETH", to |-> "bob", amount |-> [n |-> 2, part |-> 10], token |-> "ttk"],
              [asset |-> "ERC20", to |-> "bob", amount |-> [n |-> 1, part |-> 10], token |-> "ttk"]}

Rich == [balance |-> 100, nonce |-> 1, chainId |-> SepoliaChain, hasCode |-> TRUE,
         tokenBalance |-> 1, estimate |-> 5, tip |-> 1, maxFee |-> 3, gasPrice |-> 2]

MCNets == {Rich, [Rich EXCEPT !.estimate = Null, !.tip = Null, !.maxFee = Null]}

Symmetry == Permutations(Tabs)

\* A closed row only matters by its status, and an EXECUTED one by what it sent.
View == <<wallet, shareB, shareA, view, job,
          IF row.status = "FAILED" THEN [status |-> "FAILED"] ELSE row>>
=============================================================================
