------------------------------ MODULE Contracts ------------------------------
(***************************************************************************)
(* contracts/ethereum_contracts.go composed with the client and the chain: *)
(* deploying contracts, funding and configuring them, each call being one  *)
(* or two transactions of EthereumClient.                                  *)
(*                                                                         *)
(* A contract is identified with the hash of the transaction that deploys  *)
(* it (the address is a function of wallet and nonce), 0 is the zero       *)
(* address.  `code' holds the contracts that exist; each caller is a       *)
(* process with a NetworkConfig (linkTokenAddress), a default wallet and   *)
(* the contract instances its deployments returned.                        *)
(***************************************************************************)
EXTENDS EthereumClient

CONSTANTS
  PaymentAmounts,   \* FluxAggregatorOptions.PaymentAmount
  FirstWallet,      \* the wallet of the first private key
  Values,           \* what Storage.Set is called with
  Programs,         \* caller -> the kinds of calls it makes; one is chosen
  Supply,           \* LinkToken's totalSupply
  NoContract        \* no code at an address

VARIABLES
  code,             \* address -> contract storage, or NoContract
  config,           \* caller -> Config().LinkTokenAddress
  defaultWallet,    \* caller -> Wallets.defaultWallet
  instances,        \* caller -> addresses its Deploy... calls returned
  program           \* the member of Programs that is run

callerVars == <<config, defaultWallet, instances, program>>
vars == <<clientVars, code, callerVars>>

Addresses == 0 .. MaxTxs
Holders == Wallets \cup Addresses
Deployable == {"LinkToken", "FluxAggregator", "OffchainAggregator", "Store", "VRF"}

Is(a, kind) == code[a] # NoContract /\ code[a].kind = kind

-----------------------------------------------------------------------------
(***************************************************************************)
(* The contracts, kept to what the wrappers set and read: constructors,    *)
(* what makes a call revert, and what it changes.  RESERVE_ROUNDS is 2;    *)
(* recordedFunds.available grows only with updateAvailableFunds and        *)
(* onTokenTransfer, which nothing here calls.  (Store is there only as     *)
(* bytecode, and VRF has no state.)                                        *)
(***************************************************************************)
LinkTokenConstructor(from) ==
  [kind |-> "LinkToken",
   balances |-> [a \in Holders |-> IF a = from THEN Supply ELSE 0]]

FluxAggregatorConstructor(call, from) ==
  [kind |-> "FluxAggregator", link |-> call.link, payment |-> call.payment,
   owner |-> from, available |-> 0, enabled |-> FALSE]

OffchainAggregatorConstructor(call, from) ==
  [kind |-> "OffchainAggregator", link |-> call.link,
   owner |-> from, payees |-> FALSE, configured |-> FALSE]

Deployed(call, from) ==
  CASE call.contract = "LinkToken" -> LinkTokenConstructor(from)
    [] call.contract = "FluxAggregator" -> FluxAggregatorConstructor(call, from)
    [] call.contract = "OffchainAggregator" -> OffchainAggregatorConstructor(call, from)
    [] call.contract = "Store" -> [kind |-> "Store", value |-> 0]
    [] call.contract = "VRF" -> [kind |-> "VRF"]

\* LinkToken: the zero address and the token itself receive nothing.
validRecipient(token, to) == to # 0 /\ to # token

\* LinkToken.transfer of one unit; SafeMath's sub reverts without a balance.
CanTransfer(token, from, to) ==
  validRecipient(token, to) /\ code[token].balances[from] >= 1

transfer(token, from, to) ==
  [code EXCEPT ![token].balances[from] = @ - 1, ![token].balances[to] = @ + 1]

\* FluxAggregator.changeOracles adding one oracle: by the owner, the oracle must
\* be new, and the available funds must cover two rounds.
CanChangeOracles(a, from) ==
  /\ from = code[a].owner
  /\ ~ code[a].enabled
  /\ code[a].available >= code[a].payment * 2

addOracle(a) == [code EXCEPT ![a].enabled = TRUE]

\* OffchainAggregator.setPayees (always of the same payees) and setConfig of a
\* valid configuration, whose transmitters must have payees.
CanSetPayees(a, from) == from = code[a].owner

setPayees(a) == [code EXCEPT ![a].payees = TRUE]

CanSetConfig(a, from) == from = code[a].owner /\ code[a].payees

setConfig(a) == [code EXCEPT ![a].configured = TRUE]

\* Whether the transaction of the call reverts when it is executed.  A call of an
\* address without code succeeds and does nothing.
Reverts(call, from) ==
  CASE call.kind = "FundEth" -> code[call.to] # NoContract    \* nothing is payable
    [] call.kind = "FundLink" ->
         Is(call.token, "LinkToken") /\ ~ CanTransfer(call.token, from, call.to)
    [] call.kind = "SetOracles" ->
         Is(call.to, "FluxAggregator") /\ ~ CanChangeOracles(call.to, from)
    [] call.kind = "SetPayees" ->
         Is(call.to, "OffchainAggregator") /\ ~ CanSetPayees(call.to, from)
    [] call.kind = "SetConfig" ->
         Is(call.to, "OffchainAggregator") /\ ~ CanSetConfig(call.to, from)
    [] OTHER -> FALSE

\* What the contracts are after the call of transaction h, when it does not
\* revert.  ETH that is received changes no contract.
Effect(h) ==
  LET call == txs[h].call
      from == txs[h].from
  IN  CASE call.kind = "Deploy" -> [code EXCEPT ![h] = Deployed(call, from)]
        [] call.kind = "FundLink" /\ Is(call.token, "LinkToken") ->
             transfer(call.token, from, call.to)
        [] call.kind = "Set" /\ Is(call.to, "Store") ->
             [code EXCEPT ![call.to].value = call.value]
        [] call.kind = "SetOracles" /\ Is(call.to, "FluxAggregator") -> addOracle(call.to)
        [] call.kind = "SetPayees" /\ Is(call.to, "OffchainAggregator") -> setPayees(call.to)
        [] call.kind = "SetConfig" /\ Is(call.to, "OffchainAggregator") -> setConfig(call.to)
        [] OTHER -> code

\* A block with one transaction.  The gas limit is TransactionLimit plus a
\* buffer whatever the transaction needs, so a deployment may run out of gas.
Mine(h) ==
  /\ \/ /\ ~ Reverts(txs[h].call, txs[h].from)
        /\ Block(h, "mined")
        /\ code' = Effect(h)
     \/ /\ Reverts(txs[h].call, txs[h].from) \/ txs[h].call.kind = "Deploy"
        /\ Block(h, "reverted")
        /\ UNCHANGED code
  /\ UNCHANGED callerVars

-----------------------------------------------------------------------------
(***************************************************************************)
(* The wrappers.  Each begins with a call of the client by an idle caller. *)
(* A wrapper of a deployed contract is the instance its deployment         *)
(* returned to the caller.                                                 *)
(***************************************************************************)
Call(p, w, call) ==
  /\ op[p] = Idle
  /\ (IF call.kind = "Deploy" THEN call.contract ELSE call.kind) \in program[p]
  /\ Start(p, w, call)
  /\ UNCHANGED <<txs, code, callerVars>>

\* client.SendTransaction to another wallet, as its test does.
Send(p, w) ==
  /\ w # defaultWallet[p]
  /\ Call(p, defaultWallet[p], [kind |-> "SendTransaction", to |-> w])

\* Wallets.SetDefault with an index in range.
SetDefault(p, w) ==
  /\ op[p] = Idle
  /\ "SetDefault" \in program[p]
  /\ defaultWallet' = [defaultWallet EXCEPT ![p] = w]
  /\ UNCHANGED <<clientVars, code, config, instances, program>>

Deploy(p, call) == Call(p, defaultWallet[p], call)

DeployLinkTokenContract(p) == Deploy(p, [kind |-> "Deploy", contract |-> "LinkToken"])

\* The address of the LINK token is taken from the configuration.
DeployFluxAggregatorContract(p, payment) ==
  Deploy(p, [kind |-> "Deploy", contract |-> "FluxAggregator",
             link |-> config[p], payment |-> payment])

DeployOffChainAggregator(p) ==
  Deploy(p, [kind |-> "Deploy", contract |-> "OffchainAggregator", link |-> config[p]])

DeployStorageContract(p) == Deploy(p, [kind |-> "Deploy", contract |-> "Store"])

DeployVRFContract(p) == Deploy(p, [kind |-> "Deploy", contract |-> "VRF"])

\* The instance at address a was deployed as a contract of that kind.
Instance(p, a, kind) == a \in instances[p] /\ txs[a].call.contract = kind

\* Mutant: Set goes through the default wallet.
Set_default(p, a, value) ==
  /\ Instance(p, a, "Store")
  /\ Call(p, defaultWallet[p], [kind |-> "Set", to |-> a, value |-> value])

\* Set goes through callerWallet, the wallet that deployed the instance.
Set(p, a, value) ==
  /\ Instance(p, a, "Store")
  /\ Call(p, txs[a].from, [kind |-> "Set", to |-> a, value |-> value])

SetOracles(p, a) ==
  /\ Instance(p, a, "FluxAggregator")
  /\ Call(p, defaultWallet[p], [kind |-> "SetOracles", to |-> a])

SetPayees(p, a) ==
  /\ Instance(p, a, "OffchainAggregator")
  /\ Call(p, defaultWallet[p], [kind |-> "SetPayees", to |-> a])

SetConfig(p, a) ==
  /\ Instance(p, a, "OffchainAggregator")
  /\ Call(p, defaultWallet[p], [kind |-> "SetConfig", to |-> a])

\* The two halves of fund, for an amount of 0 or 1 of each currency.  The LINK
\* half remembers the transaction of the ETH half, 0 if there was none.
FundEth(a, link) == [kind |-> "FundEth", to |-> a, link |-> link]

FundLink(p, a, ethTx) ==
  [kind |-> "FundLink", to |-> a, token |-> config[p], ethTx |-> ethTx]

fund(p, a, ethAmount, linkAmount) ==
  \/ /\ ethAmount # 0
     /\ Call(p, defaultWallet[p], FundEth(a, linkAmount))
  \/ /\ ethAmount = 0 /\ linkAmount # 0
     /\ Call(p, defaultWallet[p], FundLink(p, a, 0))

\* Fund of the aggregators and of VRF; the LINK token is funded with ETH only.
Fund(p, a, ethAmount, linkAmount) ==
  /\ \/ a \in instances[p] /\ txs[a].call.contract \in Deployable \ {"LinkToken", "Store"}
     \/ Instance(p, a, "LinkToken") /\ linkAmount = 0
  /\ fund(p, a, ethAmount, linkAmount)

-----------------------------------------------------------------------------
\* fund goes on to LINK when ETH was sent.
GoesOn(o) == o.err = "nil" /\ o.call.kind = "FundEth" /\ o.call.link # 0

\* The configuration after a call returned: a deployed LINK token is the one that
\* later deployments use.
LinkTokenAddress(o, old) ==
  IF o.err = "nil" /\ o.call.kind = "Deploy" /\ o.call.contract = "LinkToken"
  THEN o.hash ELSE old

\* The wrapper goes on after the client returned: a deployment keeps the instance
\* and, for LINK, its address.
Resume(p) ==
  /\ op[p].pc = "returned"
  /\ LET call == op[p].call
         deployed == op[p].err = "nil" /\ call.kind = "Deploy"
     IN /\ IF GoesOn(op[p])
           THEN Start(p, op[p].from, FundLink(p, call.to, op[p].hash))
           ELSE op' = [op EXCEPT ![p] = Idle]
        /\ instances' = IF deployed
                        THEN [instances EXCEPT ![p] = @ \cup {op[p].hash}]
                        ELSE instances
        /\ config' = [config EXCEPT ![p] = LinkTokenAddress(op[p], @)]
  /\ UNCHANGED <<txs, code, defaultWallet, program>>

\* The bindings' callers read the pending state and fail without code.
Get(a) == IF Is(a, "Store") THEN code[a].value ELSE NoContract

-----------------------------------------------------------------------------
Init ==
  /\ txs = <<>>
  /\ op = [p \in Callers |-> Idle]
  /\ code = [a \in Addresses |-> NoContract]
  /\ config = [p \in Callers |-> 0]
  /\ defaultWallet = [p \in Callers |-> FirstWallet]
  /\ instances = [p \in Callers |-> {}]
  /\ program \in Programs

Wrapper(p) ==
  \/ \E w \in Wallets : Send(p, w)
  \/ \E w \in Wallets : SetDefault(p, w)
  \/ DeployLinkTokenContract(p)
  \/ \E payment \in PaymentAmounts : DeployFluxAggregatorContract(p, payment)
  \/ DeployOffChainAggregator(p)
  \/ DeployStorageContract(p)
  \/ DeployVRFContract(p)
  \/ \E a \in instances[p] :
       \/ \E v \in Values : Set(p, a, v)
       \/ SetOracles(p, a)
       \/ SetPayees(p, a)
       \/ SetConfig(p, a)
       \/ \E ethAmount, linkAmount \in {0, 1} : Fund(p, a, ethAmount, linkAmount)

Client(p) == ClientStep(p) /\ UNCHANGED <<code, callerVars>>
ClientFails(p) == RpcError(p) /\ UNCHANGED <<code, callerVars>>
ClientTimeout(p) == Timeout(p) /\ UNCHANGED <<code, callerVars>>

Next ==
  \/ \E p \in Callers : \/ Wrapper(p)
                        \/ Client(p)
                        \/ ClientFails(p)
                        \/ ClientTimeout(p)
                        \/ Resume(p)
  \/ \E h \in Hashes : Mine(h)
  \/ EmptyBlock /\ UNCHANGED <<code, callerVars>>

(***************************************************************************)
(* A caller that is running goes on, the node answering its RPC calls or   *)
(* failing them; while no header is there the timer fires.  Nothing is     *)
(* assumed about blocks: they may stop (a development node mines only when *)
(* there is a transaction), or keep coming without a transaction of the    *)
(* pool, whose gas price may be too low for ever.                          *)
(***************************************************************************)
Fairness ==
  \A p \in Callers :
    /\ WF_vars(Client(p))
    /\ WF_vars(Resume(p))
    /\ WF_vars(op[p].pc = "wait" /\ op[p].heads = 0 /\ ClientTimeout(p))

Spec == Init /\ [][Next]_vars /\ Fairness

-----------------------------------------------------------------------------
(* Properties *)

\* A call that returns no error had its transaction included in a block, and so had
\* everything that callers build on: the instances they hold, the LINK token they
\* deploy aggregators with, and the ETH of a Fund that went on to LINK
\* (WaitForTransaction reports success only for a transaction the node knows and no
\* longer has pending, and the wrappers stop at the first error).
NilMeansIncluded ==
  /\ \A p \in Callers :
       /\ op[p].pc = "returned" /\ op[p].err = "nil" => Included(op[p].hash)
       /\ \A a \in instances[p] \cup ({config[p]} \ {0}) :
            Included(a) /\ txs[a].call.kind = "Deploy"
  /\ \A h \in Hashes :
       txs[h].call.kind = "FundLink" /\ txs[h].call.ethTx # 0 => Included(txs[h].call.ethTx)

\* The nonces of the transactions the node holds for a wallet have no gap, so
\* none waits in the pool for one that nobody will send, however the reads of the
\* nonce and the sends of several callers interleave and whatever is replaced.
NoNonceGap ==
  \A w \in Wallets : {txs[h].nonce : h \in Live(w)} = 0 .. Cardinality(Live(w)) - 1

\* A transaction is only ever replaced by one of another caller: a caller that
\* goes on after an error or a timeout never takes the nonce of its own pending
\* transaction (the nonce asked for is the pending one).
OnlyOthersReplace ==
  \A h \in Hashes : txs[h].state = "gone" =>
    \E g \in Hashes : /\ g > h
                      /\ txs[g].from = txs[h].from /\ txs[g].nonce = txs[h].nonce
                      /\ txs[g].by # txs[h].by

\* When Set(value) returns without error, Get reads that value, also when
\* earlier Sets failed or timed out and were included later (Set always goes
\* through callerWallet, so that the nonces keep the order of the calls).
StoreReadsLastSet ==
  \A p \in Callers :
    op[p].pc = "returned" /\ op[p].err = "nil" /\ op[p].call.kind = "Set" =>
      Get(op[p].call.to) \in {op[p].call.value, NoContract}

\* A call returns, whether blocks keep coming or stop and whatever becomes of the
\* transaction, with one exception: the transaction stays pending for ever while
\* headers keep coming (each of them arms the timer of WaitForTransaction anew).
CallsReturn ==
  \A p \in Callers :
    \/ op[p].pc = "opts" ~> op[p].pc = "returned"
    \/ /\ <>[](op[p].pc = "wait" /\ TransactionByHash(op[p].hash) = "pending")
       /\ []<>(op[p].pc = "wait" /\ op[p].heads > 0)
=============================================================================
