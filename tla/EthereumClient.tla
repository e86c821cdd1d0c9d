--------------------------- MODULE EthereumClient ---------------------------
(***************************************************************************)
(* client/ethereum.go of the integration framework: sending a transaction  *)
(* and waiting until it clears, by several callers that may share a        *)
(* wallet (`go test ./...' runs the packages client and contracts side by  *)
(* side, both on wallet 0).                                                *)
(*                                                                         *)
(* The Ethereum node is external.  It keeps the transactions it was sent   *)
(* (txs, in the order of arrival; the position is the hash) and answers    *)
(* RPC calls, any of which may fail.  A caller p executes one call at a    *)
(* time, op[p]:                                                            *)
(*    "idle" -> "opts" -> "send" -> "subscribe" -> "wait" -> "returned"    *)
(* What a transaction does when it is included is the business of the      *)
(* module that extends this one; here it is only a `call'.                 *)
(***************************************************************************)
EXTENDS Integers, Sequences, FiniteSets

CONSTANTS
  Callers,               \* goroutines or processes that use the client
  Wallets,               \* BlockchainWallet: a private key and its address
  MinimumConfirmations,  \* NetworkConfig.MinimumConfirmations
  MaxTxs,                \* bound: transactions ever sent
  MaxHeads               \* bound: headers announced and not yet received

ASSUME ClientAssumption ==
  /\ MinimumConfirmations \in Nat
  /\ MaxTxs \in Nat
  /\ MaxHeads \in Nat \ {0}

VARIABLES
  txs,    \* the node: [by, from, nonce, call, state] for each hash; `by', the
          \* caller that sent it, is not known to the node
  op      \* the callers

clientVars == <<txs, op>>

Idle == [pc |-> "idle"]

Hashes == DOMAIN txs

-----------------------------------------------------------------------------
(***************************************************************************)
(* The node.  "gone" is a transaction that was replaced in the pool by     *)
(* another one with its nonce; "reverted" one that was included and had no *)
(* effect.                                                                 *)
(***************************************************************************)
Included(h) == txs[h].state \in {"mined", "reverted"}

Live(w) == {h \in Hashes : txs[h].from = w /\ txs[h].state # "gone"}

\* Mutants: the number of transactions ever sent;
\* eth_getTransactionCount(w, "latest").
PendingNonceAt_sent(w) == Cardinality({h \in Hashes : txs[h].from = w})
PendingNonceAt_latest(w) == Cardinality({h \in Live(w) : Included(h)})

\* eth_getTransactionCount(w, "pending").  The nonces of a wallet's live
\* transactions are consecutive, so the next one is their number.
PendingNonceAt(w) == Cardinality(Live(w))

\* The transactions a block may include next: the lowest nonce of a wallet.
Includable(h) ==
  /\ txs[h].state = "pending"
  /\ \A g \in Live(txs[h].from) : txs[g].nonce < txs[h].nonce => Included(g)

\* Accepting a transaction whose nonce is taken by a pending one means
\* replacing that one, which the node does when the gas price has risen enough.
Rivals(w, n) == {h \in Live(w) : txs[h].nonce = n}

Accepts(w, n) == \A h \in Rivals(w, n) : ~ Included(h)

AddTx(tx) ==
  txs' = Append([h \in Hashes |-> IF h \in Rivals(tx.from, tx.nonce)
                                  THEN [txs[h] EXCEPT !.state = "gone"]
                                  ELSE txs[h]], tx)

\* TransactionByHash answers with an error for a hash the node does not know.
TransactionByHash(h) == IF txs[h].state = "gone" THEN "not found" ELSE txs[h].state

-----------------------------------------------------------------------------
\* The caller p leaves the call it is in with the given error.
Return(p, err) == op' = [op EXCEPT ![p] = [pc |-> "returned", from |-> op[p].from,
                                            call |-> op[p].call, hash |-> op[p].hash,
                                            err |-> err]]

\* Any RPC call of ethclient may fail; the caller then returns the error.
\* So it does when the subscription to the heads fails.  (Err() is closed without
\* an error only when the connection is closed on this side, which no code does.)
\* No hash is known (0) until the transaction was sent.
RpcError(p) ==
  /\ op[p].pc \in {"opts", "send", "subscribe", "wait"}
  /\ Return(p, "error")
  /\ UNCHANGED txs

\* SendTransaction, DeployContract or the transactor of a binding is called.
Start(p, w, call) ==
  op' = [op EXCEPT ![p] = [pc |-> "opts", from |-> w, call |-> call, hash |-> 0]]

\* TransactionOpts (and SendTransaction up to the signature): the nonce is read
\* here, and used when the transaction is sent.
TransactionOpts(p) ==
  /\ op[p].pc = "opts"
  /\ op' = [op EXCEPT ![p] = [pc |-> "send", from |-> op[p].from, call |-> op[p].call,
                               hash |-> 0, nonce |-> PendingNonceAt(op[p].from)]]
  /\ UNCHANGED txs

\* The signed transaction goes to the node, which refuses it when the nonce was
\* used meanwhile, or its pool is full.  The answer may get lost on its way back,
\* and then the caller sees an error although the transaction is out.
SendTransaction(p) ==
  /\ op[p].pc = "send"
  /\ LET accepted == Len(txs) < MaxTxs /\ Accepts(op[p].from, op[p].nonce)
     IN \/ /\ accepted
           /\ AddTx([by |-> p, from |-> op[p].from, nonce |-> op[p].nonce,
                     call |-> op[p].call, state |-> "pending"])
           /\ \/ op' = [op EXCEPT ![p] = [pc |-> "subscribe", from |-> op[p].from,
                                           call |-> op[p].call, hash |-> Len(txs) + 1]]
              \/ Return(p, "error")
        \/ /\ ~ accepted
           /\ Return(p, "error")
           /\ UNCHANGED txs

\* SubscribeNewHead: only heads announced from now on will be received.
SubscribeNewHead(p) ==
  /\ op[p].pc = "subscribe"
  /\ op' = [op EXCEPT ![p] = [pc |-> "wait", from |-> op[p].from, call |-> op[p].call,
                               hash |-> op[p].hash, confirmations |-> 0, heads |-> 0]]
  /\ UNCHANGED txs

-----------------------------------------------------------------------------
\* isTxConfirmed: the transaction is no longer pending.  Whether it was reverted
\* is not looked at; that it is known is checked by the error, before.
isTxConfirmed(h) == TransactionByHash(h) # "pending"

\* The select of WaitForTransaction receives a header.
ReceiveHeader(p) ==
  /\ op[p].pc = "wait"
  /\ op[p].heads > 0
  /\ LET h == op[p].hash
         confirmations == op[p].confirmations + 1
         next == [op[p] EXCEPT !.heads = @ - 1]
     IN \/ /\ TransactionByHash(h) = "not found"
           /\ Return(p, "error")
        \/ /\ TransactionByHash(h) # "not found"
           /\ ~ isTxConfirmed(h)
           /\ op' = [op EXCEPT ![p] = next]
        \/ /\ TransactionByHash(h) # "not found"
           /\ isTxConfirmed(h)
           /\ confirmations >= MinimumConfirmations
           /\ Return(p, "nil")
        \/ /\ TransactionByHash(h) # "not found"
           /\ isTxConfirmed(h)
           /\ confirmations < MinimumConfirmations
           /\ op' = [op EXCEPT ![p] = [next EXCEPT !.confirmations = confirmations]]
  /\ UNCHANGED txs

\* Mutants: a timeout is no error; a confirmed transaction waits for its
\* confirmations also after the timeout.
Timeout_nil(p) ==
  /\ op[p].pc = "wait"
  /\ Return(p, IF TransactionByHash(op[p].hash) = "not found" THEN "error" ELSE "nil")
  /\ UNCHANGED txs

Timeout_unconfirmed(p) ==
  /\ op[p].pc = "wait"
  /\ ~ Included(op[p].hash)
  /\ Return(p, "error")
  /\ UNCHANGED txs

\* The select takes the timer, which is armed anew in every iteration of the
\* loop: no header was received for the length of the timeout.  With a timeout
\* of 0 the timer is ready at once, and may win over a header that is ready too.
Timeout(p) ==
  /\ op[p].pc = "wait"
  /\ \/ /\ TransactionByHash(op[p].hash) # "not found"
        /\ isTxConfirmed(op[p].hash)
        /\ Return(p, "nil")
     \/ /\ \/ TransactionByHash(op[p].hash) = "not found"
           \/ ~ isTxConfirmed(op[p].hash)
        /\ Return(p, "error")
  /\ UNCHANGED txs

-----------------------------------------------------------------------------
\* A block is announced to every subscription; at most MaxHeads wait in one.
Announced(o) ==
  IF o.pc = "wait" /\ o.heads < MaxHeads THEN [o EXCEPT !.heads = @ + 1] ELSE o

Announce == op' = [p \in Callers |-> Announced(op[p])]

EmptyBlock == Announce /\ UNCHANGED txs

\* A block includes transaction h, which leaves it in the given state.
Block(h, state) ==
  /\ Includable(h)
  /\ txs' = [txs EXCEPT ![h].state = state]
  /\ Announce

ClientStep(p) ==
  \/ TransactionOpts(p)
  \/ SendTransaction(p)
  \/ SubscribeNewHead(p)
  \/ ReceiveHeader(p)
=============================================================================
