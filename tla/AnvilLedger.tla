----------------------------- MODULE AnvilLedger -----------------------------
(***************************************************************************)
(* What clients of an anvil node may rely on, whatever its threads do: a   *)
(* block takes transactions that were accepted, each at most once and in   *)
(* the order of their sender's nonces, and the chain only grows.           *)
(***************************************************************************)
EXTENDS Naturals, FiniteSets, Sequences

CONSTANTS Txs, sender, nonce, Genesis

VARIABLES accepted, chain

LedgerInit == accepted = Genesis /\ chain = <<>>

\* The places of the transactions of one sender in a chain.
Of(c, from) == {i \in DOMAIN c : sender[c[i]] = from}

\* Those before place i of the sender of the transaction there.
Earlier(c, i) == {j \in Of(c, sender[c[i]]) : j < i}

\* The nonce of a transaction counts those its sender has earlier in the chain.
InNonceOrder(c) == \A i \in DOMAIN c : nonce[c[i]] = Cardinality(Earlier(c, i))

Accept == \E h \in Txs : accepted' = accepted \cup {h} /\ UNCHANGED chain

Block ==
  /\ Len(chain) <= Len(chain') /\ SubSeq(chain', 1, Len(chain)) = chain
  /\ \A i \in DOMAIN chain' : chain'[i] \in accepted
  /\ InNonceOrder(chain')
  /\ UNCHANGED accepted

Ledger == LedgerInit /\ [][Accept \/ Block]_<<accepted, chain>>
==============================================================================
