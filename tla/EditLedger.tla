----------------------------- MODULE EditLedger -----------------------------
(***************************************************************************)
(* What the command log of project-store.ts promises to its callers: one   *)
(* ledger of edits somebody asked for, each entered once, on top of the    *)
(* revision its caller had seen, and answers that are final.  No handles,  *)
(* no lock, no transactions, no failures.                                  *)
(***************************************************************************)
EXTENDS Integers, Sequences

CONSTANTS
  Edits,        \* what callers may ask for: records with id, key, base and op
  Apply(_, _),  \* Apply(op, doc): the edited document, or Rejected
  Rejected,
  GenesisDoc

VARIABLES
  asked,         \* edits some caller waits for
  ledger,        \* the edits entered so far, in order
  head,          \* the current document
  acknowledged,  \* edits whose caller was told they are in the ledger
  denied         \* edits whose caller was told they are not

ledgerVars == <<asked, ledger, head, acknowledged, denied>>

LedgerInit ==
  /\ asked = {}
  /\ ledger = <<>>
  /\ head = GenesisDoc
  /\ acknowledged = {}
  /\ denied = {}

InLedger(tx) == \E i \in DOMAIN ledger : ledger[i] = tx

\* Callers come, ask for something else and give up, as they like.
ComeAndGo ==
  /\ asked' \in SUBSET Edits
  /\ UNCHANGED <<ledger, head, acknowledged, denied>>

Enter(tx) ==
  /\ tx.base = Len(ledger)
  /\ \A i \in DOMAIN ledger : ledger[i].id # tx.id /\ ledger[i].key # tx.key
  /\ tx \notin denied
  /\ Apply(tx.op, head) # Rejected
  /\ ledger' = Append(ledger, tx)
  /\ head' = Apply(tx.op, head)
  /\ UNCHANGED <<asked, acknowledged, denied>>

\* Another caller may be waiting for the same edit.
Answered(tx) == asked' \in {asked, asked \ {tx}}

Acknowledge(tx) ==
  /\ InLedger(tx)
  /\ acknowledged' = acknowledged \cup {tx}
  /\ Answered(tx)
  /\ UNCHANGED <<ledger, head, denied>>

Deny(tx) ==
  /\ ~InLedger(tx)
  /\ denied' = denied \cup {tx}
  /\ Answered(tx)
  /\ UNCHANGED <<ledger, head, acknowledged>>

LedgerNext ==
  \/ ComeAndGo
  \/ \E tx \in asked : Enter(tx) \/ Acknowledge(tx) \/ Deny(tx)

LedgerSpec == LedgerInit /\ [][LedgerNext]_ledgerVars
=============================================================================
