--------------------------- MODULE MigrationLedger ---------------------------
(***************************************************************************)
(* What the migration of one account promises about money, without         *)
(* workers, locks, statuses, invoices or amounts.  There are four kinds of *)
(* payment.  Each is first made and then recorded, a record is never       *)
(* taken back, and the order is fixed: the move of the balance comes       *)
(* first, everything else rests on its record, and from the moment the     *)
(* undoing begins nothing moves forward any more.                          *)
(***************************************************************************)

VARIABLES
    paid,       \* the kinds of payment made at least once
    recorded,   \* the kinds whose transaction id the migration holds
    undoing     \* the rollback has begun

ledgerVars == <<paid, recorded, undoing>>

Forward == {"move", "fee"}
Backward == {"reverse", "shortfall"}

LedgerInit == paid = {} /\ recorded = {} /\ undoing = FALSE

\* The side a kind belongs to decides when it may happen.
InSeason(kind) == (kind \in Backward) <=> undoing

Pay(kind) ==
    /\ InSeason(kind)
    /\ kind # "move" => "move" \in recorded
    /\ paid' = paid \cup {kind}
    /\ UNCHANGED <<recorded, undoing>>

Record(kind) ==
    /\ InSeason(kind)
    /\ kind \in paid
    /\ recorded' = recorded \cup {kind}
    /\ UNCHANGED <<paid, undoing>>

BeginUndoing ==
    /\ undoing' = TRUE
    /\ UNCHANGED <<paid, recorded>>

LedgerNext ==
    \/ \E kind \in Forward \cup Backward : Pay(kind) \/ Record(kind)
    \/ BeginUndoing

LedgerSpec == LedgerInit /\ [][LedgerNext]_ledgerVars

=============================================================================
