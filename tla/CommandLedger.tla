----------------------------- MODULE CommandLedger -----------------------------
(***************************************************************************)
(* What the command handler promises about the commands the server hands   *)
(* over, whatever goroutines, slots, shutdowns and restarts lie underneath:*)
(*   - a result is submitted only for a command that is accepted and still *)
(*     owed, never for one already settled;                                *)
(*   - a command is settled only after a submission of its result has been *)
(*     attempted;                                                          *)
(*   - a settled command is owed again only after the retention policy has *)
(*     deleted its row.                                                    *)
(* A crash of the process is a stuttering step of this specification.      *)
(***************************************************************************)
CONSTANT Commands

VARIABLES ledger,     \* [Commands -> Statuses], the durable row of a command
          attempted   \* commands whose result has been submitted at least once

ledgerVars == <<ledger, attempted>>

Statuses == {"absent", "pending", "complete"}

LedgerTypeOK == /\ ledger \in [Commands -> Statuses]
                /\ attempted \subseteq Commands

LedgerInit == /\ ledger = [c \in Commands |-> "absent"]
              /\ attempted = {}

\* The command is stored.
Accept(c) == /\ ledger[c] = "absent"
             /\ ledger' = [ledger EXCEPT ![c] = "pending"]
             /\ UNCHANGED attempted

\* A result of the command is submitted; the row still says it is owed.
Attempt(c) == /\ ledger[c] = "pending"
              /\ attempted' = attempted \cup {c}
              /\ UNCHANGED ledger

\* The row is marked complete.
Settle(c) == /\ ledger[c] = "pending"
             /\ c \in attempted
             /\ ledger' = [ledger EXCEPT ![c] = "complete"]
             /\ UNCHANGED attempted

\* Retention deletes the row of a settled command.
Forget(c) == /\ ledger[c] = "complete"
             /\ ledger' = [ledger EXCEPT ![c] = "absent"]
             /\ attempted' = attempted \ {c}

LedgerNext == \E c \in Commands : Accept(c) \/ Attempt(c) \/ Settle(c) \/ Forget(c)

LedgerSpec == LedgerInit /\ [][LedgerNext]_ledgerVars
=============================================================================
