--------------------------- MODULE AccessControl ---------------------------
(***************************************************************************)
(* The part every contract of the repository shares: the ledger clock of   *)
(* the Soroban host, and the admin lifecycle each contract exposes with    *)
(* `impl AccessControl for ...`.  The admin is set once by the contract's  *)
(* `__constructor` and handed over in two steps through a temporary        *)
(* storage entry that the ledger clock expires.  The code of both is a     *)
(* dependency (the host and the OpenZeppelin crate), so what is written    *)
(* here is what the contracts rely on: the bindings the repository         *)
(* generates document the calls and their errors.                          *)
(***************************************************************************)
EXTENDS Integers

CONSTANTS
  Accounts,      \* addresses that sign transactions
  NoAccount,     \* the value of `admin` after renounce_admin
  NoTransfer,    \* no pending admin transfer is stored
  U32_MAX,       \* largest ledger sequence number
  MinTempTtl,    \* host: ledgers a fresh temporary entry lives
  MaxTtl,        \* host: ledgers no entry may be extended beyond
  MaxSeq,        \* bound: the last ledger the model closes
  AdminWindows   \* bound: the `live_until_ledger` arguments considered

ASSUME AccountsAssumption == NoAccount \notin Accounts
ASSUME LedgerAssumption ==
  /\ U32_MAX \in Nat /\ MaxSeq \in 1..U32_MAX
  /\ MinTempTtl \in 1..U32_MAX /\ MaxTtl \in MinTempTtl..U32_MAX
ASSUME WindowAssumption == AdminWindows \subseteq 0..U32_MAX
ASSUME TransferAssumption == NoTransfer \notin [to : Accounts, until : Int]

VARIABLES
  seq,           \* the current ledger sequence number
  admin,         \* the stored admin, or NoAccount
  pending        \* the stored pending transfer, or NoTransfer

acVars == <<seq, admin, pending>>

ACTypeOK ==
  /\ seq \in 1..MaxSeq
  /\ admin \in Accounts \cup {NoAccount}
  /\ pending \in [to : Accounts, until : Int] \cup {NoTransfer}

Larger(m, n) == IF m >= n THEN m ELSE n

\* `Env::ledger().sequence()` when the contract is deployed, and the admin
\* the constructor stores.
ACInit ==
  /\ seq = 1
  /\ admin \in Accounts
  /\ pending = NoTransfer

\* What `#[only_admin]` answers before the body of a call runs: the stored
\* admin must exist and must have signed the transaction.
OnlyAdmin(caller) ==
  IF admin = NoAccount THEN "AdminNotSet"
  ELSE IF caller # admin THEN "Unauthorized" ELSE "Ok"

\* A ledger closes.  Temporary entries whose live-until is before the new
\* ledger are gone.
CloseLedgerAC ==
  /\ seq < MaxSeq
  /\ seq' = seq + 1
  /\ pending' = IF pending # NoTransfer /\ pending.until < seq + 1
                THEN NoTransfer ELSE pending
  /\ UNCHANGED admin

-----------------------------------------------------------------------------
(* The admin lifecycle: each call's answer, then what it stores.           *)

TransferAdminAnswer(caller, new, until) ==
  IF OnlyAdmin(caller) # "Ok" THEN OnlyAdmin(caller)
  ELSE IF until = 0 THEN
         IF pending = NoTransfer THEN "NoPendingTransfer"
         ELSE IF pending.to # new THEN "InvalidPendingAccount" ELSE "Ok"
  ELSE IF until < seq \/ until >= seq + MaxTtl THEN "InvalidLiveUntilLedger"
  ELSE "Ok"

\* A transfer to a new account overrides the stored one; the entry keeps the
\* longest life it was ever given, since extending never shortens it.
TransferAdminRole(caller, new, until) ==
  /\ pending' =
       IF TransferAdminAnswer(caller, new, until) # "Ok" THEN pending
       ELSE IF until = 0 THEN NoTransfer
       ELSE LET old == IF pending = NoTransfer
                       THEN seq + MinTempTtl - 1 ELSE pending.until
            IN  [to |-> new, until |-> Larger(old, until)]
  /\ UNCHANGED <<seq, admin>>

\* Mutant: a handover is accepted after the admin has renounced.
AcceptAdminAnswer_NoAdminCheck(caller) ==
  IF pending = NoTransfer THEN "NoPendingTransfer"
  ELSE IF pending.to # caller THEN "Unauthorized" ELSE "Ok"

AcceptAdminAnswer(caller) ==
  IF admin = NoAccount THEN "AdminNotSet"
  ELSE IF pending = NoTransfer THEN "NoPendingTransfer"
  ELSE IF pending.to # caller THEN "Unauthorized" ELSE "Ok"

AcceptAdminTransfer(caller) ==
  /\ IF AcceptAdminAnswer(caller) = "Ok"
     THEN admin' = caller /\ pending' = NoTransfer
     ELSE UNCHANGED <<admin, pending>>
  /\ UNCHANGED seq

RenounceAdmin(caller) ==
  /\ admin' = IF OnlyAdmin(caller) = "Ok" THEN NoAccount ELSE admin
  /\ UNCHANGED <<seq, pending>>

\* The three calls of the interface that move the admin.
AdminStep ==
  \E caller \in Accounts :
    \/ \E new \in Accounts, until \in AdminWindows :
         TransferAdminRole(caller, new, until)
    \/ AcceptAdminTransfer(caller)
    \/ RenounceAdmin(caller)
=============================================================================
