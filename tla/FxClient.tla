------------------------------ MODULE FxClient ------------------------------
(***************************************************************************)
(* The generated TypeScript client of fx-rate-lock.  Each of its methods   *)
(* constructs a call and simulates it against the ledger as it is then; a  *)
(* call that changes state is signed and sent later, possibly by another   *)
(* party who revives it with fromJSON, and the contract runs it against    *)
(* the ledger as it is by then.  One user of the client is followed; all   *)
(* other parties call the contract directly, between any two of its steps. *)
(*                                                                         *)
(* A call is a record: the method, its arguments, and `by`, the account    *)
(* whose authorization the simulation recorded.  A call that is refused    *)
(* when simulated cannot be sent.  The members of a role are read the way  *)
(* the bindings say: the count first, then each index, in simulations of   *)
(* their own.                                                              *)
(***************************************************************************)
EXTENDS FxRateLock, Roles, Functions

CONSTANT NoTx   \* nothing assembled, nothing read yet

\* An index beyond the members is a trap of the call, never an account.
ASSUME IndexAssumption == "IndexOutOfBounds" \notin Accounts

VARIABLES
  tx,      \* the user's AssembledTransaction not sent yet, or NoTx
  scan,    \* the user's enumeration of a role, or NoTx
  shown,   \* what get_quote last showed the user as active, or NoTx
  focus    \* bound: a behaviour exercises the quotes or the roles, which
           \* share no storage but the admin

clientVars == <<tx, scan, shown>>
allVars == <<vars, roleVars, clientVars, focus>>

-----------------------------------------------------------------------------
(* The methods that only read: their simulated result.                     *)
(* An Option or Result<void> is a tuple of one value or none.              *)

\* Mutant: the position is counted from one.
has_role_FromOne(a, r) ==
  IF IsMember(a, r)
  THEN <<CHOOSE i \in 1 .. Len(members[r]) : members[r][i] = a>>
  ELSE << >>

has_role(a, r) ==
  IF IsMember(a, r)
  THEN <<CHOOSE i \in 0 .. Len(members[r]) - 1 : members[r][i + 1] = a>>
  ELSE << >>
get_admin == admin

\* Mutant: the fields of the row are decoded in the wrong order.
get_quote_SwapsFields(q) ==
  IF rows[q] = NoRow THEN NoRow
  ELSE [rows[q] EXCEPT !.price = rows[q].fee, !.fee = rows[q].price]

get_quote(q) == rows[q]
is_active(q) == IsActive(q)
get_role_admin(r) == roleAdmin[r]

\* Mutant: the index is taken to start at one.
get_role_member_FromOne(r, i) ==
  IF i \in DOMAIN members[r] THEN members[r][i] ELSE "IndexOutOfBounds"

get_role_member(r, i) ==
  IF i + 1 \in DOMAIN members[r] THEN members[r][i + 1]
  ELSE "IndexOutOfBounds"

get_existing_roles == existing
get_role_member_count(r) == Len(members[r])

-----------------------------------------------------------------------------
(* The methods that change state.                                          *)

grant_role(a, r, caller) ==
  [fn |-> "grant_role", by |-> caller, account |-> a, role |-> r]
lock_quote(q, t, ttl) ==
  [fn |-> "lock_quote", by |-> admin, q |-> q, t |-> t, ttl |-> ttl]
revoke_role(a, r, caller) ==
  [fn |-> "revoke_role", by |-> caller, account |-> a, role |-> r]
consume_quote(q, id) ==
  [fn |-> "consume_quote", by |-> admin, q |-> q, id |-> id]
renounce_role(r, caller) ==
  [fn |-> "renounce_role", by |-> caller, role |-> r]
renounce_admin == [fn |-> "renounce_admin", by |-> admin]
set_role_admin(r, ar) ==
  [fn |-> "set_role_admin", by |-> admin, role |-> r, admin_role |-> ar]
transfer_admin_role(new, until) ==
  [fn |-> "transfer_admin_role", by |-> admin, new |-> new, until |-> until]

\* The pending account must authorize; with none the call is refused.
accept_admin_transfer ==
  [fn |-> "accept_admin_transfer",
   by |-> IF pending = NoTransfer THEN NoAccount ELSE pending.to]

\* The contract's answer to call c in the present ledger.
Answer(c) ==
  CASE c.fn = "grant_role" -> GrantRoleAnswer(c.by, c.account, c.role)
    [] c.fn = "lock_quote" -> LockAnswer(c.by, c.t, c.ttl)
    [] c.fn = "revoke_role" -> RevokeRoleAnswer(c.by, c.account, c.role)
    [] c.fn = "consume_quote" -> ConsumeAnswer(c.by, c.q)
    [] c.fn = "renounce_role" -> RenounceRoleAnswer(c.by, c.role)
    [] c.fn \in {"renounce_admin", "set_role_admin"} -> OnlyAdmin(c.by)
    [] c.fn = "transfer_admin_role" -> TransferAdminAnswer(c.by, c.new, c.until)
    [] c.fn = "accept_admin_transfer" -> AcceptAdminAnswer(c.by)

\* What it does to the ledger when the answer is "Ok".
Effect(c) ==
  \/ /\ \/ c.fn = "grant_role" /\ GrantRole(c.by, c.account, c.role)
        \/ c.fn = "revoke_role" /\ RevokeRole(c.by, c.account, c.role)
        \/ c.fn = "renounce_role" /\ RenounceRole(c.by, c.role)
        \/ c.fn = "set_role_admin" /\ SetRoleAdmin(c.by, c.role, c.admin_role)
     /\ UNCHANGED <<rows, locks, uses>>
  \/ /\ \/ c.fn = "renounce_admin" /\ RenounceAdmin(c.by)
        \/ /\ c.fn = "transfer_admin_role"
           /\ TransferAdminRole(c.by, c.new, c.until)
        \/ c.fn = "accept_admin_transfer" /\ AcceptAdminTransfer(c.by)
     /\ UNCHANGED <<roleVars, rows, locks, uses>>
  \/ /\ \/ c.fn = "lock_quote" /\ LockQuote(c.by, c.q, c.t, c.ttl)
        \/ c.fn = "consume_quote" /\ ConsumeQuote(c.by, c.q, c.id)
     /\ UNCHANGED roleVars

\* What the method returns: lock_quote its expiry, the others nothing.
Returns(c) == IF c.fn = "lock_quote" THEN <<seq + c.ttl>> ELSE << >>

\* The result each method's transaction is decoded to.
fromJSON ==
  LET void == {<< >>}
      Maybe(S) == void \cup {<<x>> : x \in S}
  IN  [has_role |-> Maybe(U32),
       get_admin |-> Accounts \cup {NoAccount},
       get_quote |-> Row \cup {NoRow},
       is_active |-> BOOLEAN,
       grant_role |-> void,
       lock_quote |-> {<<n>> : n \in U32},
       revoke_role |-> void,
       consume_quote |-> void,
       renounce_role |-> void,
       get_role_admin |-> RoleNames \cup {NoRole},
       renounce_admin |-> void,
       set_role_admin |-> void,
       get_role_member |-> Accounts,
       get_existing_roles |-> SUBSET RoleNames,
       transfer_admin_role |-> void,
       accept_admin_transfer |-> void,
       get_role_member_count |-> U32]

\* The contract's own errors, by code; those of the access control are not
\* among them, and a method that meets one throws.
Errors ==
  <<"AlreadyInitialized", "NotInitialized", "QuoteNotFound", "QuoteExpired",
    "QuoteAlreadyConsumed", "PriceInvariantViolated", "InvalidExpiry",
    "InvalidAmount", "Overflow">>
ThrownErrors ==
  {"Unauthorized", "AdminNotSet", "RoleNotHeld", "MaxRolesExceeded",
   "NoPendingTransfer", "InvalidPendingAccount", "InvalidLiveUntilLedger",
   "HostTrap"}

-----------------------------------------------------------------------------
(* What the user does.                                                     *)

Calls ==
  IF focus = "quotes"
  THEN {lock_quote(q, t, ttl) : q \in QuoteIds, t \in Terms, ttl \in Ttls}
         \cup {consume_quote(q, id) : q \in QuoteIds, id \in TxIds}
         \cup {transfer_admin_role(a, u) : a \in Accounts, u \in AdminWindows}
         \cup {accept_admin_transfer, renounce_admin}
  ELSE {grant_role(a, r, b) : a \in Accounts, r \in RoleNames, b \in Accounts}
         \cup {revoke_role(a, r, b) :
                 a \in Accounts, r \in RoleNames, b \in Accounts}
         \cup {renounce_role(r, b) : r \in RoleNames, b \in Accounts}
         \cup {set_role_admin(r, ar) : r \in RoleNames, ar \in RoleNames}
         \cup {renounce_admin}

\* A method is called: the simulation's result is all there is so far.  What
\* the user did before is no longer looked at.
Assemble ==
  /\ \E c \in Calls :
       Answer(c) = "Ok" /\ tx' = [call |-> c, result |-> Returns(c)]
  /\ scan' = NoTx
  /\ UNCHANGED <<vars, roleVars, shown, focus>>

\* Signed by `by`, who may have been handed the transaction as JSON, and sent:
\* the contract answers the call once more, in the ledger it is applied in.
Send ==
  /\ tx # NoTx
  /\ IF Answer(tx.call) = "Ok" THEN Effect(tx.call)
     ELSE UNCHANGED <<vars, roleVars>>
  /\ tx' = NoTx
  /\ UNCHANGED <<scan, shown, focus>>

\* get_quote, then is_active, in simulations of their own.
ReadQuote(q) ==
  /\ get_quote(q) # NoRow
  /\ shown' = [q |-> q, quote |-> get_quote(q), nth |-> Len(locks[q]),
               active |-> "unread", uses |-> 0]
  /\ UNCHANGED <<vars, roleVars, tx, scan, focus>>

ReadActive ==
  /\ shown # NoTx /\ shown.active = "unread"
  /\ Len(locks[shown.q]) = shown.nth
  /\ shown' = [shown EXCEPT !.active = IF is_active(shown.q) THEN "yes" ELSE "no",
                            !.uses = Len(uses[shown.q])]
  /\ UNCHANGED <<vars, roleVars, tx, scan, focus>>

\* get_role_member_count, then get_role_member for each index.  `kept` are
\* the accounts that had the role all along, `left` counts those that lost it.
EnumStart(r) ==
  /\ scan' = [role |-> r, count |-> get_role_member_count(r), next |-> 0,
              got |-> {}, kept |-> Range(members[r]), left |-> 0,
              status |-> "reading"]
  /\ tx' = NoTx
  /\ UNCHANGED <<vars, roleVars, shown, focus>>

Reading == scan # NoTx /\ scan.status = "reading"

EnumRead ==
  LET m == get_role_member(scan.role, scan.next)
  IN  /\ Reading
      /\ scan' = IF scan.next = scan.count THEN [scan EXCEPT !.status = "done"]
                 ELSE IF m = "IndexOutOfBounds"
                      THEN [scan EXCEPT !.status = "failed"]
                 ELSE [scan EXCEPT !.next = @ + 1, !.got = @ \cup {m}]
      /\ UNCHANGED <<vars, roleVars, tx, shown, focus>>

-----------------------------------------------------------------------------
\* What the others do, with the contract itself, and an enumeration under way
\* keeps count of.
Direct ==
  /\ \/ focus = "quotes" /\ Next /\ UNCHANGED roleVars
     \/ /\ focus = "roles"
        /\ \E caller \in Accounts :
             \/ RoleCall(caller)
             \/ RenounceAdmin(caller) /\ UNCHANGED roleVars
        /\ UNCHANGED <<rows, locks, uses>>
  /\ scan' =
       IF ~Reading THEN scan
       ELSE LET before == members[scan.role]  after == members'[scan.role]
            IN  [scan EXCEPT
                   !.kept = @ \cap Range(after),
                   !.left = IF Len(after) < Len(before) /\ @ < scan.count
                            THEN @ + 1 ELSE @]
  /\ UNCHANGED <<tx, shown, focus>>

\* The constructor runs with the admin that deploy was given.
deploy(a) == Init /\ RolesInit /\ admin = a

ClientInit ==
  /\ \E a \in Accounts : deploy(a)
  /\ tx = NoTx /\ scan = NoTx /\ shown = NoTx
  /\ focus \in {"quotes", "roles"}

ClientNext ==
  \/ Direct
  \/ Assemble
  \/ Send
  \/ focus = "quotes" /\ \E q \in QuoteIds : ReadQuote(q)
  \/ ReadActive
  \/ focus = "roles" /\ \E r \in RoleNames : EnumStart(r)
  \/ EnumRead

ClientSpec == ClientInit /\ [][ClientNext]_allVars

-----------------------------------------------------------------------------
(* Properties                                                              *)

\* Whatever the ledger holds, each method's result is of the type its revived
\* transaction decodes, and a call that is sent is answered "Ok", one of the
\* contract's errors or one the bindings leave to be thrown (fx-rate-lock
\* bindings 41-51, 429-447).
ClientTypeOK ==
  /\ RolesTypeOK
  /\ \A r \in RoleNames, a \in Accounts :
       /\ has_role(a, r) \in fromJSON.has_role
       /\ IsMember(a, r) => get_role_member(r, has_role(a, r)[1]) = a
  /\ \A q \in QuoteIds : get_quote(q) \in fromJSON.get_quote
  /\ get_existing_roles \in fromJSON.get_existing_roles
  /\ tx # NoTx =>
       /\ tx.result \in fromJSON[tx.call.fn]
       /\ Answer(tx.call) \in {"Ok"} \cup Range(Errors) \cup ThrownErrors

\* Reading the count and then each index, while others grant, revoke and
\* renounce, misses at most one account that kept the role for every account
\* that lost it meanwhile, and traps only if one did: with no revocation the
\* enumeration is complete (bindings 276-297, 366-376).
EnumerationMissesOnlyRevoked ==
  scan # NoTx =>
    /\ scan.status = "done" => Cardinality(scan.kept \ scan.got) <= scan.left
    /\ scan.status = "failed" => scan.left > 0

\* What get_quote showed binds the settlement, whoever consumes and however
\* long after: the use of the lock it showed has its price and fee and comes
\* before its expiry, and a lock that is_active denied is not used any more
\* (bindings 102-113, 180-186).
SettlesAtTermsShown ==
  shown # NoTx =>
    \A i \in 1..Len(uses[shown.q]) :
      LET u == uses[shown.q][i]
      IN  u.nth = shown.nth =>
            /\ u.price = shown.quote.price /\ u.fee = shown.quote.fee
            /\ u.at < shown.quote.expires
            /\ shown.active = "no" => i <= shown.uses

\* lock_quote's simulated result is a lower bound: the quote that is locked
\* when the call is applied, ledgers later and over whatever row is there by
\* then, does not expire before it (bindings 141-149).
ShownExpiryIsSafe ==
  [][tx # NoTx /\ tx' = NoTx /\ locks' # locks =>
       rows'[tx.call.q].expires >= tx.result[1]]_allVars
=============================================================================
