--------------------------- MODULE FxClientProofs ---------------------------
(***************************************************************************)
(* Proofs about FxClient, for every set of accounts, roles and quotes and  *)
(* every behaviour of the other parties: what the client shows its user    *)
(* stays true until the user acts on it, and an enumeration of a role      *)
(* misses no more accounts than lost the role meanwhile.                   *)
(*                                                                         *)
(* Every step of the client is a step of the rate lock or leaves the       *)
(* ledger alone, so the inductive invariant of FxRateLockProofs holds of   *)
(* it and is the part of the argument that is about quotes.                *)
(***************************************************************************)
EXTENDS FxClient, FxRateLockProofs, FiniteSetTheorems

-----------------------------------------------------------------------------
(* The calls a user may have assembled.                                    *)

Methods ==
  {"grant_role", "lock_quote", "revoke_role", "consume_quote",
   "renounce_role", "renounce_admin", "set_role_admin",
   "transfer_admin_role", "accept_admin_transfer"}

\* The arguments of a call have the types its method declares, and the account
\* that must sign it is known.
CallOK(c) ==
  /\ c.fn \in Methods /\ c.by \in Accounts
  /\ c.fn \in {"lock_quote", "consume_quote"} => c.q \in QuoteIds
  /\ c.fn = "lock_quote" => c.t \in Terms /\ c.ttl \in Ttls
  /\ c.fn = "consume_quote" => c.id \in TxIds
  /\ c.fn \in {"grant_role", "revoke_role"} => c.account \in Accounts
  /\ c.fn \in {"grant_role", "revoke_role", "renounce_role",
               "set_role_admin"} => c.role \in RoleNames
  /\ c.fn = "set_role_admin" => c.admin_role \in RoleNames
  /\ c.fn = "transfer_admin_role" =>
       c.new \in Accounts /\ c.until \in AdminWindows

\* A call whose simulation was accepted was made by an account.
LEMMA AssembledCall ==
  ASSUME ACTypeOK, NEW c \in Calls, Answer(c) = "Ok"
  PROVE  CallOK(c)
<1> USE DEF CallOK, Methods
<1>1. OnlyAdmin(admin) = "Ok" => admin \in Accounts
  BY DEF OnlyAdmin, ACTypeOK
<1>2. ASSUME NEW q \in QuoteIds, NEW t \in Terms, NEW ttl \in Ttls,
             c = lock_quote(q, t, ttl)
      PROVE  CallOK(c)
  <2>1. c.fn = "lock_quote" /\ c.by = admin /\ c.q = q /\ c.t = t /\ c.ttl = ttl
    BY <1>2 DEF lock_quote
  <2>2. OnlyAdmin(admin) = "Ok"
    BY <2>1 DEF Answer, LockAnswer
  <2> QED BY <1>1, <2>1, <2>2
<1>3. ASSUME NEW q \in QuoteIds, NEW id \in TxIds, c = consume_quote(q, id)
      PROVE  CallOK(c)
  <2>1. c.fn = "consume_quote" /\ c.by = admin /\ c.q = q /\ c.id = id
    BY <1>3 DEF consume_quote
  <2>2. OnlyAdmin(admin) = "Ok"
    BY <2>1 DEF Answer, ConsumeAnswer
  <2> QED BY <1>1, <2>1, <2>2
<1>4. ASSUME NEW a \in Accounts, NEW u \in AdminWindows,
             c = transfer_admin_role(a, u)
      PROVE  CallOK(c)
  <2>1. /\ c.fn = "transfer_admin_role" /\ c.by = admin
        /\ c.new = a /\ c.until = u
    BY <1>4 DEF transfer_admin_role
  <2>2. OnlyAdmin(admin) = "Ok"
    BY <2>1 DEF Answer, TransferAdminAnswer
  <2> QED BY <1>1, <2>1, <2>2
<1>5. ASSUME c = accept_admin_transfer
      PROVE  CallOK(c)
  <2>1. /\ c.fn = "accept_admin_transfer"
        /\ c.by = IF pending = NoTransfer THEN NoAccount ELSE pending.to
    BY <1>5 DEF accept_admin_transfer
  <2>2. pending # NoTransfer
    BY <2>1 DEF Answer, AcceptAdminAnswer
  <2> QED BY <2>1, <2>2 DEF ACTypeOK
<1>6. ASSUME c = renounce_admin
      PROVE  CallOK(c)
  <2>1. c.fn = "renounce_admin" /\ c.by = admin
    BY <1>6 DEF renounce_admin
  <2>2. OnlyAdmin(admin) = "Ok"
    BY <2>1 DEF Answer
  <2> QED BY <1>1, <2>1, <2>2
<1>7. ASSUME NEW a \in Accounts, NEW r \in RoleNames, NEW b \in Accounts,
             c = grant_role(a, r, b) \/ c = revoke_role(a, r, b)
      PROVE  CallOK(c)
  <2>1. /\ c.fn \in {"grant_role", "revoke_role"} /\ c.by = b
        /\ c.account = a /\ c.role = r
    BY <1>7 DEF grant_role, revoke_role
  <2> QED BY <2>1
<1>8. ASSUME NEW r \in RoleNames, NEW b \in Accounts, c = renounce_role(r, b)
      PROVE  CallOK(c)
  <2>1. c.fn = "renounce_role" /\ c.by = b /\ c.role = r
    BY <1>8 DEF renounce_role
  <2> QED BY <2>1
<1>9. ASSUME NEW r \in RoleNames, NEW ar \in RoleNames,
             c = set_role_admin(r, ar)
      PROVE  CallOK(c)
  <2>1. /\ c.fn = "set_role_admin" /\ c.by = admin
        /\ c.role = r /\ c.admin_role = ar
    BY <1>9 DEF set_role_admin
  <2>2. OnlyAdmin(admin) = "Ok"
    BY <2>1 DEF Answer
  <2> QED BY <1>1, <2>1, <2>2
<1> HIDE DEF CallOK, Methods
<1>10. CASE focus = "quotes"
  BY <1>2, <1>3, <1>4, <1>5, <1>6, <1>10 DEF Calls
<1>11. CASE focus # "quotes"
  BY <1>6, <1>7, <1>8, <1>9, <1>11 DEF Calls
<1> QED BY <1>10, <1>11

\* What a call is answered: "Ok", an error of the contract's own, or one the
\* bindings leave to be thrown.
LEMMA AnswerType ==
  ASSUME NEW c, CallOK(c)
  PROVE  Answer(c) \in {"Ok"} \cup Range(Errors) \cup ThrownErrors
<1>1. {"QuoteNotFound", "QuoteExpired", "QuoteAlreadyConsumed",
       "PriceInvariantViolated", "InvalidExpiry", "InvalidAmount", "Overflow"}
        \subseteq Range(Errors)
  <2>1. /\ DOMAIN Errors = 1..9
        /\ Errors[3] = "QuoteNotFound" /\ Errors[4] = "QuoteExpired"
        /\ Errors[5] = "QuoteAlreadyConsumed"
        /\ Errors[6] = "PriceInvariantViolated" /\ Errors[7] = "InvalidExpiry"
        /\ Errors[8] = "InvalidAmount" /\ Errors[9] = "Overflow"
    BY DEF Errors
  <2> QED BY <2>1 DEF Range
<1>2. \A caller : OnlyAdmin(caller) \in {"Ok", "AdminNotSet", "Unauthorized"}
  BY DEF OnlyAdmin
<1> DEFINE All == {"Ok"} \cup Range(Errors) \cup ThrownErrors
<1>3. {"Ok", "AdminNotSet", "Unauthorized", "RoleNotHeld", "MaxRolesExceeded",
       "NoPendingTransfer", "InvalidPendingAccount", "InvalidLiveUntilLedger",
       "HostTrap", "QuoteNotFound", "QuoteExpired", "QuoteAlreadyConsumed",
       "PriceInvariantViolated", "InvalidExpiry", "InvalidAmount", "Overflow"}
         \subseteq All
  BY <1>1 DEF ThrownErrors
<1> SUFFICES Answer(c) \in All
  OBVIOUS
<1> HIDE DEF All
<1>4. CASE c.fn = "grant_role"
  BY <1>3, <1>4 DEF Answer, GrantRoleAnswer
<1>5. CASE c.fn = "lock_quote"
  BY <1>2, <1>3, <1>5 DEF Answer, LockAnswer, PriceAnswer
<1>6. CASE c.fn = "revoke_role"
  BY <1>3, <1>6 DEF Answer, RevokeRoleAnswer
<1>7. CASE c.fn = "consume_quote"
  BY <1>2, <1>3, <1>7 DEF Answer, ConsumeAnswer, ConsumeBody
<1>8. CASE c.fn = "renounce_role"
  BY <1>3, <1>8 DEF Answer, RenounceRoleAnswer
<1>9. CASE c.fn \in {"renounce_admin", "set_role_admin"}
  BY <1>2, <1>3, <1>9 DEF Answer
<1>10. CASE c.fn = "transfer_admin_role"
  BY <1>2, <1>3, <1>10 DEF Answer, TransferAdminAnswer
<1>11. CASE c.fn = "accept_admin_transfer"
  BY <1>3, <1>11 DEF Answer, AcceptAdminAnswer
<1> QED
  BY <1>4, <1>5, <1>6, <1>7, <1>8, <1>9, <1>10, <1>11 DEF CallOK, Methods

\* A call at work is a step of the rate lock, or moves roles only.
LEMMA EffectSteps ==
  ASSUME NEW c, CallOK(c), Effect(c)
  PROVE  [Next]_vars
<1>1. CASE UNCHANGED <<rows, locks, uses>> /\ UNCHANGED acVars
  BY <1>1 DEF vars, acVars
<1>2. CASE /\ c.fn = "lock_quote" /\ LockQuote(c.by, c.q, c.t, c.ttl)
  BY <1>2 DEF CallOK, Next
<1>3. CASE /\ c.fn = "consume_quote" /\ ConsumeQuote(c.by, c.q, c.id)
  BY <1>3 DEF CallOK, Next
<1>4. CASE /\ \/ c.fn = "renounce_admin" /\ RenounceAdmin(c.by)
              \/ /\ c.fn = "transfer_admin_role"
                 /\ TransferAdminRole(c.by, c.new, c.until)
              \/ c.fn = "accept_admin_transfer" /\ AcceptAdminTransfer(c.by)
           /\ UNCHANGED <<rows, locks, uses>>
  <2>1. AdminStep
    BY <1>4 DEF CallOK, AdminStep
  <2> QED BY <1>4, <2>1 DEF AdminCall, Next
<1>5. \/ GrantRole(c.by, c.account, c.role) \/ RevokeRole(c.by, c.account, c.role)
      \/ RenounceRole(c.by, c.role) \/ SetRoleAdmin(c.by, c.role, c.admin_role)
      => UNCHANGED acVars
  BY DEF GrantRole, RevokeRole, RenounceRole, Leave, SetRoleAdmin
<1> QED BY <1>1, <1>2, <1>3, <1>4, <1>5 DEF Effect

-----------------------------------------------------------------------------
(* The ledger and the roles at every step.                                 *)

\* What a step does to the members of the roles: nothing, one account more at
\* the end of one array, or one less, its place taken by the last.
RoleMove ==
  \/ members' = members
  \/ \E a \in Accounts, r \in RoleNames :
       /\ ~IsMember(a, r)
       /\ members' = [members EXCEPT ![r] = Append(@, a)]
  \/ \E a \in Accounts, r \in RoleNames :
       /\ IsMember(a, r)
       /\ members' = [members EXCEPT ![r] = Without(@, a)]

\* The array with one account more.
LEMMA AppendFacts ==
  ASSUME NEW s \in Seq(Accounts), NEW a \in Accounts
  PROVE  /\ Append(s, a) \in Seq(Accounts)
         /\ Len(s) \in Nat /\ Len(Append(s, a)) = Len(s) + 1
         /\ \A i \in 1..Len(s) : Append(s, a)[i] = s[i]
         /\ Append(s, a)[Len(s) + 1] = a
OBVIOUS

\* The array with one account less.
LEMMA WithoutFacts ==
  ASSUME NEW s \in Seq(Accounts), NEW a, \E i \in 1..Len(s) : s[i] = a
  PROVE  /\ Without(s, a) \in Seq(Accounts)
         /\ Len(s) \in Nat /\ Len(s) > 0
         /\ Len(Without(s, a)) = Len(s) - 1
         /\ \A i \in 1 .. Len(s) - 1 :
              Without(s, a)[i] = IF s[i] = a THEN s[Len(s)] ELSE s[i]
<1>1. /\ Len(s) \in Nat /\ Len(s) > 0 /\ Len(s) - 1 \in Nat
      /\ \A i \in 1..Len(s) : s[i] \in Accounts
  OBVIOUS
<1>2. Without(s, a) \in [1 .. Len(s) - 1 -> Accounts]
  BY <1>1 DEF Without
<1>3. Without(s, a) \in Seq(Accounts) /\ Len(Without(s, a)) = Len(s) - 1
  BY <1>1, <1>2
<1> QED BY <1>1, <1>3 DEF Without

\* Each call of the roles moves them so, and keeps their types.
LEMMA RoleCalls ==
  ASSUME RolesTypeOK, NEW caller, NEW r \in RoleNames,
         \/ \E a \in Accounts :
              GrantRole(caller, a, r) \/ RevokeRole(caller, a, r)
         \/ caller \in Accounts /\ RenounceRole(caller, r)
         \/ \E ar \in RoleNames : SetRoleAdmin(caller, r, ar)
  PROVE  RoleMove /\ RolesTypeOK' /\ UNCHANGED acVars
<1>1. ASSUME NEW a \in Accounts, GrantRole(caller, a, r)
      PROVE  RoleMove /\ RolesTypeOK' /\ UNCHANGED acVars
  <2>1. Append(members[r], a) \in Seq(Accounts)
    BY AppendFacts DEF RolesTypeOK
  <2>2. /\ members' = IF IsMember(a, r) THEN members
                      ELSE [members EXCEPT ![r] = Append(@, a)]
        /\ existing' = existing \cup {r} /\ roleAdmin' = roleAdmin
        /\ UNCHANGED acVars
    BY <1>1 DEF GrantRole
  <2>3. RoleMove
    BY <2>2 DEF RoleMove
  <2> QED BY <2>1, <2>2, <2>3 DEF RolesTypeOK
<1>2. ASSUME NEW a \in Accounts, Leave(a, r), IsMember(a, r)
      PROVE  RoleMove /\ RolesTypeOK' /\ UNCHANGED acVars
  <2>1. Without(members[r], a) \in Seq(Accounts)
    BY <1>2, WithoutFacts DEF RolesTypeOK, IsMember
  <2>2. /\ members' = [members EXCEPT ![r] = Without(@, a)]
        /\ existing' \subseteq existing /\ roleAdmin' = roleAdmin
        /\ UNCHANGED acVars
    BY <1>2 DEF Leave
  <2>3. RoleMove
    BY <1>2, <2>2 DEF RoleMove
  <2> QED BY <2>1, <2>2, <2>3 DEF RolesTypeOK
<1>3. ASSUME NEW ar \in RoleNames, SetRoleAdmin(caller, r, ar)
      PROVE  RoleMove /\ RolesTypeOK' /\ UNCHANGED acVars
  BY <1>3 DEF SetRoleAdmin, RoleMove, RolesTypeOK
<1>4. ASSUME NEW a \in Accounts, RevokeRole(caller, a, r)
      PROVE  Leave(a, r) /\ IsMember(a, r)
  BY <1>4 DEF RevokeRole, RevokeRoleAnswer
<1>5. ASSUME caller \in Accounts, RenounceRole(caller, r)
      PROVE  Leave(caller, r) /\ IsMember(caller, r)
  BY <1>5 DEF RenounceRole, RenounceRoleAnswer
<1> QED BY <1>1, <1>2, <1>3, <1>4, <1>5

\* A step that leaves the roles alone.
LEMMA RolesAlone ==
  ASSUME RolesTypeOK, UNCHANGED roleVars
  PROVE  RoleMove /\ RolesTypeOK'
BY DEF roleVars, RoleMove, RolesTypeOK

\* The call that is waiting to be sent was assembled.
CallTyped == tx # NoTx => CallOK(tx.call)

\* Every step of the client and of the others, on the ledger: a step of the
\* rate lock or none, and one move of the roles or none.
LEMMA LedgerSteps ==
  ASSUME RolesTypeOK, CallTyped, [ClientNext]_allVars
  PROVE  [Next]_vars /\ RoleMove /\ RolesTypeOK'
<1>1. CASE UNCHANGED <<vars, roleVars>>
  BY <1>1, RolesAlone
<1>2. CASE Direct
  <2>1. CASE Next /\ UNCHANGED roleVars
    BY <2>1, RolesAlone
  <2>2. ASSUME NEW caller \in Accounts, RoleCall(caller),
               UNCHANGED <<rows, locks, uses>>
        PROVE  [Next]_vars /\ RoleMove /\ RolesTypeOK'
    <3>1. PICK r \in RoleNames :
            \/ \E a \in Grantees[r] : GrantRole(caller, a, r)
            \/ \E a \in Accounts : RevokeRole(caller, a, r)
            \/ RenounceRole(caller, r)
            \/ \E ar \in RoleNames : SetRoleAdmin(caller, r, ar)
      BY <2>2 DEF RoleCall
    <3>2. Grantees[r] \subseteq Accounts
      BY RoleAssumption
    <3>3. RoleMove /\ RolesTypeOK' /\ UNCHANGED acVars
      BY <3>1, <3>2, RoleCalls
    <3> QED BY <2>2, <3>3 DEF vars, acVars
  <2>3. ASSUME NEW caller \in Accounts, RenounceAdmin(caller),
               UNCHANGED roleVars, UNCHANGED <<rows, locks, uses>>
        PROVE  [Next]_vars /\ RoleMove /\ RolesTypeOK'
    <3>1. AdminCall
      BY <2>3 DEF AdminCall, AdminStep
    <3> QED BY <2>3, <3>1, RolesAlone DEF Next
  <2> QED BY <1>2, <2>1, <2>2, <2>3 DEF Direct
<1>3. CASE Send
  <2>1. CASE UNCHANGED <<vars, roleVars>>
    BY <2>1, <1>1
  <2>2. CASE Effect(tx.call)
    <3> DEFINE c == tx.call
    <3>1. CallOK(c)
      BY <1>3 DEF Send, CallTyped
    <3>2. [Next]_vars
      BY <2>2, <3>1, EffectSteps
    <3>3. CASE UNCHANGED roleVars
      BY <3>2, <3>3, RolesAlone
    <3>4. CASE \/ c.fn = "grant_role" /\ GrantRole(c.by, c.account, c.role)
               \/ c.fn = "revoke_role" /\ RevokeRole(c.by, c.account, c.role)
               \/ c.fn = "renounce_role" /\ RenounceRole(c.by, c.role)
               \/ /\ c.fn = "set_role_admin"
                  /\ SetRoleAdmin(c.by, c.role, c.admin_role)
      <4>1. /\ c.by \in Accounts /\ c.role \in RoleNames
            /\ c.fn \in {"grant_role", "revoke_role"} => c.account \in Accounts
            /\ c.fn = "set_role_admin" => c.admin_role \in RoleNames
        BY <3>1, <3>4 DEF CallOK
      <4> HIDE DEF c
      <4>2. RoleMove /\ RolesTypeOK'
        BY <3>4, <4>1, RoleCalls
      <4> QED BY <3>2, <4>2
    <3> QED BY <2>2, <3>3, <3>4 DEF Effect, roleVars
  <2> QED BY <1>3, <2>1, <2>2 DEF Send
<1>4. CASE Assemble \/ ReadActive \/ EnumRead
           \/ (\E q \in QuoteIds : ReadQuote(q))
           \/ (\E r \in RoleNames : EnumStart(r))
           \/ UNCHANGED allVars
  <2>1. UNCHANGED <<vars, roleVars>>
    BY <1>4 DEF Assemble, ReadActive, EnumRead, ReadQuote, EnumStart, allVars
  <2> QED BY <1>1, <2>1
<1> QED BY <1>2, <1>3, <1>4 DEF ClientNext

-----------------------------------------------------------------------------
(* Types: the transaction that waits, and what each method decodes.        *)

\* The clock never goes back.
LEMMA ClockGrows ==
  ASSUME TypeOK, [Next]_vars
  PROVE  seq \in Nat /\ seq' \in Nat /\ seq <= seq'
<1>1. seq \in Nat
  BY Constants DEF TypeOK, ACTypeOK
<1>2. seq' = seq \/ seq' = seq + 1
  BY AdminType DEF Next, CloseLedger, CloseLedgerAC, AdminCall, LockQuote,
     ConsumeQuote, acVars, vars
<1> QED BY <1>1, <1>2

\* A transaction that waits was assembled with an account to sign it, no
\* enumeration is under way, and the expiry lock_quote returned when simulated
\* is not beyond the one it would have now.
TxInv ==
  tx # NoTx =>
    /\ CallOK(tx.call)
    /\ scan = NoTx
    /\ tx.call.fn = "lock_quote" =>
         /\ tx.result[1] \in U32 /\ tx.result = <<tx.result[1]>>
         /\ tx.result[1] <= seq + tx.call.ttl
    /\ tx.call.fn # "lock_quote" => tx.result = << >>

\* Assembling a call records what its simulation answered.
LEMMA AssembleTx ==
  ASSUME TypeOK, Assemble
  PROVE  TxInv'
<1>1. PICK c \in Calls :
        Answer(c) = "Ok" /\ tx' = [call |-> c, result |-> Returns(c)]
  BY DEF Assemble
<1>2. CallOK(c)
  BY <1>1, AssembledCall DEF TypeOK
<1>3. tx'.call = c /\ tx'.result = Returns(c) /\ scan' = NoTx /\ seq' = seq
  BY <1>1 DEF Assemble, vars
<1>4. ASSUME c.fn = "lock_quote"
      PROVE  /\ Returns(c) = <<seq + c.ttl>> /\ Returns(c)[1] = seq + c.ttl
             /\ seq + c.ttl \in U32
  <2>1. c.by \in Accounts /\ c.t \in Terms /\ c.ttl \in Ttls
    BY <1>2, <1>4 DEF CallOK
  <2>2. LockAnswer(c.by, c.t, c.ttl) = "Ok"
    BY <1>1, <1>4 DEF Answer
  <2>3. ~(seq + c.ttl > U32_MAX)
    BY <2>1, <2>2, LockFacts
  <2>4. c.ttl \in U32 /\ seq \in Nat
    BY <2>1, Constants DEF TypeOK, ACTypeOK
  <2>5. seq + c.ttl \in U32
    BY <2>3, <2>4, Constants DEF U32
  <2> QED BY <1>4, <2>5 DEF Returns
<1>5. c.fn # "lock_quote" => Returns(c) = << >>
  BY DEF Returns
<1>6. c.fn = "lock_quote" => seq + c.ttl \in Int /\ seq + c.ttl <= seq + c.ttl
  BY <1>4, Constants DEF U32
<1> QED BY <1>2, <1>3, <1>4, <1>5, <1>6 DEF TxInv, CallOK

\* Every step keeps it: the clock only makes the recorded expiry smaller than
\* the one the call would return now.
LEMMA NextTx ==
  ASSUME TypeOK, RolesTypeOK, TxInv, [ClientNext]_allVars
  PROVE  TxInv'
<1>1. CallTyped
  BY DEF TxInv, CallTyped
<1>2. seq \in Nat /\ seq' \in Nat /\ seq <= seq'
  BY <1>1, LedgerSteps, ClockGrows
<1>3. ASSUME tx' = tx, tx # NoTx => scan' = NoTx
      PROVE  TxInv'
  <2> SUFFICES ASSUME tx # NoTx PROVE TxInv'
    BY <1>3 DEF TxInv
  <2>1. /\ CallOK(tx.call) /\ scan' = NoTx
        /\ tx.call.fn # "lock_quote" => tx.result = << >>
    BY <1>3 DEF TxInv
  <2>2. ASSUME tx.call.fn = "lock_quote"
        PROVE  /\ tx.result[1] \in U32 /\ tx.result = <<tx.result[1]>>
               /\ tx.result[1] <= seq' + tx.call.ttl
    <3>1. /\ tx.result[1] \in U32 /\ tx.result = <<tx.result[1]>>
          /\ tx.result[1] <= seq + tx.call.ttl
      BY <2>2 DEF TxInv
    <3>2. tx.call.ttl \in Ttls
      BY <2>1, <2>2 DEF CallOK
    <3>3. \A n \in U32 : n \in Nat
      BY Constants DEF U32
    <3>4. tx.call.ttl \in Nat /\ tx.result[1] \in Nat
      BY <3>1, <3>2, <3>3, Constants
    <3> QED BY <1>2, <3>1, <3>4
  <2> QED BY <1>3, <2>1, <2>2 DEF TxInv, CallOK
<1>4. CASE Direct
  <2>1. tx # NoTx => ~Reading
    BY DEF TxInv, Reading
  <2> QED BY <1>3, <1>4, <2>1 DEF Direct, TxInv
<1>5. CASE Assemble
  BY <1>5, AssembleTx
<1>6. CASE Send \/ \E r \in RoleNames : EnumStart(r)
  BY <1>6 DEF Send, EnumStart, TxInv
<1>7. CASE ReadActive \/ \E q \in QuoteIds : ReadQuote(q)
  BY <1>3, <1>7 DEF ReadActive, ReadQuote, TxInv
<1>8. CASE EnumRead
  BY <1>3, <1>8 DEF EnumRead, Reading, TxInv
<1>9. CASE UNCHANGED allVars
  BY <1>3, <1>9 DEF allVars, clientVars, TxInv
<1> QED BY <1>4, <1>5, <1>6, <1>7, <1>8, <1>9 DEF ClientNext

\* No account has two places in a role.
DistinctMembers ==
  \A r \in RoleNames : \A i, j \in 1..Len(members[r]) :
    members[r][i] = members[r][j] => i = j

\* A move of the roles keeps it: who joins is new, and the last member takes
\* the one place that is free.
LEMMA MoveDistinct ==
  ASSUME RolesTypeOK, DistinctMembers, RoleMove
  PROVE  DistinctMembers'
<1> SUFFICES ASSUME NEW r \in RoleNames,
                    NEW i \in 1..Len(members'[r]),
                    NEW j \in 1..Len(members'[r]),
                    members'[r][i] = members'[r][j]
             PROVE  i = j
  BY DEF DistinctMembers
<1> DEFINE s == members[r]
<1>1. s \in Seq(Accounts) /\ \A k, l \in 1..Len(s) : s[k] = s[l] => k = l
  BY DEF RolesTypeOK, DistinctMembers
<1>2. CASE members'[r] = s
  BY <1>1, <1>2
<1>3. ASSUME NEW a \in Accounts, ~IsMember(a, r), members'[r] = Append(s, a)
      PROVE  i = j
  <2>1. \A k \in 1..Len(s) : s[k] # a
    BY <1>3 DEF IsMember
  <2> HIDE DEF s
  <2>2. /\ Len(s) \in Nat /\ Len(Append(s, a)) = Len(s) + 1
        /\ \A k \in 1..Len(s) : Append(s, a)[k] = s[k]
        /\ Append(s, a)[Len(s) + 1] = a
    BY <1>1, AppendFacts
  <2>3. i \in 1 .. Len(s) + 1 /\ j \in 1 .. Len(s) + 1
    BY <1>3, <2>2
  <2>4. Append(s, a)[i] = Append(s, a)[j]
    BY <1>3
  <2> HIDE <1>3
  <2> QED BY <1>1, <2>1, <2>2, <2>3, <2>4
<1>4. ASSUME NEW a \in Accounts, IsMember(a, r), members'[r] = Without(s, a)
      PROVE  i = j
  <2>1. \E k \in 1..Len(s) : s[k] = a
    BY <1>4 DEF IsMember
  <2> DEFINE w == Without(s, a)
  <2> HIDE DEF s
  <2>2. /\ Len(s) \in Nat /\ Len(s) > 0 /\ Len(w) = Len(s) - 1
        /\ \A k \in 1 .. Len(s) - 1 : w[k] = IF s[k] = a THEN s[Len(s)] ELSE s[k]
    BY <1>1, <2>1, WithoutFacts
  <2>3. /\ i \in 1 .. Len(s) - 1 /\ j \in 1 .. Len(s) - 1 /\ w[i] = w[j]
    BY <1>4, <2>2
  <2> HIDE DEF w
  <2> QED BY <1>1, <2>2, <2>3
<1>5. \/ members'[r] = s
      \/ \E a \in Accounts : ~IsMember(a, r) /\ members'[r] = Append(s, a)
      \/ \E a \in Accounts : IsMember(a, r) /\ members'[r] = Without(s, a)
  BY DEF RoleMove, RolesTypeOK
<1> QED BY <1>2, <1>3, <1>4, <1>5

-----------------------------------------------------------------------------
(* The client's part of the invariant so far, and the type theorem.        *)

ClientInv ==
  StorageMatchesHistory /\ RolesTypeOK /\ TxInv /\ DistinctMembers

\* The behaviours start in it.
LEMMA InitClient == ClientInit => ClientInv
<1> SUFFICES ASSUME ClientInit PROVE ClientInv
  OBVIOUS
<1>1. Init /\ RolesInit /\ tx = NoTx
  BY DEF ClientInit, deploy
<1>2. StorageMatchesHistory
  BY <1>1, InitType, InitHistory DEF StorageMatchesHistory
<1>3. RolesTypeOK /\ DistinctMembers
  BY <1>1 DEF RolesInit, RolesTypeOK, DistinctMembers
<1> QED BY <1>1, <1>2, <1>3 DEF ClientInv, TxInv

\* And every step keeps it.
LEMMA NextClient == ClientInv /\ [ClientNext]_allVars => ClientInv'
<1> SUFFICES ASSUME ClientInv, [ClientNext]_allVars PROVE ClientInv'
  OBVIOUS
<1>1. TypeOK /\ CallTyped
  BY DEF ClientInv, StorageMatchesHistory, TxInv, CallTyped
<1>2. [Next]_vars /\ RoleMove /\ RolesTypeOK'
  BY <1>1, LedgerSteps DEF ClientInv
<1>3. StorageMatchesHistory'
  BY <1>2, NextHistory DEF ClientInv
<1>4. TxInv'
  BY <1>1, NextTx DEF ClientInv
<1>5. DistinctMembers'
  BY <1>2, MoveDistinct DEF ClientInv
<1> QED BY <1>2, <1>3, <1>4, <1>5 DEF ClientInv

\* It holds in every state of the client.
LEMMA ClientAlways == ClientSpec => []ClientInv
BY InitClient, NextClient, PTL DEF ClientSpec

\* The arrays are no longer than there are accounts.
LEMMA MemberCount ==
  ASSUME IsFiniteSet(Accounts), RolesTypeOK, DistinctMembers,
         NEW r \in RoleNames
  PROVE  Len(members[r]) \in Nat /\ Len(members[r]) <= Cardinality(Accounts)
<1> DEFINE s == members[r]
           n == Len(s)
<1>1. s \in Seq(Accounts) /\ n \in Nat
  BY DEF RolesTypeOK
<1>2. s \in [1..n -> Accounts]
  BY <1>1
<1>3. \A i, j \in 1..n : s[i] = s[j] => i = j
  BY DEF DistinctMembers
<1>4. s \in Injection(1..n, Accounts)
  BY <1>2, <1>3 DEF Injection, IsInjective
<1>5. Cardinality(1..n) <= Cardinality(Accounts)
  BY <1>4, FS_Injection
<1>6. Cardinality(1..n) = n
  BY <1>1, FS_Interval
<1> QED BY <1>1, <1>5, <1>6

\* A position has_role answers is one get_role_member gives the account for.
LEMMA RoleReads ==
  ASSUME IsFiniteSet(Accounts), Cardinality(Accounts) <= U32_MAX,
         RolesTypeOK, DistinctMembers, NEW r \in RoleNames, NEW a \in Accounts
  PROVE  /\ has_role(a, r) \in fromJSON.has_role
         /\ IsMember(a, r) => get_role_member(r, has_role(a, r)[1]) = a
<1> DEFINE s == members[r]
<1>1. Len(s) \in Nat /\ Len(s) <= U32_MAX
  BY MemberCount, FS_CardinalityType, Constants
<1>2. fromJSON.has_role = {<< >>} \cup {<<x>> : x \in U32}
  BY DEF fromJSON
<1>3. CASE ~IsMember(a, r)
  BY <1>2, <1>3 DEF has_role
<1>4. CASE IsMember(a, r)
  <2> DEFINE k == CHOOSE i \in 0 .. Len(s) - 1 : s[i + 1] = a
  <2>1. PICK j \in 1..Len(s) : s[j] = a
    BY <1>4 DEF IsMember
  <2>2. j - 1 \in 0 .. Len(s) - 1 /\ s[(j - 1) + 1] = a
    BY <1>1, <2>1
  <2>3. k \in 0 .. Len(s) - 1 /\ s[k + 1] = a
    BY <2>2
  <2>4. has_role(a, r) = <<k>>
    BY <1>4 DEF has_role
  <2> HIDE DEF k
  <2>5. k \in U32 /\ k + 1 \in DOMAIN s
    <3>1. s \in Seq(Accounts)
      BY DEF RolesTypeOK
    <3> QED BY <1>1, <2>3, <3>1, Constants DEF U32
  <2>6. get_role_member(r, k) = a
    BY <2>3, <2>5 DEF get_role_member
  <2> QED BY <1>2, <2>4, <2>5, <2>6
<1> QED BY <1>3, <1>4

\* Whatever the ledger holds, each method's result is of the type its revived
\* transaction decodes, and a call that is sent is answered "Ok", an error of
\* the contract or one that is thrown, as long as no more accounts exist than
\* the u32 count of a role's members can tell.
THEOREM ClientTypeCorrect ==
  ASSUME IsFiniteSet(Accounts), Cardinality(Accounts) <= U32_MAX
  PROVE  ClientSpec => []ClientTypeOK
<1>1. ClientInv => ClientTypeOK
  <2> SUFFICES ASSUME ClientInv PROVE ClientTypeOK
    OBVIOUS
  <2>1. TypeOK /\ RolesTypeOK /\ DistinctMembers /\ TxInv
    BY DEF ClientInv, StorageMatchesHistory
  <2>2. \A r \in RoleNames, a \in Accounts :
          /\ has_role(a, r) \in fromJSON.has_role
          /\ IsMember(a, r) => get_role_member(r, has_role(a, r)[1]) = a
    BY <2>1, RoleReads
  <2>3. \A q \in QuoteIds : get_quote(q) \in fromJSON.get_quote
    <3>1. fromJSON.get_quote = Row \cup {NoRow}
      BY DEF fromJSON
    <3> QED BY <2>1, <3>1 DEF get_quote, TypeOK
  <2>4. get_existing_roles \in fromJSON.get_existing_roles
    <3>1. fromJSON.get_existing_roles = SUBSET RoleNames
      BY DEF fromJSON
    <3> QED BY <2>1, <3>1 DEF get_existing_roles, RolesTypeOK
  <2>5. ASSUME tx # NoTx
        PROVE  /\ tx.result \in fromJSON[tx.call.fn]
               /\ Answer(tx.call) \in {"Ok"} \cup Range(Errors) \cup ThrownErrors
    <3>1. CallOK(tx.call)
      BY <2>1, <2>5 DEF TxInv
    <3>2. fromJSON["lock_quote"] = {<<n>> : n \in U32}
      BY DEF fromJSON
    <3>3. \A f \in Methods \ {"lock_quote"} : fromJSON[f] = {<< >>}
      <4>1. /\ fromJSON["grant_role"] = {<< >>}
            /\ fromJSON["revoke_role"] = {<< >>}
            /\ fromJSON["consume_quote"] = {<< >>}
            /\ fromJSON["renounce_role"] = {<< >>}
            /\ fromJSON["renounce_admin"] = {<< >>}
            /\ fromJSON["set_role_admin"] = {<< >>}
            /\ fromJSON["transfer_admin_role"] = {<< >>}
            /\ fromJSON["accept_admin_transfer"] = {<< >>}
        BY DEF fromJSON
      <4> QED BY <4>1 DEF Methods
    <3>4. tx.result \in fromJSON[tx.call.fn]
      <4>1. CASE tx.call.fn = "lock_quote"
        <5>1. tx.result[1] \in U32 /\ tx.result = <<tx.result[1]>>
          BY <2>1, <2>5, <4>1 DEF TxInv
        <5> QED BY <3>2, <4>1, <5>1
      <4>2. CASE tx.call.fn # "lock_quote"
        <5>1. tx.result = << >> /\ tx.call.fn \in Methods \ {"lock_quote"}
          BY <2>1, <2>5, <3>1, <4>2 DEF TxInv, CallOK
        <5> QED BY <3>3, <5>1
      <4> QED BY <4>1, <4>2
    <3> QED BY <3>1, <3>4, AnswerType
  <2> QED BY <2>1, <2>2, <2>3, <2>4, <2>5 DEF ClientTypeOK
<1> QED BY <1>1, ClientAlways, PTL

-----------------------------------------------------------------------------
(* What get_quote and is_active showed.                                    *)

\* A step of the ledger, as one quote id sees it: nothing but the clock, one
\* lock more, or one use more of the last lock of a quote that was active.  No
\* quote becomes active again but by a new lock.
QuoteMove(q) ==
  \/ /\ locks'[q] = locks[q] /\ uses'[q] = uses[q]
     /\ ~IsActive(q) => ~IsActive(q)'
  \/ /\ uses'[q] = uses[q]
     /\ Len(locks'[q]) = Len(locks[q]) + 1
     /\ \A i \in 1..Len(locks[q]) : locks'[q][i] = locks[q][i]
  \/ /\ locks'[q] = locks[q] /\ IsActive(q)
     /\ Len(uses'[q]) = Len(uses[q]) + 1
     /\ \A i \in 1..Len(uses[q]) : uses'[q][i] = uses[q][i]
     /\ uses'[q][Len(uses[q]) + 1].nth = Len(locks[q])

\* Every step is one of these for every quote id.
LEMMA QuoteMoves ==
  ASSUME TypeOK, [Next]_vars, NEW q \in QuoteIds
  PROVE  QuoteMove(q)
<1>1. seq \in Int /\ \A r \in QuoteIds : rows[r] # NoRow => rows[r].expires \in Int
  BY Constants DEF TypeOK, ACTypeOK, Row, U32
<1>2. ASSUME locks'[q] = locks[q], uses'[q] = uses[q], rows'[q] = rows[q],
             seq' = seq
      PROVE  QuoteMove(q)
  BY <1>2 DEF QuoteMove, IsActive
<1>3. CASE CloseLedger
  <2>1. /\ seq' = seq + 1 /\ locks' = locks /\ uses' = uses
        /\ rows'[q] = rows[q] \/ rows'[q] = NoRow
    BY <1>3 DEF CloseLedger, CloseLedgerAC
  <2>2. ~IsActive(q) => ~IsActive(q)'
    BY <1>1, <2>1 DEF IsActive
  <2> QED BY <2>1, <2>2 DEF QuoteMove
<1>4. CASE AdminCall
  BY <1>2, <1>4, AdminType DEF AdminCall
<1>5. ASSUME NEW caller \in Accounts, NEW r \in QuoteIds, NEW t \in Terms,
             NEW ttl \in Ttls, LockQuote(caller, r, t, ttl)
      PROVE  QuoteMove(q)
  <2> DEFINE L == [terms |-> t, at |-> seq, expires |-> seq + ttl]
  <2>1. /\ rows' = [rows EXCEPT ![r] = RowAfterLock(r, t, ttl)]
        /\ locks' = [locks EXCEPT ![r] = Append(@, L)]
        /\ uses' = uses /\ seq' = seq
    BY <1>5 DEF LockQuote, acVars
  <2>2. CASE r = q
    <3>1. locks'[q] = Append(locks[q], L) /\ locks[q] \in Seq(Lock)
      BY <2>1, <2>2 DEF TypeOK
    <3>2. /\ Len(locks'[q]) = Len(locks[q]) + 1
          /\ \A i \in 1..Len(locks[q]) : locks'[q][i] = locks[q][i]
      BY <3>1
    <3> QED BY <2>1, <3>2 DEF QuoteMove
  <2>3. CASE r # q
    BY <1>2, <2>1, <2>3 DEF TypeOK
  <2> QED BY <2>2, <2>3
<1>6. ASSUME NEW caller \in Accounts, NEW r \in QuoteIds, NEW id \in TxIds,
             ConsumeQuote(caller, r, id)
      PROVE  QuoteMove(q)
  <2> DEFINE U == [tx |-> id, price |-> rows[r].price, fee |-> rows[r].fee,
                   at |-> seq, nth |-> Len(locks[r])]
  <2>1. /\ rows' = [rows EXCEPT ![r].consumed = TRUE]
        /\ uses' = [uses EXCEPT ![r] = Append(@, U)]
        /\ locks' = locks /\ seq' = seq
        /\ ConsumeBody(r) = "Ok"
    BY <1>6 DEF ConsumeQuote, ConsumeAnswer, OnlyAdmin, acVars
  <2>2. CASE r = q
    <3>1. uses'[q] = Append(uses[q], U) /\ uses[q] \in Seq(Use)
      BY <2>1, <2>2 DEF TypeOK
    <3>2. /\ Len(uses'[q]) = Len(uses[q]) + 1
          /\ \A i \in 1..Len(uses[q]) : uses'[q][i] = uses[q][i]
          /\ uses'[q][Len(uses[q]) + 1] = U
      BY <3>1
    <3>3. IsActive(q)
      BY <1>1, <2>1, <2>2 DEF IsActive, ConsumeBody
    <3> QED BY <2>1, <3>2, <3>3 DEF QuoteMove
  <2>3. CASE r # q
    BY <1>2, <2>1, <2>3 DEF TypeOK
  <2> QED BY <2>2, <2>3
<1>7. CASE UNCHANGED vars
  BY <1>2, <1>7 DEF vars
<1> QED BY <1>3, <1>4, <1>5, <1>6, <1>7 DEF Next

Shown ==
  [q : QuoteIds, quote : Row, nth : Nat,
   active : {"unread", "yes", "no"}, uses : Nat]

\* What was shown is the lock numbered shown.nth; if is_active denied it, all
\* its uses are among those that were there by then, and it is not active as
\* long as no other lock follows.
ShownInv ==
  shown # NoTx =>
    /\ shown \in Shown
    /\ shown.nth \in 1..Len(locks[shown.q])
    /\ shown.quote.price = locks[shown.q][shown.nth].terms.price
    /\ shown.quote.fee = locks[shown.q][shown.nth].terms.fee
    /\ shown.quote.expires = locks[shown.q][shown.nth].expires
    /\ shown.active = "no" =>
         /\ \A i \in 1..Len(uses[shown.q]) :
              uses[shown.q][i].nth = shown.nth => i <= shown.uses
         /\ Len(locks[shown.q]) = shown.nth => ~IsActive(shown.q)

\* Whatever others do, what was shown stays so: a use that is new settles a
\* lock that is active, and so another one.
LEMMA ShownStays ==
  ASSUME StorageMatchesHistory, StorageMatchesHistory', ShownInv, [Next]_vars,
         shown' = shown
  PROVE  ShownInv'
<1> SUFFICES ASSUME shown # NoTx PROVE ShownInv'
  BY DEF ShownInv
<1> DEFINE q == shown.q
           n == shown.nth
<1>1. shown \in Shown /\ q \in QuoteIds /\ n \in Nat
  BY DEF ShownInv, Shown
<1>2. QuoteMove(q)
  BY <1>1, QuoteMoves DEF StorageMatchesHistory
<1>3. /\ n \in 1..Len(locks[q]) /\ Len(locks[q]) \in Nat
      /\ Len(uses[q]) \in Nat
  BY <1>1 DEF ShownInv, StorageMatchesHistory, TypeOK
<1>4. /\ n \in 1..Len(locks'[q]) /\ locks'[q][n] = locks[q][n]
  BY <1>2, <1>3 DEF QuoteMove
<1>5. ASSUME shown.active = "no"
      PROVE  /\ \A i \in 1..Len(uses'[q]) : uses'[q][i].nth = n => i <= shown.uses
             /\ Len(locks'[q]) = n => ~IsActive(q)'
  <2>1. /\ \A i \in 1..Len(uses[q]) : uses[q][i].nth = n => i <= shown.uses
        /\ Len(locks[q]) = n => ~IsActive(q)
    BY <1>5 DEF ShownInv
  <2>2. CASE /\ locks'[q] = locks[q] /\ uses'[q] = uses[q]
             /\ ~IsActive(q) => ~IsActive(q)'
    BY <2>1, <2>2
  <2>3. CASE uses'[q] = uses[q] /\ Len(locks'[q]) = Len(locks[q]) + 1
    BY <1>3, <2>1, <2>3
  <2>4. CASE /\ locks'[q] = locks[q] /\ IsActive(q)
             /\ Len(uses'[q]) = Len(uses[q]) + 1
             /\ \A i \in 1..Len(uses[q]) : uses'[q][i] = uses[q][i]
             /\ uses'[q][Len(uses[q]) + 1].nth = Len(locks[q])
    <3>1. Len(locks[q]) # n
      BY <2>1, <2>4
    <3> QED BY <1>3, <2>1, <2>4, <3>1
  <2> QED BY <1>2, <2>2, <2>3, <2>4 DEF QuoteMove
<1>6. shown'.q = q /\ shown'.nth = n
  OBVIOUS
<1> QED BY <1>1, <1>4, <1>5, <1>6 DEF ShownInv

\* get_quote shows the last lock.
LEMMA ReadQuoteShows ==
  ASSUME StorageMatchesHistory, NEW q \in QuoteIds, ReadQuote(q)
  PROVE  ShownInv'
<1> DEFINE s == [q |-> q, quote |-> rows[q], nth |-> Len(locks[q]),
                 active |-> "unread", uses |-> 0]
<1>1. rows[q] # NoRow /\ shown' = s /\ locks' = locks
  BY DEF ReadQuote, get_quote, vars
<1>2. rows[q] \in Row /\ Len(locks[q]) \in Nat
  BY <1>1 DEF StorageMatchesHistory, TypeOK
<1>3. /\ Len(locks[q]) > 0 /\ rows[q].price = LastLock(q).terms.price
      /\ rows[q].fee = LastLock(q).terms.fee
      /\ rows[q].expires = LastLock(q).expires
  BY <1>1 DEF StorageMatchesHistory, QuoteInv, RowInv
<1>4. s \in Shown
  BY <1>2 DEF Shown
<1> QED BY <1>1, <1>2, <1>3, <1>4 DEF ShownInv, LastLock

\* is_active is asked of the lock that was shown, and when it answers no, the
\* uses so far are all there will be of that lock.
LEMMA ReadActiveShows ==
  ASSUME StorageMatchesHistory, ShownInv, ReadActive
  PROVE  ShownInv'
<1> DEFINE q == shown.q
           a == IF is_active(q) THEN "yes" ELSE "no"
           m == Len(uses[q])
<1>1. /\ shown # NoTx /\ shown \in Shown /\ Len(locks[q]) = shown.nth
      /\ shown' = [shown EXCEPT !.active = a, !.uses = m]
      /\ locks' = locks /\ uses' = uses /\ rows' = rows /\ seq' = seq
  BY DEF ReadActive, ShownInv, vars
<1>2. q \in QuoteIds /\ m \in Nat /\ a \in {"yes", "no"}
  BY <1>1 DEF Shown, StorageMatchesHistory, TypeOK
<1>3. a = "no" => ~IsActive(q)
  BY DEF is_active
<1> HIDE DEF a, m
<1>4. /\ shown' \in Shown /\ shown'.q = q /\ shown'.nth = shown.nth
      /\ shown'.quote = shown.quote /\ shown'.active = a /\ shown'.uses = m
  BY <1>1, <1>2 DEF Shown
<1>5. IsActive(q)' <=> IsActive(q)
  BY <1>1 DEF IsActive
<1> QED BY <1>1, <1>2, <1>3, <1>4, <1>5 DEF ShownInv, IsActive, m

\* The invariant of the reads, at every step.
LEMMA NextShown ==
  ClientInv /\ ClientInv' /\ ShownInv /\ [ClientNext]_allVars => ShownInv'
<1> SUFFICES ASSUME ClientInv, ClientInv', ShownInv, [ClientNext]_allVars
             PROVE  ShownInv'
  OBVIOUS
<1>1. /\ StorageMatchesHistory /\ StorageMatchesHistory' /\ [Next]_vars
  BY LedgerSteps DEF ClientInv, TxInv, CallTyped
<1>2. CASE shown' = shown
  BY <1>1, <1>2, ShownStays
<1>3. CASE ReadActive
  BY <1>1, <1>3, ReadActiveShows
<1>4. CASE \E q \in QuoteIds : ReadQuote(q)
  BY <1>1, <1>4, ReadQuoteShows
<1> QED
  BY <1>2, <1>3, <1>4
  DEF ClientNext, Direct, Assemble, Send, EnumStart, EnumRead, allVars, clientVars

\* What get_quote showed binds the settlement, whoever consumes, whatever was
\* locked over it since and however long after: the use of the lock it showed
\* has its price and fee and comes before its expiry, and a lock that is_active
\* denied is never used again.
THEOREM ShownTermsBind == ClientSpec => []SettlesAtTermsShown
<1>1. ClientInit => ShownInv
  BY DEF ClientInit, ShownInv
<1>2. ClientInv /\ ShownInv => SettlesAtTermsShown
  <2> SUFFICES ASSUME ClientInv, ShownInv, shown # NoTx,
                      NEW i \in 1..Len(uses[shown.q]),
                      uses[shown.q][i].nth = shown.nth
               PROVE  LET u == uses[shown.q][i]
                      IN  /\ u.price = shown.quote.price
                          /\ u.fee = shown.quote.fee
                          /\ u.at < shown.quote.expires
                          /\ shown.active = "no" => i <= shown.uses
    BY DEF SettlesAtTermsShown
  <2>1. shown.q \in QuoteIds
    BY DEF ShownInv, Shown
  <2>2. UseInv(shown.q)
    BY <2>1 DEF ClientInv, StorageMatchesHistory, QuoteInv
  <2> QED BY <2>2 DEF ShownInv, UseInv
<1> QED BY <1>1, <1>2, NextShown, ClientAlways, PTL DEF ClientSpec

-----------------------------------------------------------------------------
(* The expiry lock_quote returned when it was simulated.                   *)

\* The quote a sent lock_quote stores expires no earlier than its simulation
\* said, however many ledgers have closed and whatever row it replaces.
THEOREM ShownExpiryHolds == ClientSpec => ShownExpiryIsSafe
<1>1. ClientInv /\ [ClientNext]_allVars =>
        [tx # NoTx /\ tx' = NoTx /\ locks' # locks =>
           rows'[tx.call.q].expires >= tx.result[1]]_allVars
  <2> SUFFICES ASSUME ClientInv, ClientNext,
                      tx # NoTx, tx' = NoTx, locks' # locks
               PROVE  rows'[tx.call.q].expires >= tx.result[1]
    BY DEF allVars, vars
  <2> DEFINE c == tx.call
  <2>1. CallOK(c) /\ TypeOK
    BY DEF ClientInv, TxInv, StorageMatchesHistory
  <2>2. Send
    BY DEF ClientNext, Direct, Assemble, ReadQuote, ReadActive, EnumStart,
       EnumRead, vars
  <2>3. Effect(c)
    BY <2>2 DEF Send, vars
  <2>4. c.fn = "lock_quote" /\ LockQuote(c.by, c.q, c.t, c.ttl)
    BY <2>3 DEF Effect, ConsumeQuote
  <2>5. c.q \in QuoteIds /\ c.ttl \in Ttls
    BY <2>1, <2>4 DEF CallOK
  <2>6. rows'[c.q].expires = seq + c.ttl
    <3>1. rows'[c.q] = RowAfterLock(c.q, c.t, c.ttl)
      BY <2>1, <2>4, <2>5 DEF LockQuote, TypeOK
    <3> QED BY <3>1 DEF RowAfterLock
  <2>7. tx.result[1] <= seq + c.ttl /\ tx.result[1] \in U32
    BY <2>4 DEF ClientInv, TxInv
  <2>8. seq \in Int /\ c.ttl \in Int /\ tx.result[1] \in Int
    <3>1. \A n \in U32 : n \in Int
      BY Constants DEF U32
    <3> QED BY <2>1, <2>5, <2>7, <3>1, Constants DEF TypeOK, ACTypeOK
  <2> QED BY <2>6, <2>7, <2>8
<1> QED BY <1>1, ClientAlways, PTL DEF ClientSpec, ShownExpiryIsSafe

-----------------------------------------------------------------------------
(* The enumeration of a role.                                              *)

Scan ==
  [role : RoleNames, count : Nat, next : Nat, got : SUBSET Accounts,
   kept : SUBSET Accounts, left : Nat,
   status : {"reading", "done", "failed"}]

\* The members m of the role scanned, against a record sc of the enumeration.
\* An account that kept the role is within the positions counted at the start.
InReach(sc, m) ==
  \A a \in sc.kept : \E i \in 1..Len(m) : i <= sc.count /\ m[i] = a

\* Those who kept the role, were not read, and are behind the reader.
Missed(sc, m) ==
  {a \in sc.kept \ sc.got : \E i \in 1..Len(m) : i <= sc.next /\ m[i] = a}

\* While reading, an account comes to be behind the reader unread only when it
\* takes the place of one that leaves; and the array is shorter than it was
\* counted by no more than the accounts that left.
ReadInv(sc, m) ==
  /\ InReach(sc, m)
  /\ Cardinality(Missed(sc, m)) <= sc.left
  /\ Len(m) >= sc.count - sc.left

ScanInv(sc, m) ==
  /\ sc \in Scan /\ sc.next <= sc.count /\ sc.left <= sc.count
  /\ IsFiniteSet(sc.kept) /\ Cardinality(sc.kept) <= sc.count
  /\ sc.status = "reading" => ReadInv(sc, m)
  /\ sc.status = "done" => Cardinality(sc.kept \ sc.got) <= sc.left
  /\ sc.status = "failed" => sc.left > 0

\* No account is counted as missed more than once, since the kept are finite.
LEMMA MissedFinite ==
  ASSUME NEW sc, NEW m, IsFiniteSet(sc.kept), NEW T, T \subseteq Missed(sc, m)
  PROVE  /\ IsFiniteSet(Missed(sc, m)) /\ IsFiniteSet(T)
         /\ Cardinality(Missed(sc, m)) \in Nat /\ Cardinality(T) \in Nat
         /\ Cardinality(T) <= Cardinality(Missed(sc, m))
         /\ Cardinality(Missed(sc, m)) <= Cardinality(sc.kept)
<1>1. Missed(sc, m) \subseteq sc.kept
  BY DEF Missed
<1> QED BY <1>1, FS_Subset, FS_CardinalityType

\* Counting the members, and naming them.
LEMMA StartScan ==
  ASSUME RolesTypeOK, NEW r \in RoleNames
  PROVE  ScanInv([role |-> r, count |-> Len(members[r]), next |-> 0, got |-> {},
                  kept |-> Range(members[r]), left |-> 0,
                  status |-> "reading"], members[r])
<1> DEFINE m == members[r]
           sc == [role |-> r, count |-> Len(m), next |-> 0, got |-> {},
                  kept |-> Range(m), left |-> 0, status |-> "reading"]
<1>1. m \in Seq(Accounts) /\ Len(m) \in Nat /\ m \in [1..Len(m) -> Accounts]
  BY DEF RolesTypeOK
<1> HIDE DEF m
<1>2. Range(m) \subseteq Accounts
  BY <1>1 DEF Range
<1>3. m \in Surjection(1..Len(m), Range(m))
  BY <1>1 DEF Range, Surjection
<1>4. IsFiniteSet(1..Len(m)) /\ Cardinality(1..Len(m)) = Len(m)
  BY <1>1, FS_Interval
<1>5. IsFiniteSet(Range(m)) /\ Cardinality(Range(m)) <= Len(m)
  BY <1>3, <1>4, FS_Surjection
<1>6. sc \in Scan
  BY <1>1, <1>2 DEF Scan
<1>7. InReach(sc, m)
  BY <1>1 DEF InReach, Range
<1>8. Missed(sc, m) = {}
  BY <1>1 DEF Missed
<1>9. Cardinality(Missed(sc, m)) = 0
  BY <1>8, FS_EmptySet
<1>10. ReadInv(sc, m)
  BY <1>1, <1>7, <1>9 DEF ReadInv
<1> QED BY <1>1, <1>5, <1>6, <1>10 DEF ScanInv, m

\* What Direct makes of the enumeration when the array becomes t.
Moved(sc, s, t) ==
  [sc EXCEPT !.kept = @ \cap Range(t),
             !.left = IF Len(t) < Len(s) /\ @ < sc.count THEN @ + 1 ELSE @]

\* The fields of it.
LEMMA MovedFields ==
  ASSUME NEW sc \in Scan, NEW s \in Seq(Accounts), NEW t \in Seq(Accounts)
  PROVE  LET n == Moved(sc, s, t)
         IN  /\ n \in Scan /\ n.role = sc.role /\ n.count = sc.count
             /\ n.next = sc.next /\ n.got = sc.got /\ n.status = sc.status
             /\ n.kept = sc.kept \cap Range(t)
             /\ n.left = IF Len(t) < Len(s) /\ sc.left < sc.count
                         THEN sc.left + 1 ELSE sc.left
<1> DEFINE k == sc.kept \cap Range(t)
           l == IF Len(t) < Len(s) /\ sc.left < sc.count
                THEN sc.left + 1 ELSE sc.left
<1>1. k \in SUBSET Accounts /\ l \in Nat
  BY DEF Scan
<1>2. Moved(sc, s, t) = [sc EXCEPT !.kept = k, !.left = l]
  BY DEF Moved, Scan
<1> HIDE DEF k, l
<1>3. LET n == [sc EXCEPT !.kept = k, !.left = l]
      IN  /\ n \in Scan /\ n.role = sc.role /\ n.count = sc.count
          /\ n.next = sc.next /\ n.got = sc.got /\ n.status = sc.status
          /\ n.kept = k /\ n.left = l
  BY <1>1 DEF Scan
<1> QED BY <1>2, <1>3 DEF k, l

\* Who comes within or behind the reader when the array changes: nobody, or
\* the last member when another leaves.
LEMMA MovedReach ==
  ASSUME NEW sc \in Scan, NEW s \in Seq(Accounts), NEW t \in Seq(Accounts),
         InReach(sc, s),
         \/ t = s
         \/ \E a \in Accounts : /\ \A i \in 1..Len(s) : s[i] # a
                                /\ t = Append(s, a)
         \/ \E a \in Accounts : /\ \E i \in 1..Len(s) : s[i] = a
                                /\ t = Without(s, a)
  PROVE  LET n == Moved(sc, s, t)
         IN  /\ InReach(n, t)
             /\ \/ Missed(n, t) \subseteq Missed(sc, s) /\ Len(t) >= Len(s)
                \/ /\ \E x : Missed(n, t) \subseteq Missed(sc, s) \cup {x}
                   /\ Len(t) = Len(s) - 1
<1> DEFINE n == Moved(sc, s, t)
<1>1. /\ n.count = sc.count /\ n.next = sc.next /\ n.got = sc.got
      /\ n.kept = sc.kept \cap Range(t)
  BY MovedFields
<1> HIDE DEF n
<1>2. /\ sc.count \in Nat /\ sc.next \in Nat /\ Len(s) \in Nat /\ Len(t) \in Nat
  BY DEF Scan
<1>3. ASSUME NEW x \in n.kept
      PROVE  /\ x \in sc.kept
             /\ \E i \in 1..Len(s) : i <= sc.count /\ s[i] = x
             /\ \E i \in 1..Len(t) : t[i] = x
  <2>1. x \in sc.kept /\ x \in Range(t)
    BY <1>1
  <2>2. DOMAIN t = 1..Len(t)
    OBVIOUS
  <2> QED BY <2>1, <2>2 DEF InReach, Range
<1>4. CASE t = s
  BY <1>1, <1>2, <1>3, <1>4 DEF n, InReach, Missed
<1>5. ASSUME NEW a \in Accounts, \A i \in 1..Len(s) : s[i] # a, t = Append(s, a)
      PROVE  /\ InReach(n, t)
             /\ Missed(n, t) \subseteq Missed(sc, s) /\ Len(t) >= Len(s)
  <2>1. /\ Len(t) = Len(s) + 1
        /\ \A i \in 1..Len(s) : t[i] = s[i]
        /\ t[Len(s) + 1] = a
    BY <1>5, AppendFacts
  <2>2. InReach(n, t)
    <3> SUFFICES ASSUME NEW x \in n.kept
                 PROVE  \E i \in 1..Len(t) : i <= sc.count /\ t[i] = x
      BY <1>1 DEF InReach
    <3>1. PICK i \in 1..Len(s) : i <= sc.count /\ s[i] = x
      BY <1>3
    <3>2. i \in 1..Len(t) /\ t[i] = x
      BY <1>2, <2>1, <3>1
    <3> QED BY <3>1, <3>2
  <2>3. ASSUME NEW x \in Missed(n, t)
        PROVE  x \in Missed(sc, s)
    <3>1. x \in n.kept /\ x \notin sc.got
      BY <1>1 DEF Missed
    <3>2. PICK i \in 1..Len(t) : i <= sc.next /\ t[i] = x
      BY <1>1 DEF Missed
    <3>3. x # a
      BY <1>3, <1>5, <3>1
    <3>4. i \in 1..Len(s) /\ s[i] = x
      BY <1>2, <2>1, <3>2, <3>3
    <3> QED BY <1>3, <3>1, <3>2, <3>4 DEF Missed
  <2> QED BY <1>2, <2>1, <2>2, <2>3
<1>6. ASSUME NEW a \in Accounts, \E i \in 1..Len(s) : s[i] = a, t = Without(s, a)
      PROVE  /\ InReach(n, t)
             /\ Missed(n, t) \subseteq Missed(sc, s) \cup {s[Len(s)]}
             /\ Len(t) = Len(s) - 1
  <2>1. /\ Len(s) > 0 /\ Len(t) = Len(s) - 1
        /\ \A i \in 1 .. Len(s) - 1 : t[i] = IF s[i] = a THEN s[Len(s)] ELSE s[i]
    BY <1>6, WithoutFacts
  <2> HIDE <1>6
  <2>2. InReach(n, t)
    <3> SUFFICES ASSUME NEW x \in n.kept
                 PROVE  \E i \in 1..Len(t) : i <= sc.count /\ t[i] = x
      BY <1>1 DEF InReach
    <3>1. PICK i \in 1..Len(s) : i <= sc.count /\ s[i] = x
      BY <1>3
    <3>2. PICK j \in 1..Len(t) : t[j] = x
      BY <1>3
    <3>3. CASE i = Len(s)
      <4>1. j <= sc.count
        BY <1>2, <2>1, <3>1, <3>3
      <4> QED BY <3>2, <4>1
    <3>4. CASE i # Len(s) /\ s[i] # a
      <4>0. Len(t) = Len(s) - 1 /\ i # Len(s)
        BY <2>1, <3>4
      <4>1. i \in 1 .. Len(s) - 1 /\ i \in 1..Len(t)
        BY <1>2, <4>0
      <4>2. t[i] = x
        BY <2>1, <3>1, <3>4, <4>1
      <4> QED BY <3>1, <4>1, <4>2
    <3>5. CASE i # Len(s) /\ s[i] = a
      <4>1. i \in 1 .. Len(s) - 1 /\ i \in 1..Len(t) /\ t[i] = s[Len(s)]
        BY <1>2, <2>1, <3>1, <3>5
      <4>2. j \in 1 .. Len(s) - 1 /\ t[j] = IF s[j] = a THEN s[Len(s)] ELSE s[j]
        BY <2>1
      <4>3. s[Len(s)] = x
        BY <3>1, <3>2, <3>5, <4>2
      <4> QED BY <3>1, <4>1, <4>3
    <3> QED BY <3>3, <3>4, <3>5
  <2>3. ASSUME NEW x \in Missed(n, t)
        PROVE  x \in Missed(sc, s) \/ x = s[Len(s)]
    <3>1. x \in n.kept /\ x \notin sc.got
      BY <1>1 DEF Missed
    <3>2. PICK i \in 1..Len(t) : i <= sc.next /\ t[i] = x
      BY <1>1 DEF Missed
    <3>3. i \in 1..Len(s) /\ (x = s[Len(s)] \/ s[i] = x)
      BY <1>2, <2>1, <3>2
    <3> QED BY <1>3, <3>1, <3>2, <3>3 DEF Missed
  <2> QED BY <2>1, <2>2, <2>3
<1> QED BY <1>4, <1>5, <1>6 DEF n

\* The enumeration's invariant through any change of the array.
LEMMA MovedKeeps ==
  ASSUME NEW sc, NEW s \in Seq(Accounts), NEW t \in Seq(Accounts),
         ScanInv(sc, s), sc.status = "reading",
         \/ t = s
         \/ \E a \in Accounts : /\ \A i \in 1..Len(s) : s[i] # a
                                /\ t = Append(s, a)
         \/ \E a \in Accounts : /\ \E i \in 1..Len(s) : s[i] = a
                                /\ t = Without(s, a)
  PROVE  ScanInv(Moved(sc, s, t), t)
<1> DEFINE n == Moved(sc, s, t)
<1>1. /\ sc \in Scan /\ sc.next <= sc.count /\ sc.left <= sc.count
      /\ IsFiniteSet(sc.kept) /\ Cardinality(sc.kept) <= sc.count
      /\ InReach(sc, s) /\ Cardinality(Missed(sc, s)) <= sc.left
      /\ Len(s) >= sc.count - sc.left
  BY DEF ScanInv, ReadInv
<1>2. /\ n \in Scan /\ n.count = sc.count
      /\ n.next = sc.next /\ n.status = "reading"
      /\ n.kept \subseteq sc.kept
      /\ n.left = IF Len(t) < Len(s) /\ sc.left < sc.count
                  THEN sc.left + 1 ELSE sc.left
  BY <1>1, MovedFields
<1>3. /\ InReach(n, t)
      /\ \/ Missed(n, t) \subseteq Missed(sc, s) /\ Len(t) >= Len(s)
         \/ /\ \E x : Missed(n, t) \subseteq Missed(sc, s) \cup {x}
            /\ Len(t) = Len(s) - 1
  BY <1>1, MovedReach
<1> SUFFICES ScanInv(n, t)
  OBVIOUS
<1> HIDE DEF n
<1>4. /\ sc.count \in Nat /\ sc.left \in Nat /\ Len(s) \in Nat /\ Len(t) \in Nat
  BY <1>1 DEF Scan
<1>5. /\ IsFiniteSet(n.kept) /\ Cardinality(n.kept) <= Cardinality(sc.kept)
      /\ Cardinality(n.kept) \in Nat /\ Cardinality(sc.kept) \in Nat
  BY <1>1, <1>2, FS_Subset, FS_CardinalityType
<1>6. /\ IsFiniteSet(Missed(sc, s)) /\ Cardinality(Missed(sc, s)) \in Nat
  BY <1>1, MissedFinite
<1>7. /\ Cardinality(Missed(n, t)) \in Nat
      /\ Cardinality(Missed(n, t)) <= Cardinality(n.kept)
  BY <1>5, MissedFinite
<1>8. Cardinality(n.kept) <= sc.count
  BY <1>1, <1>4, <1>5
<1>9. CASE Missed(n, t) \subseteq Missed(sc, s) /\ Len(t) >= Len(s)
  <2>1. Cardinality(Missed(n, t)) <= Cardinality(Missed(sc, s))
    BY <1>6, <1>9, FS_Subset
  <2>2. n.left = sc.left
    BY <1>2, <1>4, <1>9
  <2>3. Cardinality(Missed(n, t)) <= n.left /\ Len(t) >= n.count - n.left
    BY <1>1, <1>2, <1>4, <1>6, <1>7, <1>9, <2>1, <2>2
  <2> QED BY <1>1, <1>2, <1>3, <1>5, <1>8, <2>2, <2>3 DEF ScanInv, ReadInv
<1>10. ASSUME NEW x, Missed(n, t) \subseteq Missed(sc, s) \cup {x},
              Len(t) = Len(s) - 1
       PROVE  ScanInv(n, t)
  <2>1. /\ IsFiniteSet(Missed(sc, s) \cup {x})
        /\ Cardinality(Missed(sc, s) \cup {x}) <= Cardinality(Missed(sc, s)) + 1
    <3> DEFINE M == Missed(sc, s)
    <3>1. IsFiniteSet(M) /\ Cardinality(M) \in Nat
      BY <1>6
    <3> HIDE DEF M
    <3>2. /\ IsFiniteSet(M \cup {x})
          /\ Cardinality(M \cup {x}) = IF x \in M THEN Cardinality(M)
                                       ELSE Cardinality(M) + 1
      BY <3>1, FS_AddElement
    <3> QED BY <3>1, <3>2 DEF M
  <2>2. /\ Cardinality(Missed(n, t)) <= Cardinality(Missed(sc, s) \cup {x})
        /\ Cardinality(Missed(sc, s) \cup {x}) \in Nat
    BY <1>10, <2>1, FS_Subset, FS_CardinalityType
  <2>3. Cardinality(Missed(n, t)) <= Cardinality(Missed(sc, s)) + 1
    BY <1>6, <1>7, <2>1, <2>2
  <2>4. n.left = IF sc.left < sc.count THEN sc.left + 1 ELSE sc.left
    BY <1>2, <1>4, <1>10
  <2>5. n.left <= n.count
    BY <1>1, <1>2, <1>4, <2>4
  <2>6. Cardinality(Missed(n, t)) <= n.left /\ Len(t) >= n.count - n.left
    <3> DEFINE m == Cardinality(Missed(n, t))
               k == Cardinality(Missed(sc, s))
               c == sc.count
               l == sc.left
    <3>1. m \in Nat /\ k \in Nat /\ c \in Nat /\ l \in Nat
      BY <1>4, <1>6, <1>7
    <3>2. m <= k + 1 /\ k <= l /\ l <= c
      BY <1>1, <2>3
    <3>3. m <= c
      <4>1. m <= Cardinality(n.kept) /\ Cardinality(n.kept) <= c
        BY <1>7, <1>8
      <4> HIDE DEF m, c
      <4> QED BY <1>5, <3>1, <4>1
    <3>4. n.count = c /\ n.left = IF l < c THEN l + 1 ELSE l
      BY <1>2, <2>4
    <3>5. Len(t) = Len(s) - 1 /\ Len(s) >= c - l
      BY <1>1, <1>10
    <3>6. Len(t) >= c - n.left
      <4> HIDE DEF c, l
      <4>1. CASE l < c
        BY <1>4, <3>1, <3>4, <3>5, <4>1
      <4>2. CASE l = c
        BY <1>1, <1>4, <3>1, <3>4, <4>2 DEF c, l
      <4> QED BY <3>1, <3>2, <4>1, <4>2
    <3> HIDE DEF m, k, c, l
    <3>7. m <= n.left
      BY <3>1, <3>2, <3>3, <3>4
    <3> QED BY <3>4, <3>6, <3>7 DEF m
  <2> QED BY <1>1, <1>2, <1>3, <1>5, <1>8, <2>5, <2>6 DEF ScanInv, ReadInv
<1> QED BY <1>3, <1>9, <1>10

\* What EnumRead makes of the enumeration over the array m.
ReadNext(sc, m) ==
  LET got == IF sc.next + 1 \in DOMAIN m THEN m[sc.next + 1]
             ELSE "IndexOutOfBounds"
  IN  IF sc.next = sc.count THEN [sc EXCEPT !.status = "done"]
      ELSE IF got = "IndexOutOfBounds" THEN [sc EXCEPT !.status = "failed"]
      ELSE [sc EXCEPT !.next = @ + 1, !.got = @ \cup {got}]

\* Reading the next index: nobody comes behind the reader unread, and an index
\* is beyond the members only when some have left.
LEMMA ReadKeeps ==
  ASSUME NEW sc, NEW m \in Seq(Accounts), ScanInv(sc, m), sc.status = "reading"
  PROVE  ScanInv(ReadNext(sc, m), m)
<1> DEFINE n == ReadNext(sc, m)
           a == m[sc.next + 1]
<1>1. /\ sc \in Scan /\ sc.next <= sc.count /\ sc.left <= sc.count
      /\ IsFiniteSet(sc.kept) /\ Cardinality(sc.kept) <= sc.count
      /\ InReach(sc, m) /\ Cardinality(Missed(sc, m)) <= sc.left
      /\ Len(m) >= sc.count - sc.left
  BY DEF ScanInv, ReadInv
<1>2. /\ sc.count \in Nat /\ sc.next \in Nat /\ sc.left \in Nat /\ Len(m) \in Nat
      /\ sc.got \in SUBSET Accounts /\ DOMAIN m = 1..Len(m)
  BY <1>1 DEF Scan
<1>3. CASE sc.next = sc.count
  <2>1. n = [sc EXCEPT !.status = "done"]
    BY <1>3 DEF ReadNext
  <2>2. /\ n \in Scan /\ n.status = "done" /\ n.next = sc.next
        /\ n.count = sc.count /\ n.left = sc.left /\ n.kept = sc.kept
        /\ n.got = sc.got
    BY <1>1, <2>1 DEF Scan
  <2>3. sc.kept \ sc.got \subseteq Missed(sc, m)
    BY <1>1, <1>3 DEF InReach, Missed
  <2>4. /\ Cardinality(sc.kept \ sc.got) <= Cardinality(Missed(sc, m))
        /\ Cardinality(sc.kept \ sc.got) \in Nat
        /\ Cardinality(Missed(sc, m)) \in Nat
    BY <1>1, <2>3, MissedFinite
  <2>5. Cardinality(sc.kept \ sc.got) <= sc.left
    BY <1>1, <1>2, <2>4
  <2> QED BY <1>1, <2>2, <2>5 DEF ScanInv
<1>4. CASE sc.next # sc.count /\ sc.next + 1 \notin DOMAIN m
  <2>1. n = [sc EXCEPT !.status = "failed"]
    BY <1>4 DEF ReadNext
  <2>2. /\ n \in Scan /\ n.status = "failed" /\ n.next = sc.next
        /\ n.count = sc.count /\ n.left = sc.left /\ n.kept = sc.kept
    BY <1>1, <2>1 DEF Scan
  <2>3. sc.left > 0
    BY <1>1, <1>2, <1>4
  <2> QED BY <1>1, <2>2, <2>3 DEF ScanInv
<1>5. CASE sc.next # sc.count /\ sc.next + 1 \in DOMAIN m
  <2>1. a \in Accounts /\ a # "IndexOutOfBounds"
    BY <1>5, IndexAssumption
  <2>2. n = [sc EXCEPT !.next = sc.next + 1, !.got = sc.got \cup {a}]
    BY <1>1, <1>5, <2>1 DEF ReadNext, Scan
  <2>3. a = m[sc.next + 1]
    OBVIOUS
  <2> HIDE DEF a, n
  <2>4. sc.got \cup {a} \in SUBSET Accounts /\ sc.next + 1 \in Nat
    BY <1>2, <2>1
  <2>5. /\ n \in Scan /\ n.status = "reading" /\ n.next = sc.next + 1
        /\ n.count = sc.count /\ n.left = sc.left /\ n.kept = sc.kept
        /\ n.got = sc.got \cup {a}
    BY <1>1, <2>2, <2>4 DEF Scan
  <2>6. InReach(n, m)
    BY <1>1, <2>5 DEF InReach
  <2>7. Missed(n, m) \subseteq Missed(sc, m)
    <3> SUFFICES ASSUME NEW x \in Missed(n, m) PROVE x \in Missed(sc, m)
      OBVIOUS
    <3>1. x \in sc.kept /\ x \notin sc.got /\ x # a
      BY <2>5 DEF Missed
    <3>2. PICK i \in 1..Len(m) : i <= sc.next + 1 /\ m[i] = x
      BY <2>5 DEF Missed
    <3>3. i # sc.next + 1
      BY <2>3, <3>1, <3>2
    <3>4. i <= sc.next
      BY <1>2, <3>2, <3>3
    <3> QED BY <3>1, <3>2, <3>4 DEF Missed
  <2>8. /\ Cardinality(Missed(n, m)) <= Cardinality(Missed(sc, m))
        /\ Cardinality(Missed(n, m)) \in Nat /\ Cardinality(Missed(sc, m)) \in Nat
    BY <1>1, <2>7, MissedFinite
  <2>9. Cardinality(Missed(n, m)) <= sc.left
    BY <1>1, <1>2, <2>8
  <2>10. sc.next + 1 <= sc.count
    BY <1>1, <1>2, <1>5
  <2>11. ReadInv(n, m)
    BY <1>1, <2>5, <2>6, <2>9 DEF ReadInv
  <2>12. ScanInv(n, m)
    BY <1>1, <2>5, <2>10, <2>11 DEF ScanInv
  <2> QED BY <2>12 DEF n
<1> QED BY <1>3, <1>4, <1>5

ScanOK == scan # NoTx => scan \in Scan /\ ScanInv(scan, members[scan.role])

\* An enumeration that has ended no longer depends on the members.
LEMMA EndedScan ==
  ASSUME NEW sc, NEW m, NEW t, ScanInv(sc, m), sc.status # "reading"
  PROVE  ScanInv(sc, t)
BY DEF ScanInv

\* Every step keeps the invariant of the enumeration.  The user's own calls
\* never move the roles while one is under way.
LEMMA NextScan ==
  ClientInv /\ ClientInv' /\ ScanOK /\ [ClientNext]_allVars => ScanOK'
<1> SUFFICES ASSUME ClientInv, ClientInv', ScanOK, [ClientNext]_allVars,
                    scan' # NoTx
             PROVE  scan' \in Scan /\ ScanInv(scan', members'[scan'.role])
  BY DEF ScanOK
<1>1. RolesTypeOK /\ RolesTypeOK' /\ RoleMove
  BY LedgerSteps DEF ClientInv, TxInv, CallTyped
<1>2. CASE Direct
  <2>1. CASE ~Reading
    <3>1. scan' = scan
      BY <1>2, <2>1 DEF Direct
    <3>2. scan \in Scan /\ ScanInv(scan, members[scan.role])
          /\ scan.status # "reading"
      BY <2>1, <3>1 DEF ScanOK, Reading
    <3> QED BY <3>1, <3>2, EndedScan
  <2>2. CASE Reading
    <3> DEFINE r == scan.role
               s == members[r]
               t == members'[r]
    <3>1. scan # NoTx /\ scan \in Scan /\ ScanInv(scan, s) /\ r \in RoleNames
          /\ scan.status = "reading"
      BY <2>2 DEF ScanOK, Reading, Scan
    <3>2. scan' = Moved(scan, s, t)
      BY <1>2, <2>2 DEF Direct, Moved
    <3>3. s \in Seq(Accounts) /\ t \in Seq(Accounts)
      BY <1>1, <3>1 DEF RolesTypeOK
    <3>4. \/ t = s
          \/ \E a \in Accounts : /\ \A i \in 1..Len(s) : s[i] # a
                                 /\ t = Append(s, a)
          \/ \E a \in Accounts : /\ \E i \in 1..Len(s) : s[i] = a
                                 /\ t = Without(s, a)
      BY <1>1, <3>1 DEF RoleMove, RolesTypeOK, IsMember
    <3>5. ScanInv(Moved(scan, s, t), t)
      BY <3>1, <3>3, <3>4, MovedKeeps
    <3>6. scan'.role = r /\ scan' \in Scan
      BY <3>1, <3>2, <3>3, MovedFields
    <3> QED BY <3>2, <3>5, <3>6
  <2> QED BY <2>1, <2>2
<1>3. CASE Assemble
  BY <1>3 DEF Assemble
<1>4. CASE Send
  BY <1>4 DEF Send, ClientInv, TxInv
<1>5. CASE \E r \in RoleNames : EnumStart(r)
  <2>1. PICK r \in RoleNames : EnumStart(r)
    BY <1>5
  <2>2. /\ scan' = [role |-> r, count |-> Len(members[r]), next |-> 0,
                    got |-> {}, kept |-> Range(members[r]), left |-> 0,
                    status |-> "reading"]
        /\ members' = members
    BY <2>1 DEF EnumStart, get_role_member_count, roleVars
  <2>3. ScanInv(scan', members[r])
    BY <1>1, <2>2, StartScan
  <2>4. scan'.role = r
    BY <2>2
  <2> QED BY <2>2, <2>3, <2>4 DEF ScanInv
<1>6. CASE EnumRead
  <2> DEFINE m == members[scan.role]
  <2>1. /\ scan # NoTx /\ scan.status = "reading" /\ members' = members
        /\ scan \in Scan /\ ScanInv(scan, m) /\ scan.role \in RoleNames
    BY <1>6 DEF EnumRead, Reading, ScanOK, Scan, roleVars
  <2>2. scan' = ReadNext(scan, m)
    BY <1>6 DEF EnumRead, ReadNext, get_role_member
  <2>3. m \in Seq(Accounts)
    BY <1>1, <2>1 DEF RolesTypeOK
  <2>4. ScanInv(scan', m)
    BY <2>1, <2>2, <2>3, ReadKeeps
  <2>5. scan'.role = scan.role
    BY <2>1, <2>2 DEF ReadNext, Scan
  <2> QED BY <2>1, <2>4, <2>5 DEF ScanInv
<1>7. CASE ReadActive \/ (\E q \in QuoteIds : ReadQuote(q)) \/ UNCHANGED allVars
  <2>1. scan' = scan /\ members' = members
    BY <1>7 DEF ReadActive, ReadQuote, allVars, roleVars, clientVars
  <2> QED BY <2>1 DEF ScanOK
<1> QED BY <1>2, <1>3, <1>4, <1>5, <1>6, <1>7 DEF ClientNext

\* Reading the count of a role's members and then each index, while others
\* grant, revoke and renounce in any order, misses at most one account that
\* kept the role for every account that lost it meanwhile, and traps only if
\* one did.
THEOREM EnumerationBound == ClientSpec => []EnumerationMissesOnlyRevoked
<1>1. ClientInit => ScanOK
  BY DEF ClientInit, ScanOK
<1>2. ScanOK => EnumerationMissesOnlyRevoked
  BY DEF ScanOK, ScanInv, EnumerationMissesOnlyRevoked
<1> QED BY <1>1, <1>2, NextScan, ClientAlways, PTL DEF ClientSpec

\* The client is nothing but one more caller: with it in the system the
\* contract still runs by its own specification, so every theorem about
\* FxRateLock holds of the quotes the client's user sees.
THEOREM ClientKeepsContract == ClientSpec => Spec
<1>1. ClientInit => Init
  BY DEF ClientInit, deploy
<1>2. ClientInv /\ [ClientNext]_allVars => [Next]_vars
  <2> SUFFICES ASSUME ClientInv, [ClientNext]_allVars PROVE [Next]_vars
    OBVIOUS
  <2>1. RolesTypeOK /\ CallTyped
    BY DEF ClientInv, TxInv, CallTyped
  <2> QED BY <2>1, LedgerSteps
<1> QED BY <1>1, <1>2, ClientAlways, PTL DEF ClientSpec, Spec

\* In particular the user is served by the offer book: what is sent late, or
\* never, or by somebody else, is a step of the book or none.
THEOREM ClientServedByBook == ClientSpec => ImplementsBook
BY ClientKeepsContract, RateLockImplementsBook, PTL

\* Nothing the user holds is locked or settled once the admin has renounced: a
\* call assembled before the renouncement comes too late.
THEOREM ClientOrphanFrozen == ClientSpec => OrphanedBookFrozen
BY ClientKeepsContract, OrphanStaysFrozen, PTL

-----------------------------------------------------------------------------
(* The stored list of roles.                                               *)

\* One call of the roles' interface, about role r.
RoleCallOn(r) ==
  \E caller :
    \/ \E a \in Accounts : GrantRole(caller, a, r) \/ RevokeRole(caller, a, r)
    \/ RenounceRole(caller, r)
    \/ \E ar \in RoleNames : SetRoleAdmin(caller, r, ar)

\* Every step of the client and of the others leaves the roles alone or is one
\* such call.
LEMMA RoleSteps ==
  ASSUME CallTyped, [ClientNext]_allVars
  PROVE  UNCHANGED roleVars \/ \E r \in RoleNames : RoleCallOn(r)
<1>1. CASE Direct
  <2>1. CASE UNCHANGED roleVars
    BY <2>1
  <2>2. ASSUME NEW caller \in Accounts, RoleCall(caller)
        PROVE  \E r \in RoleNames : RoleCallOn(r)
    <3>1. PICK r \in RoleNames :
            \/ \E a \in Grantees[r] : GrantRole(caller, a, r)
            \/ \E a \in Accounts : RevokeRole(caller, a, r)
            \/ RenounceRole(caller, r)
            \/ \E ar \in RoleNames : SetRoleAdmin(caller, r, ar)
      BY <2>2 DEF RoleCall
    <3>2. Grantees[r] \subseteq Accounts
      BY RoleAssumption
    <3> QED BY <3>1, <3>2 DEF RoleCallOn
  <2> QED BY <1>1, <2>1, <2>2 DEF Direct
<1>2. CASE Send
  <2> DEFINE c == tx.call
  <2>1. CallOK(c)
    BY <1>2 DEF Send, CallTyped
  <2>2. CASE UNCHANGED <<vars, roleVars>>
    BY <2>2
  <2>3. CASE UNCHANGED roleVars
    BY <2>3
  <2>4. CASE \/ c.fn = "grant_role" /\ GrantRole(c.by, c.account, c.role)
             \/ c.fn = "revoke_role" /\ RevokeRole(c.by, c.account, c.role)
             \/ c.fn = "renounce_role" /\ RenounceRole(c.by, c.role)
             \/ /\ c.fn = "set_role_admin"
                /\ SetRoleAdmin(c.by, c.role, c.admin_role)
    <3>1. /\ c.role \in RoleNames
          /\ c.fn \in {"grant_role", "revoke_role"} => c.account \in Accounts
          /\ c.fn = "set_role_admin" => c.admin_role \in RoleNames
      BY <2>1, <2>4 DEF CallOK
    <3> HIDE DEF c
    <3>2. RoleCallOn(c.role)
      BY <2>4, <3>1 DEF RoleCallOn
    <3> QED BY <3>1, <3>2
  <2>5. CASE Effect(tx.call)
    BY <2>3, <2>4, <2>5 DEF Effect, roleVars
  <2> QED BY <1>2, <2>2, <2>5 DEF Send
<1>3. CASE Assemble \/ ReadActive \/ EnumRead
           \/ (\E q \in QuoteIds : ReadQuote(q))
           \/ (\E r \in RoleNames : EnumStart(r))
           \/ UNCHANGED allVars
  BY <1>3 DEF Assemble, ReadActive, EnumRead, ReadQuote, EnumStart, allVars
<1> QED BY <1>1, <1>2, <1>3 DEF ClientNext

\* The stored list names exactly the roles that have members, and no more of
\* them than the limit, which is compared with the list's length and not with
\* the roles themselves.
RoleListExact ==
  /\ existing = {r \in RoleNames : members[r] # << >>}
  /\ IsFiniteSet(existing) /\ Cardinality(existing) <= MAX_ROLES

\* An array is empty if it has no index.
LEMMA LengthZero ==
  ASSUME NEW s \in Seq(Accounts)
  PROVE  Len(s) \in Nat /\ (s = << >> <=> Len(s) = 0)
OBVIOUS

\* An array with one member more is not empty; one with a member less is so
\* only if it had no other.
LEMMA EmptyArray ==
  ASSUME NEW s \in Seq(Accounts)
  PROVE  /\ Len(s) \in Nat /\ (s = << >> <=> Len(s) = 0)
         /\ \A a \in Accounts : Append(s, a) # << >>
         /\ \A a : (\E i \in 1..Len(s) : s[i] = a) =>
              /\ s # << >>
              /\ Without(s, a) = << >> <=> Len(s) = 1
<1>1. Len(s) \in Nat /\ (s = << >> <=> Len(s) = 0)
  BY LengthZero
<1>2. ASSUME NEW a \in Accounts
      PROVE  Append(s, a) # << >>
  <2>1. Append(s, a) \in Seq(Accounts) /\ Len(Append(s, a)) = Len(s) + 1
    BY AppendFacts
  <2> QED BY <1>1, <2>1, LengthZero
<1>3. ASSUME NEW a, \E i \in 1..Len(s) : s[i] = a
      PROVE  s # << >> /\ (Without(s, a) = << >> <=> Len(s) = 1)
  <2> DEFINE w == Without(s, a)
  <2>1. w \in Seq(Accounts) /\ Len(s) > 0 /\ Len(w) = Len(s) - 1
    BY <1>3, WithoutFacts
  <2> HIDE DEF w
  <2>2. w = << >> <=> Len(w) = 0
    BY <2>1, LengthZero
  <2>3. w = << >> <=> Len(s) = 1
    BY <1>1, <2>1, <2>2
  <2> QED BY <1>1, <2>1, <2>3 DEF w
<1> QED BY <1>1, <1>2, <1>3

\* A grant adds to the list only the role it gives its first member, and a
\* departure takes only the role it leaves without one.
LEMMA RoleListKept ==
  ASSUME RolesTypeOK, RoleListExact, NEW r \in RoleNames, RoleCallOn(r)
  PROVE  RoleListExact'
<1> DEFINE s == members[r]
<1>1. s \in Seq(Accounts) /\ members \in [RoleNames -> Seq(Accounts)]
  BY DEF RolesTypeOK
<1>2. /\ existing = {x \in RoleNames : members[x] # << >>}
      /\ IsFiniteSet(existing) /\ Cardinality(existing) <= MAX_ROLES
      /\ Cardinality(existing) \in Nat /\ MAX_ROLES \in Nat
  BY FS_CardinalityType, RoleAssumption DEF RoleListExact
<1>3. ASSUME NEW caller, NEW a \in Accounts, GrantRole(caller, a, r)
      PROVE  RoleListExact'
  <2>1. /\ members' = IF IsMember(a, r) THEN members
                      ELSE [members EXCEPT ![r] = Append(@, a)]
        /\ existing' = existing \cup {r}
        /\ s # << >> \/ Cardinality(existing) < MAX_ROLES
    BY <1>2, <1>3 DEF GrantRole, GrantRoleAnswer
  <2>2. /\ IsMember(a, r) => s # << >>
        /\ Append(s, a) # << >>
    BY <1>1, EmptyArray DEF IsMember
  <2>3. \A x \in RoleNames :
          members'[x] # << >> <=> (members[x] # << >> \/ x = r)
    BY <1>1, <2>1, <2>2
  <2>4. existing' = {x \in RoleNames : members'[x] # << >>}
    BY <1>2, <2>1, <2>3
  <2>5. /\ IsFiniteSet(existing')
        /\ Cardinality(existing') = IF r \in existing THEN Cardinality(existing)
                                    ELSE Cardinality(existing) + 1
    BY <1>2, <2>1, FS_AddElement
  <2>6. s # << >> <=> r \in existing
    BY <1>2
  <2>7. Cardinality(existing') <= MAX_ROLES
    BY <1>2, <2>1, <2>5, <2>6
  <2> QED BY <2>4, <2>5, <2>7 DEF RoleListExact
<1>4. ASSUME NEW a, Leave(a, r), IsMember(a, r)
      PROVE  RoleListExact'
  <2>1. /\ members' = [members EXCEPT ![r] = Without(@, a)]
        /\ existing' = IF Len(s) = 1 THEN existing \ {r} ELSE existing
    BY <1>4 DEF Leave
  <2>2. s # << >> /\ (Without(s, a) = << >> <=> Len(s) = 1)
    BY <1>1, <1>4, EmptyArray DEF IsMember
  <2>3. /\ members'[r] = Without(s, a)
        /\ \A x \in RoleNames : x # r => members'[x] = members[x]
    BY <1>1, <2>1
  <2> HIDE DEF s
  <2>4. \A x \in RoleNames :
          members'[x] # << >> <=> IF x = r THEN Len(s) # 1 ELSE members[x] # << >>
    BY <2>2, <2>3
  <2>5. r \in existing
    BY <1>2, <2>2 DEF s
  <2>6. existing' = {x \in RoleNames : members'[x] # << >>}
    BY <1>2, <2>1, <2>4, <2>5
  <2>7. IsFiniteSet(existing') /\ Cardinality(existing') <= Cardinality(existing)
    BY <1>2, <2>1, FS_Subset
  <2>8. Cardinality(existing') \in Nat
    BY <2>7, FS_CardinalityType
  <2> QED BY <1>2, <2>6, <2>7, <2>8 DEF RoleListExact
<1>5. ASSUME NEW caller, NEW ar \in RoleNames, SetRoleAdmin(caller, r, ar)
      PROVE  RoleListExact'
  BY <1>5 DEF SetRoleAdmin, RoleListExact
<1>6. ASSUME NEW caller, NEW a \in Accounts, RevokeRole(caller, a, r)
      PROVE  Leave(a, r) /\ IsMember(a, r)
  BY <1>6 DEF RevokeRole, RevokeRoleAnswer
<1>7. ASSUME NEW caller, RenounceRole(caller, r)
      PROVE  Leave(caller, r) /\ IsMember(caller, r)
  BY <1>7 DEF RenounceRole, RenounceRoleAnswer
<1> QED BY <1>3, <1>4, <1>5, <1>6, <1>7 DEF RoleCallOn

\* What get_existing_roles and has_role answer agrees with the members,
\* whatever is granted, revoked and renounced, and by whom: the list has
\* exactly the roles somebody holds and respects the limit, and nobody holds a
\* role at two indices, so the index has_role answers is the only one.
THEOREM RolesListedExactly == ClientSpec => [](RoleListExact /\ DistinctMembers)
<1>1. ClientInit => RoleListExact
  <2> SUFFICES ASSUME ClientInit PROVE RoleListExact
    OBVIOUS
  <2>1. members = [r \in RoleNames |-> << >>] /\ existing = {}
    BY DEF ClientInit, deploy, RolesInit
  <2>2. Cardinality({}) = 0 /\ IsFiniteSet({}) /\ MAX_ROLES \in Nat
    BY FS_EmptySet, RoleAssumption
  <2> QED BY <2>1, <2>2 DEF RoleListExact
<1>2. ClientInv /\ RoleListExact /\ [ClientNext]_allVars => RoleListExact'
  <2> SUFFICES ASSUME ClientInv, RoleListExact, [ClientNext]_allVars
               PROVE  RoleListExact'
    OBVIOUS
  <2>1. RolesTypeOK /\ CallTyped
    BY DEF ClientInv, TxInv, CallTyped
  <2>2. CASE UNCHANGED roleVars
    BY <2>2 DEF roleVars, RoleListExact
  <2>3. CASE \E r \in RoleNames : RoleCallOn(r)
    BY <2>1, <2>3, RoleListKept
  <2> QED BY <2>1, <2>2, <2>3, RoleSteps
<1>3. ClientInv => DistinctMembers
  BY DEF ClientInv
<1> QED BY <1>1, <1>2, <1>3, ClientAlways, PTL DEF ClientSpec
=============================================================================
