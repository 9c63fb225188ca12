------------------------------ MODULE LiveRead ------------------------------
(***************************************************************************)
(* From a deployment to a live read: the deploy script writes the record   *)
(* deployments/<network>.json line by line as it deploys the contracts,    *)
(* and may abort at any of its commands; the SDK's example reads the       *)
(* record, builds a client of the partner-attribution contract from it and *)
(* prints what three concurrent simulations answer.  Meanwhile the         *)
(* contract is used, and the script may be run again.                      *)
(*                                                                         *)
(* The record is a sequence of lines, each a key and its value; what       *)
(* JSON.parse makes of it is `Parsed`.  A contract is what its constructor *)
(* was given and its two readable values, at its position in `deployed`.   *)
(***************************************************************************)
EXTENDS Integers, Sequences

CONSTANTS
  Accounts,       \* deployers and admins
  NoAccount,      \* the admin of a contract that has renounced
  Sacs,           \* token contracts: the USDC_SAC given, or the one deployed
  NoSac,          \* the contracts that wrap no token
  Bps,            \* bound: totals of fees
  MaxContracts    \* bound: contracts deployed

ASSUME DeployAssumption ==
  NoAccount \notin Accounts /\ NoSac \notin Sacs /\ MaxContracts \in Nat

VARIABLES
  deployed,   \* the contracts of the network, in the order of deployment
  file,       \* deployments/<network>.json
  script,     \* the deploy script: its locals, or Idle
  reader,     \* the example: its locals, or Idle
  held        \* the pairs of admin and total that the contract the example
              \* reads has had since the example began

vars == <<deployed, file, script, reader, held>>

Idle == [pc |-> "idle"]
Ids == 1..Len(deployed)
Kinds == {"fx-rate-lock", "partner-attribution", "card-collateral-poc"}
Contract == [kind : Kinds, deployer : Accounts, sac : Sacs \cup {NoSac},
             admin : Accounts \cup {NoAccount}, total : Bps \cup {0}]

-----------------------------------------------------------------------------
(* The deploy script.                                                      *)

\* What the script does, one command each: the lines it writes and the three
\* contracts it deploys.
Script ==
  <<"{", "admin", "usdc_sac", "fx-rate-lock", "partner-attribution",
    "card-collateral-poc", "}">>

ScriptStart(a, s) ==
  /\ script = Idle
  /\ script' = [pc |-> "run", at |-> 1, admin |-> a, sac |-> s, id |-> 0]
  /\ UNCHANGED <<deployed, file, reader, held>>

Command == Script[script.at]
Running == script # Idle

\* The first line replaces the old record.
WriteLine(value) ==
  /\ file' = (IF Command = "{" THEN << >> ELSE file) \o << <<Command, value>> >>
  /\ script' = IF script.at = Len(Script) THEN Idle
               ELSE [script EXCEPT !.at = @ + 1, !.id = 0]

WriteHeader ==
  /\ Running /\ Command \in {"{", "admin", "usdc_sac"}
  /\ WriteLine(IF Command = "usdc_sac" THEN script.sac ELSE script.admin)
  /\ UNCHANGED <<deployed, reader, held>>

\* `stellar contract deploy` runs the constructor and answers the id.
DeployContract ==
  /\ Running /\ Command \in Kinds /\ script.id = 0
  /\ Len(deployed) < MaxContracts
  /\ deployed' = Append(deployed,
       [kind |-> Command, deployer |-> script.admin, admin |-> script.admin,
        sac |-> IF Command = "partner-attribution" THEN script.sac ELSE NoSac,
        total |-> 0])
  /\ script' = [script EXCEPT !.id = Len(deployed')]
  /\ UNCHANGED <<file, reader, held>>

\* Mutant: `local id="$(...)"` hides that the deploy command failed.
PrintLine_WithoutDeploy ==
  /\ Running /\ Command \in Kinds
  /\ WriteLine(script.id)
  /\ UNCHANGED <<deployed, reader, held>>

PrintLine ==
  /\ Running /\ Command \in Kinds /\ script.id # 0
  /\ WriteLine(script.id)
  /\ UNCHANGED <<deployed, reader, held>>

WriteFooter ==
  /\ Running /\ Command = "}"
  /\ WriteLine(Command)
  /\ UNCHANGED <<deployed, reader, held>>

\* `set -e`: a command that fails ends the script where it is.
Abort ==
  /\ Running
  /\ script' = Idle
  /\ UNCHANGED <<deployed, file, reader, held>>

-----------------------------------------------------------------------------
(* The SDK.                                                                *)

\* The file with its last line there is JSON; cut off before it, it is not.
Parses == file # << >> /\ file[Len(file)][1] = "}"

\* The value after a key, in a file that has the key.
ValueOf(key) ==
  file[CHOOSE i \in DOMAIN file : file[i][1] = key][2]

\* The file as a DeploymentFile.
Parsed ==
  [admin |-> ValueOf("admin"), usdc_sac |-> ValueOf("usdc_sac"),
   contracts |-> [k \in Kinds |-> ValueOf(k)]]

\* Mutant: two contracts are mixed up.
addressesFromDeployment_Swapped(d) ==
  [partnerAttribution |-> d.contracts["fx-rate-lock"],
   fxRateLock |-> d.contracts["partner-attribution"],
   cardCollateralPoc |-> d.contracts["card-collateral-poc"],
   usdcSac |-> d.usdc_sac]

addressesFromDeployment(d) ==
  [partnerAttribution |-> d.contracts["partner-attribution"],
   fxRateLock |-> d.contracts["fx-rate-lock"],
   cardCollateralPoc |-> d.contracts["card-collateral-poc"],
   usdcSac |-> d.usdc_sac]

\* Clients of two of the contracts: a client is the id it is pointed at.
corridorClients(addresses) ==
  [partnerAttribution |-> addresses.partnerAttribution,
   fxRateLock |-> addresses.fxRateLock]

-----------------------------------------------------------------------------
(* The example.                                                            *)

Methods == {"get_admin", "total_bps", "sac_address"}

PairOf(c) == <<c.admin, c.total>>

Answered == reader # Idle /\ DOMAIN reader.result = Methods
Waiting == reader # Idle /\ ~Answered

\* Reads the record, builds the client and starts the three reads; a record
\* that does not parse ends the example with exit code 1.
ReaderStart ==
  LET addresses == addressesFromDeployment(Parsed)
      client == corridorClients(addresses).partnerAttribution
  IN  /\ reader = Idle /\ Parses
      /\ reader' = [pc |-> "reading", addresses |-> addresses,
                    client |-> client, result |-> << >>]
      /\ held' = {PairOf(deployed[client])}
      /\ UNCHANGED <<deployed, file, script>>

\* What contract c answers when method m is simulated.
Simulate(c, m) ==
  CASE m = "get_admin" -> c.admin
    [] m = "total_bps" -> c.total
    [] m = "sac_address" -> c.sac

\* Mutant: the record is looked up again for each of the reads.
Resolve_ReadsRecordAgain(m) ==
  /\ Waiting /\ m \notin DOMAIN reader.result
  /\ Parses
  /\ LET c == corridorClients(addressesFromDeployment(Parsed)).partnerAttribution
     IN  reader' = [reader EXCEPT !.result =
           [n \in DOMAIN @ \cup {m} |->
              IF n = m THEN Simulate(deployed[c], m) ELSE @[n]]]
  /\ UNCHANGED <<deployed, file, script, held>>

\* One of the three simulations is answered, in any order.
Resolve(m) ==
  /\ Waiting /\ m \notin DOMAIN reader.result
  /\ reader' = [reader EXCEPT !.result =
       [n \in DOMAIN @ \cup {m} |->
          IF n = m THEN Simulate(deployed[reader.client], m) ELSE @[n]]]
  /\ UNCHANGED <<deployed, file, script, held>>

\* The example ends: it prints the three answers, or one of the simulations
\* failed, and with it Promise.all and the run.
ReaderEnd ==
  /\ reader # Idle
  /\ reader' = Idle /\ held' = {}
  /\ UNCHANGED <<deployed, file, script>>

-----------------------------------------------------------------------------
\* The contract the example reads is used: its total of fees or its admin
\* changes, in transactions of their own.  What happens to a contract while
\* nobody reads it could as well have happened in a reading before.
Used(i) ==
  /\ Waiting /\ i = reader.client
  /\ deployed[i].admin # NoAccount
  /\ \/ \E n \in Bps : deployed' = [deployed EXCEPT ![i].total = n]
     \/ \E a \in Accounts \cup {NoAccount} :
          deployed' = [deployed EXCEPT ![i].admin = a]
  /\ held' = held \cup {PairOf(deployed'[i])}
  /\ UNCHANGED <<file, script, reader>>

Init ==
  /\ deployed = << >> /\ file = << >>
  /\ script = Idle /\ reader = Idle /\ held = {}

Next ==
  \/ \E a \in Accounts, s \in Sacs : ScriptStart(a, s)
  \/ WriteHeader
  \/ DeployContract
  \/ PrintLine
  \/ WriteFooter
  \/ Abort
  \/ ReaderStart
  \/ \E m \in Methods : Resolve(m)
  \/ ReaderEnd
  \/ \E i \in Ids : Used(i)

Spec == Init /\ [][Next]_vars

-----------------------------------------------------------------------------
(* Properties                                                              *)

\* A record that parses is whole, however often the script was aborted and
\* run again: it names three contracts of one deployment, each of its kind,
\* constructed with the admin and the token the record names
\* (deploy_testnet.sh:55-82, contracts.ts:38-48).
ParsedRecordComplete ==
  Parses =>
    \A k \in Kinds :
      /\ Parsed.contracts[k] \in Ids
      /\ LET c == deployed[Parsed.contracts[k]]
         IN  /\ c.kind = k /\ c.deployer = Parsed.admin
             /\ k = "partner-attribution" => c.sac = Parsed.usdc_sac

\* The example's cross-check never fails: what it prints comes from a
\* partner-attribution contract that wraps the token of the record it was
\* found in, although the record may have been replaced since
\* (read-live-testnet.ts:32-59, contracts.ts:51-58).
ReportMatchesRecord ==
  Answered =>
    /\ deployed[reader.client].kind = "partner-attribution"
    /\ reader.result["sac_address"] = reader.addresses.usdcSac

\* The values printed were the contract's at one moment of the run, unless
\* the admin and the total both changed during it: the three simulations run
\* in ledgers of their own (read-live-testnet.ts:46-50).
TornOnlyByTwoChanges ==
  Answered =>
    \/ <<reader.result["get_admin"], reader.result["total_bps"]>> \in held
    \/ /\ \E p, q \in held : p[1] # q[1]
       /\ \E p, q \in held : p[2] # q[2]
=============================================================================
