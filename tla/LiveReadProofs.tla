--------------------------- MODULE LiveReadProofs ---------------------------
(***************************************************************************)
(* Theorems about the deployment record and the example that reads it, for *)
(* every number of deployments, aborts and re-runs, any account and token, *)
(* and any use of the contract while it is read.                           *)
(***************************************************************************)
EXTENDS LiveRead, TLAPS

-----------------------------------------------------------------------------
(* The invariant.                                                          *)

\* The commands of the script.
LEMMA ScriptIs ==
  /\ Len(Script) = 7
  /\ Script[1] = "{" /\ Script[2] = "admin" /\ Script[3] = "usdc_sac"
  /\ Script[4] = "fx-rate-lock" /\ Script[5] = "partner-attribution"
  /\ Script[6] = "card-collateral-poc" /\ Script[7] = "}"
BY DEF Script

Line == {"{", "admin", "usdc_sac", "}"} \cup Kinds

\* No command stands in it twice.
LEMMA Distinct ==
  /\ \A i \in 1..7 : \A j \in 1..7 : Script[i] = Script[j] => i = j
  /\ Kinds = {Script[4], Script[5], Script[6]}
  /\ \A i \in 4..6 : Script[i] \in Kinds /\ i \in 1..7
  /\ \A i \in 1..7 : Script[i] = "}" => i = 7
  /\ \A i \in 1..7 : Script[i] = "{" <=> i = 1
  /\ \A i \in 1..7 : Script[i] \in Line
<1>1. \A i \in 1..7 : i = 1 \/ i = 2 \/ i = 3 \/ i = 4 \/ i = 5 \/ i = 6 \/ i = 7
  OBVIOUS
<1>2. \A i \in 4..6 : (i = 4 \/ i = 5 \/ i = 6) /\ i \in 1..7
  OBVIOUS
<1>3. Kinds = {Script[4], Script[5], Script[6]}
  BY ScriptIs DEF Kinds
<1>4. \A i \in 4..6 : Script[i] \in Kinds
  BY <1>2, <1>3
<1>5. \A i \in 1..7 : \A j \in 1..7 : Script[i] = Script[j] => i = j
  BY <1>1, ScriptIs
<1>6. \A i \in 1..7 : Script[i] = "}" => i = 7
  BY <1>1, ScriptIs
<1>7. \A i \in 1..7 : Script[i] = "{" <=> i = 1
  BY <1>1, ScriptIs
<1>8. \A i \in 1..7 : Script[i] \in Line
  BY <1>1, ScriptIs DEF Line, Kinds
<1> QED BY <1>2, <1>3, <1>4, <1>5, <1>6, <1>7, <1>8

\* What the script writes after a key.
Values == Accounts \cup Sacs \cup Nat \cup {"}"}

NetworkInv == deployed \in Seq(Contract) /\ Len(deployed) \in Nat

\* Contract id of a network is of a kind and was given an admin and a token.
Is(net, id, kind, deployer, sac) ==
  /\ id \in 1..Len(net)
  /\ net[id].kind = kind /\ net[id].deployer = deployer
  /\ kind = "partner-attribution" => net[id].sac = sac

\* The record is a beginning of what the script writes, whose ids are of
\* contracts of that deployment.
FileInv ==
  /\ file \in Seq(Line \X Values) /\ Len(file) \in 0..7
  /\ \A i \in 1..Len(file) : file[i][1] = Script[i]
  /\ \A i \in 4..6 : i <= Len(file) =>
       Is(deployed, file[i][2], Script[i], file[2][2], file[3][2])

\* A running script has replaced the record, and knows the contract it has
\* deployed and not yet written down.
ScriptInv ==
  Running =>
    /\ script = [pc |-> "run", at |-> script.at, admin |-> script.admin,
                 sac |-> script.sac, id |-> script.id]
    /\ script.at \in 1..7 /\ script.admin \in Accounts /\ script.sac \in Sacs
    /\ script.id \in Nat
    /\ script.at > 1 => Len(file) = script.at - 1
    /\ script.at > 2 => file[2][2] = script.admin
    /\ script.at > 3 => file[3][2] = script.sac
    /\ script.id # 0 => /\ script.at \in 4..6
                        /\ Is(deployed, script.id, Command, script.admin, script.sac)

\* The example reads a contract of the right kind and token, and every value
\* it was answered was that contract's at some moment of the run.
ReaderInv ==
  reader # Idle =>
    /\ reader = [pc |-> "reading", addresses |-> reader.addresses,
                 client |-> reader.client, result |-> reader.result]
    /\ reader.client \in Ids
    /\ deployed[reader.client].kind = "partner-attribution"
    /\ deployed[reader.client].sac = reader.addresses.usdcSac
    /\ PairOf(deployed[reader.client]) \in held
    /\ \A p \in held : p = <<p[1], p[2]>>
    /\ "get_admin" \in DOMAIN reader.result =>
         \E p \in held : p[1] = reader.result["get_admin"]
    /\ "total_bps" \in DOMAIN reader.result =>
         \E p \in held : p[2] = reader.result["total_bps"]
    /\ "sac_address" \in DOMAIN reader.result =>
         reader.result["sac_address"] = reader.addresses.usdcSac

Inv == NetworkInv /\ FileInv /\ ScriptInv /\ ReaderInv

-----------------------------------------------------------------------------
(* The record.                                                             *)

\* A key stands on one line only.
LEMMA ValueAt ==
  ASSUME FileInv, NEW i \in 1..7, i <= Len(file)
  PROVE  ValueOf(Script[i]) = file[i][2]
<1>1. DOMAIN file = 1..Len(file) /\ Len(file) \in 0..7
  BY DEF FileInv
<1>2. \A j \in DOMAIN file : file[j][1] = Script[i] => j = i
  <2>1. \A j \in 1..7 : Script[j] = Script[i] => j = i
    BY Distinct
  <2> QED BY <1>1, <2>1 DEF FileInv
<1>3. i \in DOMAIN file /\ file[i][1] = Script[i]
  BY <1>1 DEF FileInv
<1>4. (CHOOSE j \in DOMAIN file : file[j][1] = Script[i]) = i
  BY <1>2, <1>3
<1> QED BY <1>4 DEF ValueOf

\* A record that parses has its last line.
LEMMA ParsedValues ==
  ASSUME FileInv, Parses
  PROVE  /\ Len(file) = 7
         /\ Parsed.admin = file[2][2] /\ Parsed.usdc_sac = file[3][2]
         /\ \A i \in 4..6 : Parsed.contracts[Script[i]] = file[i][2]
         /\ \A i \in 4..6 : Is(deployed, file[i][2], Script[i], file[2][2], file[3][2])
<1>1. Len(file) = 7
  <2>1. file # << >> /\ file[Len(file)][1] = "}"
    BY DEF Parses
  <2>2. file \in Seq(Line \X Values) /\ Len(file) \in 0..7
    BY DEF FileInv
  <2>3. Len(file) # 0
    <3>1. ASSUME NEW S, NEW q \in Seq(S), Len(q) = 0 PROVE q = << >>
      BY <3>1
    <3> QED BY <2>1, <2>2, <3>1
  <2>4. Len(file) \in 1..7 /\ Len(file) \in 1..Len(file)
    BY <2>2, <2>3
  <2>5. \A i \in 1..Len(file) : file[i][1] = Script[i]
    BY DEF FileInv
  <2> HIDE DEF Script
  <2>6. Script[Len(file)] = "}"
    BY <2>1, <2>4, <2>5
  <2> QED BY <2>4, <2>6, Distinct
<1>2. \A i \in 1..7 : ValueOf(Script[i]) = file[i][2]
  BY <1>1, ValueAt
<1>3. \A i \in 4..6 : Script[i] \in Kinds /\ i \in 1..7
  BY Distinct
<1>4. \A i \in 4..6 : Parsed.contracts[Script[i]] = file[i][2]
  BY <1>2, <1>3 DEF Parsed
<1>5. Parsed.admin = file[2][2] /\ Parsed.usdc_sac = file[3][2]
  <2>1. ValueOf(Script[2]) = file[2][2] /\ ValueOf(Script[3]) = file[3][2]
    BY <1>2
  <2>2. ValueOf("admin") = file[2][2] /\ ValueOf("usdc_sac") = file[3][2]
    BY <2>1, ScriptIs
  <2> QED BY <2>2 DEF Parsed
<1> QED BY <1>1, <1>4, <1>5 DEF FileInv

\* The record that parses names a deployment.
LEMMA RecordComplete == FileInv => ParsedRecordComplete
<1> SUFFICES ASSUME FileInv, Parses, NEW k \in Kinds
             PROVE  /\ Parsed.contracts[k] \in Ids
                    /\ LET c == deployed[Parsed.contracts[k]]
                       IN  /\ c.kind = k /\ c.deployer = Parsed.admin
                           /\ k = "partner-attribution" => c.sac = Parsed.usdc_sac
  BY DEF ParsedRecordComplete
<1>1. PICK i \in 4..6 : k = Script[i]
  <2>1. 4 \in 4..6 /\ 5 \in 4..6 /\ 6 \in 4..6
    OBVIOUS
  <2> QED BY <2>1, Distinct
<1>2. /\ Parsed.contracts[k] = file[i][2]
      /\ Parsed.admin = file[2][2] /\ Parsed.usdc_sac = file[3][2]
      /\ Is(deployed, file[i][2], k, file[2][2], file[3][2])
  BY <1>1, ParsedValues
<1> QED BY <1>2 DEF Is, Ids

-----------------------------------------------------------------------------
(* What the network keeps.                                                 *)

\* A contract stays what its constructor made it.
Kept ==
  /\ Len(deployed) <= Len(deployed')
  /\ \A i \in Ids : /\ deployed'[i].kind = deployed[i].kind
                    /\ deployed'[i].deployer = deployed[i].deployer
                    /\ deployed'[i].sac = deployed[i].sac

\* What was deployed with its arguments stays so, whatever else is deployed.
LEMMA KeptIs ==
  ASSUME NetworkInv, NetworkInv', Kept, NEW id, NEW k, NEW a, NEW s,
         Is(deployed, id, k, a, s)
  PROVE  Is(deployed', id, k, a, s)
BY DEF NetworkInv, Kept, Is, Ids

\* A step that leaves the record alone.
LEMMA SameFile ==
  ASSUME NetworkInv, NetworkInv', Kept, FileInv, file' = file
  PROVE  FileInv'
<1>1. \A i \in 4..6 : i <= Len(file) =>
        Is(deployed', file[i][2], Script[i], file[2][2], file[3][2])
  <2> SUFFICES ASSUME NEW i \in 4..6, i <= Len(file)
               PROVE  Is(deployed', file[i][2], Script[i], file[2][2], file[3][2])
    OBVIOUS
  <2>1. Is(deployed, file[i][2], Script[i], file[2][2], file[3][2])
    BY DEF FileInv
  <2> QED BY <2>1, KeptIs
<1>2. /\ file' \in Seq(Line \X Values) /\ Len(file') \in 0..7
      /\ \A i \in 1..Len(file') : file'[i][1] = Script[i]
  BY DEF FileInv
<1> QED BY <1>1, <1>2 DEF FileInv

\* A step that leaves the script alone keeps what is known of it.
LEMMA SameScript ==
  ASSUME NetworkInv, NetworkInv', Kept, ScriptInv,
         file' = file, script' = script
  PROVE  ScriptInv'
<1> SUFFICES ASSUME Running PROVE ScriptInv'
  BY DEF ScriptInv, Running
<1>1. script.id # 0 => Is(deployed', script.id, Command, script.admin, script.sac)
  <2> SUFFICES ASSUME script.id # 0
               PROVE  Is(deployed', script.id, Command, script.admin, script.sac)
    OBVIOUS
  <2>1. Is(deployed, script.id, Command, script.admin, script.sac)
    BY DEF ScriptInv
  <2> QED BY <2>1, KeptIs DEF Command
<1> QED BY <1>1 DEF ScriptInv, Command

\* A step that leaves the readable values of the contract alone.
LEMMA SameReader ==
  ASSUME NetworkInv, NetworkInv', Kept, ReaderInv,
         reader' = reader, held' = held,
         reader # Idle => deployed'[reader.client] = deployed[reader.client]
  PROVE  ReaderInv'
<1> SUFFICES ASSUME reader # Idle PROVE ReaderInv'
  BY DEF ReaderInv
<1>1. reader.client \in Ids /\ deployed'[reader.client] = deployed[reader.client]
  BY DEF ReaderInv
<1>2. reader.client \in Ids'
  BY <1>1 DEF NetworkInv, Kept, Ids
<1>3. PairOf(deployed[reader.client])' = PairOf(deployed[reader.client])
  BY <1>1 DEF PairOf
<1> QED BY <1>1, <1>2, <1>3 DEF ReaderInv

\* A step that deploys nothing keeps what is known of the network.
LEMMA SameNetwork ==
  ASSUME NetworkInv, deployed' = deployed
  PROVE  NetworkInv' /\ Kept
BY DEF NetworkInv, Kept

-----------------------------------------------------------------------------
(* The script.                                                             *)

\* A line written: the record gains it, the script goes on.
LEMMA WriteKeeps ==
  ASSUME Inv, Running, NEW v \in Values, WriteLine(v),
         UNCHANGED <<deployed, reader, held>>,
         script.at = 2 => v = script.admin, script.at = 3 => v = script.sac,
         script.at \in 4..6 => script.id # 0 /\ v = script.id,
         script.at \notin 4..6 => script.id = 0
  PROVE  Inv'
<1> DEFINE k == script.at
           new == file'
<1>1. /\ k \in 1..7 /\ script.admin \in Accounts /\ script.sac \in Sacs
      /\ script.id \in Nat
      /\ script = [pc |-> "run", at |-> k, admin |-> script.admin,
                   sac |-> script.sac, id |-> script.id]
      /\ k > 1 => Len(file) = k - 1
      /\ k > 2 => file[2][2] = script.admin
      /\ k > 3 => file[3][2] = script.sac
  BY DEF Inv, ScriptInv
<1>2. NetworkInv' /\ Kept /\ NetworkInv /\ FileInv
  BY SameNetwork DEF Inv
<1>3. ReaderInv'
  BY <1>2, SameReader DEF Inv
<1>4. Script[k] \in Line
  BY <1>1, Distinct
<1>5. /\ new \in Seq(Line \X Values) /\ Len(new) = k
      /\ new[k] = <<Script[k], v>>
      /\ \A i \in 1..k : i = k \/ (i \in 1..Len(file) /\ new[i] = file[i])
  <2> DEFINE old == IF Command = "{" THEN << >> ELSE file
             l == <<Script[k], v>>
  <2>1. old \in Seq(Line \X Values) /\ Len(old) = k - 1 /\ (k > 1 => old = file)
    <3> HIDE DEF Script
    <3>1. k = 1 => old = << >>
      BY <1>1, Distinct DEF Command
    <3>2. k # 1 => old = file
      BY <1>1, Distinct DEF Command
    <3>3. file \in Seq(Line \X Values) /\ << >> \in Seq(Line \X Values)
      BY <1>2 DEF FileInv
    <3> HIDE DEF old
    <3>4. CASE k = 1
      <4>1. Len(old) = 0 /\ old \in Seq(Line \X Values)
        BY <3>1, <3>3, <3>4
      <4> QED BY <3>4, <4>1
    <3>5. CASE k # 1
      <4>1. k > 1
        BY <1>1, <3>5
      <4> QED BY <1>1, <3>2, <3>3, <3>5, <4>1
    <3> QED BY <3>4, <3>5
  <2>2. new = old \o <<l>>
    BY DEF WriteLine, Command
  <2>3. l \in Line \X Values
    BY <1>4
  <2> HIDE DEF old, l
  <2>4. /\ \A S : \A q \in Seq(S) : \A e \in S :
             /\ q \o <<e>> \in Seq(S) /\ Len(q \o <<e>>) = Len(q) + 1
             /\ (q \o <<e>>)[Len(q) + 1] = e
             /\ \A i \in 1..Len(q) : (q \o <<e>>)[i] = q[i]
    OBVIOUS
  <2>5. /\ new \in Seq(Line \X Values) /\ Len(new) = Len(old) + 1
        /\ new[Len(old) + 1] = l /\ \A i \in 1..Len(old) : new[i] = old[i]
    BY <2>1, <2>2, <2>3, <2>4
  <2>6. \A i \in 1..k : i = k \/ (k > 1 /\ i \in 1..Len(old))
    BY <1>1, <2>1
  <2> QED BY <1>1, <2>1, <2>5, <2>6 DEF l
<1>6. /\ k >= 2 => new[2][2] = script.admin
      /\ k >= 3 => new[3][2] = script.sac
  <2>1. k = 2 => new[2][2] = script.admin
    BY <1>5
  <2>2. k > 2 => new[2] = file[2]
    BY <1>1, <1>5
  <2>3. k = 3 => new[3][2] = script.sac
    BY <1>5
  <2>4. k > 3 => new[3] = file[3]
    BY <1>1, <1>5
  <2> HIDE DEF k, new
  <2> QED BY <1>1, <2>1, <2>2, <2>3, <2>4
<1>7. \A i \in 1..k : new[i][1] = Script[i]
  <2>1. \A i \in 1..Len(file) : file[i][1] = Script[i]
    BY <1>2 DEF FileInv
  <2>2. new[k][1] = Script[k]
    BY <1>5
  <2> HIDE DEF k, new, Script
  <2> QED BY <1>5, <2>1, <2>2
<1>8. ASSUME NEW i \in 4..6, i <= k
      PROVE  Is(deployed, new[i][2], Script[i], new[2][2], new[3][2])
  <2>1. new[2][2] = script.admin /\ new[3][2] = script.sac
    <3>1. k >= 2 /\ k >= 3
      BY <1>1, <1>8
    <3> HIDE DEF k, new
    <3> QED BY <1>6, <3>1
  <2>2. CASE i = k
    <3>1. new[i][2] = script.id /\ script.id # 0
      BY <1>5, <2>2
    <3>2. Is(deployed, script.id, Script[k], script.admin, script.sac)
      BY <3>1 DEF Inv, ScriptInv, Command
    <3> QED BY <2>1, <2>2, <3>1, <3>2
  <2>3. CASE i # k
    <3>1. i \in 1..Len(file) /\ new[i] = file[i] /\ k > 3
      BY <1>1, <1>5, <1>8, <2>3
    <3>2. Is(deployed, file[i][2], Script[i], file[2][2], file[3][2])
      BY <1>2, <3>1 DEF FileInv
    <3>3. file[2][2] = script.admin /\ file[3][2] = script.sac
      BY <1>1, <3>1
    <3> QED BY <2>1, <3>1, <3>2, <3>3
  <2> QED BY <2>2, <2>3
<1>9. FileInv'
  <2>1. \A i \in 4..6 : i <= k =>
          Is(deployed', new[i][2], Script[i], new[2][2], new[3][2])
    BY <1>8
  <2>2. k \in 0..7
    BY <1>1
  <2> QED BY <1>5, <1>7, <2>1, <2>2 DEF FileInv
<1>10. ScriptInv'
  <2>1. CASE k = 7
    <3>1. script' = Idle
      BY <2>1, ScriptIs DEF WriteLine
    <3> QED BY <3>1 DEF ScriptInv, Running
  <2>2. CASE k # 7
    <3>1. script' = [script EXCEPT !.at = @ + 1, !.id = 0]
      BY <2>2, ScriptIs DEF WriteLine
    <3>2. /\ script' = [pc |-> "run", at |-> k + 1, admin |-> script.admin,
                        sac |-> script.sac, id |-> 0]
          /\ k + 1 \in 1..7 /\ k \in Int
      <4>1. k + 1 \in 1..7 /\ k \in Int
        BY <1>1, <2>2
      <4>2. script' = [[pc |-> "run", at |-> k, admin |-> script.admin,
                        sac |-> script.sac, id |-> script.id]
                          EXCEPT !.at = k + 1, !.id = 0]
        BY <1>1, <3>1
      <4> HIDE DEF k
      <4> QED BY <4>1, <4>2
    <3>3. /\ script'.at = k + 1 /\ script'.admin = script.admin
          /\ script'.sac = script.sac /\ script'.id = 0
      BY <3>2
    <3>4. Len(file') = k
      BY <1>5
    <3>5. /\ script'.at > 2 => file'[2][2] = script.admin
          /\ script'.at > 3 => file'[3][2] = script.sac
      BY <1>1, <1>6, <3>3
    <3>6. /\ script' = [pc |-> "run", at |-> script'.at,
                        admin |-> script'.admin, sac |-> script'.sac,
                        id |-> script'.id]
          /\ script'.at \in 1..7 /\ script'.id \in Nat
          /\ script'.at - 1 = k
      BY <3>2, <3>3
    <3> HIDE DEF k
    <3> QED BY <1>1, <3>3, <3>4, <3>5, <3>6 DEF ScriptInv
  <2> QED BY <2>1, <2>2
<1> QED BY <1>2, <1>3, <1>9, <1>10 DEF Inv

\* The lines written are the admin, the token and the ids of the contracts.
LEMMA LinesKeep ==
  ASSUME Inv, WriteHeader \/ PrintLine \/ WriteFooter
  PROVE  Inv'
<1> DEFINE k == script.at
<1>1. /\ Running /\ k \in 1..7 /\ script.id \in Nat
      /\ script.admin \in Values /\ script.sac \in Values
      /\ script.id \in Values /\ "}" \in Values
      /\ script.id # 0 => k \in 4..6
  BY DEF Inv, ScriptInv, WriteHeader, PrintLine, WriteFooter, Values
<1>2. /\ \A i \in 4..6 : Script[i] \in Kinds /\ i \in 1..7
      /\ Script[1] \notin Kinds /\ Script[2] \notin Kinds
      /\ Script[3] \notin Kinds /\ Script[7] \notin Kinds
  BY ScriptIs, Distinct DEF Kinds
<1>3. k = 1 \/ k = 2 \/ k = 3 \/ k \in 4..6 \/ k = 7
  <2>1. \A i \in 1..7 : i = 1 \/ i = 2 \/ i = 3 \/ i \in 4..6 \/ i = 7
    OBVIOUS
  <2> HIDE DEF k
  <2> QED BY <1>1, <2>1
<1>4. Script[k] \in Kinds <=> k \in 4..6
  <2>1. k \in 4..6 => Script[k] \in Kinds
    BY <1>2
  <2>2. k \notin 4..6 => Script[k] \notin Kinds
    <3> HIDE DEF k, Script
    <3> QED BY <1>2, <1>3
  <2> QED BY <2>1, <2>2
<1>5. CASE WriteHeader
  <2>1. /\ k \notin 4..6
        /\ k = 3 => Script[k] = "usdc_sac"
        /\ k = 2 => Script[k] = "admin"
    BY <1>4, <1>5, ScriptIs DEF WriteHeader, Command, Kinds
  <2>2. \E v \in Values : WriteLine(v) /\ (k = 2 => v = script.admin)
                            /\ (k = 3 => v = script.sac)
    BY <1>1, <1>5, ScriptIs DEF WriteHeader, Command
  <2> QED BY <1>1, <1>5, <2>1, <2>2, WriteKeeps DEF WriteHeader
<1>6. CASE PrintLine
  <2>1. k \in 4..6 /\ k # 2 /\ k # 3 /\ script.id # 0 /\ WriteLine(script.id)
    BY <1>4, <1>6 DEF PrintLine, Command
  <2> QED BY <1>1, <1>6, <2>1, WriteKeeps DEF PrintLine
<1>7. CASE WriteFooter
  <2>1. k = 7 /\ WriteLine("}")
    BY <1>1, <1>7, Distinct DEF WriteFooter, Command
  <2>2. k # 2 /\ k # 3 /\ k \notin 4..6
    <3>1. 7 # 2 /\ 7 # 3 /\ 7 \notin 4..6
      OBVIOUS
    <3> QED BY <2>1, <3>1
  <2> QED BY <1>1, <1>7, <2>1, <2>2, WriteKeeps DEF WriteFooter
<1> QED BY <1>5, <1>6, <1>7

\* A new run of the script has deployed nothing yet.
LEMMA StartKeeps ==
  ASSUME Inv, NEW a \in Accounts, NEW s \in Sacs, ScriptStart(a, s)
  PROVE  Inv'
<1>1. NetworkInv' /\ Kept /\ FileInv' /\ ReaderInv'
  BY SameNetwork, SameFile, SameReader DEF Inv, ScriptStart
<1>2. script' = [pc |-> "run", at |-> 1, admin |-> a, sac |-> s, id |-> 0]
  BY DEF ScriptStart
<1>3. ScriptInv'
  BY <1>2 DEF ScriptInv
<1> QED BY <1>1, <1>3 DEF Inv

\* set -e: a script that stops leaves its lines in the record.
LEMMA AbortKeeps ==
  ASSUME Inv, Abort
  PROVE  Inv'
<1>1. NetworkInv' /\ Kept /\ FileInv' /\ ReaderInv'
  BY SameNetwork, SameFile, SameReader DEF Inv, Abort
<1>2. ScriptInv'
  BY DEF Abort, ScriptInv, Running
<1> QED BY <1>1, <1>2 DEF Inv

\* A contract deployed is one more contract, of the kind the command names.
LEMMA DeployKeeps ==
  ASSUME Inv, DeployContract
  PROVE  Inv'
<1> DEFINE n == Len(deployed)
           c == [kind |-> Command, deployer |-> script.admin,
                 admin |-> script.admin,
                 sac |-> IF Command = "partner-attribution" THEN script.sac
                         ELSE NoSac,
                 total |-> 0]
<1>1. /\ deployed' = Append(deployed, c) /\ Running /\ Command \in Kinds
      /\ script' = [script EXCEPT !.id = Len(deployed')]
      /\ file' = file /\ reader' = reader /\ held' = held
  BY DEF DeployContract
<1>2. deployed \in Seq(Contract) /\ n \in Nat /\ NetworkInv
  BY DEF Inv, NetworkInv
<1>3. /\ script.admin \in Accounts /\ script.sac \in Sacs
      /\ script = [pc |-> "run", at |-> script.at, admin |-> script.admin,
                   sac |-> script.sac, id |-> script.id]
      /\ script.at \in 1..7
      /\ script.at > 1 => Len(file) = script.at - 1
      /\ script.at > 2 => file[2][2] = script.admin
      /\ script.at > 3 => file[3][2] = script.sac
  BY <1>1 DEF Inv, ScriptInv
<1>4. c \in Contract
  BY <1>1, <1>3 DEF Contract
<1>5. /\ c.kind = Command /\ c.deployer = script.admin
      /\ Command = "partner-attribution" => c.sac = script.sac
  OBVIOUS
<1> HIDE DEF c
<1>6. /\ deployed' \in Seq(Contract) /\ Len(deployed') = n + 1
      /\ deployed'[n + 1] = c /\ \A i \in 1..n : deployed'[i] = deployed[i]
  BY <1>1, <1>2, <1>4
<1>7. NetworkInv' /\ Kept
  BY <1>2, <1>6 DEF NetworkInv, Kept, Ids
<1>8. FileInv'
  BY <1>1, <1>2, <1>7, SameFile DEF Inv
<1>9. ReaderInv'
  <2>1. reader # Idle => deployed'[reader.client] = deployed[reader.client]
    BY <1>6 DEF Inv, ReaderInv, Ids
  <2> QED BY <1>1, <1>2, <1>7, <2>1, SameReader DEF Inv
<1>10. script.at \in 4..6
  <2>1. Script[script.at] \in {Script[4], Script[5], Script[6]}
    BY <1>1, Distinct DEF Command
  <2>2. 4 \in 1..7 /\ 5 \in 1..7 /\ 6 \in 1..7
    OBVIOUS
  <2> HIDE DEF Script
  <2>3. script.at = 4 \/ script.at = 5 \/ script.at = 6
    BY <1>3, <2>1, <2>2, Distinct
  <2>4. 4 \in 4..6 /\ 5 \in 4..6 /\ 6 \in 4..6
    OBVIOUS
  <2> QED BY <2>3, <2>4
<1>11. ScriptInv'
  <2>1. script' = [[pc |-> "run", at |-> script.at, admin |-> script.admin,
                    sac |-> script.sac, id |-> script.id]
                      EXCEPT !.id = n + 1]
    BY <1>1, <1>3, <1>6
  <2>2. script' = [pc |-> "run", at |-> script.at, admin |-> script.admin,
                   sac |-> script.sac, id |-> n + 1]
    BY <2>1
  <2>3. /\ script'.at = script.at /\ script'.admin = script.admin
        /\ script'.sac = script.sac /\ script'.id = n + 1
    BY <2>2
  <2>4. Is(deployed', n + 1, Command, script.admin, script.sac)
    BY <1>2, <1>5, <1>6 DEF Is
  <2>5. Command' = Command
    BY <2>3 DEF Command
  <2>6. script' = [pc |-> "run", at |-> script'.at, admin |-> script'.admin,
                   sac |-> script'.sac, id |-> script'.id]
    BY <2>2, <2>3
  <2>7. script'.id \in Nat
    BY <1>2, <2>3
  <2> HIDE DEF n
  <2> QED BY <1>1, <1>3, <1>10, <2>3, <2>4, <2>5, <2>6, <2>7 DEF ScriptInv
<1> QED BY <1>7, <1>8, <1>9, <1>11 DEF Inv

-----------------------------------------------------------------------------
(* The example.                                                            *)

\* The example starts with the addresses of a record that parses.
LEMMA ReaderStartKeeps ==
  ASSUME Inv, ReaderStart
  PROVE  Inv'
<1> DEFINE addresses == addressesFromDeployment(Parsed)
           client == corridorClients(addresses).partnerAttribution
<1>1. /\ Parses /\ UNCHANGED <<deployed, file, script>>
      /\ reader' = [pc |-> "reading", addresses |-> addresses,
                    client |-> client, result |-> << >>]
      /\ held' = {PairOf(deployed[client])}
  BY DEF ReaderStart
<1>2. NetworkInv' /\ Kept /\ FileInv' /\ ScriptInv'
  BY <1>1, SameNetwork, SameFile, SameScript DEF Inv
<1>3. /\ client = Parsed.contracts["partner-attribution"]
      /\ addresses.usdcSac = Parsed.usdc_sac
  BY DEF addressesFromDeployment, corridorClients
<1>4. /\ client \in Ids /\ deployed[client].kind = "partner-attribution"
      /\ deployed[client].sac = addresses.usdcSac
  BY <1>1, <1>3, RecordComplete DEF Inv, ParsedRecordComplete, Kinds
<1> HIDE DEF addresses, client
<1>5. /\ reader' # Idle /\ reader'.addresses = addresses
      /\ reader'.client = client /\ reader'.result = << >>
  BY <1>1 DEF Idle
<1>6. DOMAIN reader'.result = {}
  BY <1>5
<1>7. ReaderInv'
  BY <1>1, <1>4, <1>5, <1>6 DEF ReaderInv, PairOf, Ids
<1> QED BY <1>2, <1>7 DEF Inv

\* What a simulation answers is the contract's, which held it just now.
LEMMA ResolveKeeps ==
  ASSUME Inv, NEW m \in Methods, Resolve(m)
  PROVE  Inv'
<1> DEFINE c == deployed[reader.client]
           r == [n \in DOMAIN reader.result \cup {m} |->
                   IF n = m THEN Simulate(c, m) ELSE reader.result[n]]
<1>1. /\ reader # Idle /\ UNCHANGED <<deployed, file, script, held>>
      /\ reader' = [reader EXCEPT !.result = r]
  BY DEF Resolve, Waiting
<1>2. NetworkInv' /\ Kept /\ FileInv' /\ ScriptInv'
  BY <1>1, SameNetwork, SameFile, SameScript DEF Inv
<1>3. /\ reader = [pc |-> "reading", addresses |-> reader.addresses,
                   client |-> reader.client, result |-> reader.result]
      /\ reader.client \in Ids /\ c.kind = "partner-attribution"
      /\ c.sac = reader.addresses.usdcSac
      /\ PairOf(c) \in held /\ \A p \in held : p = <<p[1], p[2]>>
      /\ "get_admin" \in DOMAIN reader.result =>
           \E p \in held : p[1] = reader.result["get_admin"]
      /\ "total_bps" \in DOMAIN reader.result =>
           \E p \in held : p[2] = reader.result["total_bps"]
      /\ "sac_address" \in DOMAIN reader.result =>
           reader.result["sac_address"] = reader.addresses.usdcSac
  BY <1>1 DEF Inv, ReaderInv
<1>4. /\ DOMAIN r = DOMAIN reader.result \cup {m}
      /\ r[m] = Simulate(c, m)
      /\ \A n \in DOMAIN reader.result : n # m => r[n] = reader.result[n]
  OBVIOUS
<1>5. /\ Simulate(c, "get_admin") = PairOf(c)[1]
      /\ Simulate(c, "total_bps") = PairOf(c)[2]
      /\ Simulate(c, "sac_address") = reader.addresses.usdcSac
  BY <1>3 DEF Simulate, PairOf
<1> HIDE DEF r, c
<1>6. /\ "get_admin" \in DOMAIN r => \E p \in held : p[1] = r["get_admin"]
      /\ "total_bps" \in DOMAIN r => \E p \in held : p[2] = r["total_bps"]
      /\ "sac_address" \in DOMAIN r =>
           r["sac_address"] = reader.addresses.usdcSac
  BY <1>3, <1>4, <1>5
<1>7. reader' = [[pc |-> "reading", addresses |-> reader.addresses,
                  client |-> reader.client, result |-> reader.result]
                    EXCEPT !.result = r]
  BY <1>1, <1>3
<1>8. /\ reader' = [pc |-> "reading", addresses |-> reader.addresses,
                    client |-> reader.client, result |-> r]
      /\ reader'.addresses = reader.addresses
      /\ reader'.client = reader.client /\ reader'.result = r
  BY <1>7
<1>9. ReaderInv'
  BY <1>1, <1>3, <1>6, <1>8 DEF ReaderInv, Ids, PairOf, c
<1> QED BY <1>2, <1>9 DEF Inv

\* The example's end, or its failure, touches nothing.
LEMMA ReaderEndKeeps ==
  ASSUME Inv, ReaderEnd
  PROVE  Inv'
<1>1. NetworkInv' /\ Kept /\ FileInv' /\ ScriptInv'
  BY SameNetwork, SameFile, SameScript DEF Inv, ReaderEnd
<1>2. ReaderInv'
  BY DEF ReaderEnd, ReaderInv
<1> QED BY <1>1, <1>2 DEF Inv

\* The contract is used while it is read: it may answer something else now,
\* which it holds from now on.
LEMMA UsedKeeps ==
  ASSUME Inv, NEW i \in Ids, Used(i)
  PROVE  Inv'
<1>1. /\ reader # Idle /\ i = reader.client
      /\ UNCHANGED <<file, script, reader>>
      /\ held' = held \cup {PairOf(deployed'[i])}
  BY DEF Used, Waiting
<1>2. deployed \in Seq(Contract) /\ NetworkInv /\ Len(deployed) \in Nat
  BY DEF Inv, NetworkInv
<1>3. deployed[i] \in Contract
  BY <1>2 DEF Ids
<1>4. \E c \in Contract :
        /\ deployed' = [deployed EXCEPT ![i] = c]
        /\ c.kind = deployed[i].kind /\ c.deployer = deployed[i].deployer
        /\ c.sac = deployed[i].sac
  <2>1. ASSUME NEW n \in Bps, deployed' = [deployed EXCEPT ![i].total = n]
        PROVE  LET c == [deployed[i] EXCEPT !.total = n]
               IN  /\ deployed' = [deployed EXCEPT ![i] = c] /\ c \in Contract
                   /\ c.kind = deployed[i].kind
                   /\ c.deployer = deployed[i].deployer
                   /\ c.sac = deployed[i].sac
    BY <1>3, <2>1 DEF Contract
  <2>2. ASSUME NEW a \in Accounts \cup {NoAccount},
               deployed' = [deployed EXCEPT ![i].admin = a]
        PROVE  LET c == [deployed[i] EXCEPT !.admin = a]
               IN  /\ deployed' = [deployed EXCEPT ![i] = c] /\ c \in Contract
                   /\ c.kind = deployed[i].kind
                   /\ c.deployer = deployed[i].deployer
                   /\ c.sac = deployed[i].sac
    BY <1>3, <2>2 DEF Contract
  <2> QED BY <2>1, <2>2 DEF Used
<1>5. PICK c \in Contract :
        /\ deployed' = [deployed EXCEPT ![i] = c]
        /\ c.kind = deployed[i].kind /\ c.deployer = deployed[i].deployer
        /\ c.sac = deployed[i].sac
  BY <1>4
<1>6. /\ deployed' \in Seq(Contract) /\ Len(deployed') = Len(deployed)
      /\ deployed'[i] = c /\ \A j \in Ids : j # i => deployed'[j] = deployed[j]
  BY <1>2, <1>5 DEF Ids
<1>7. NetworkInv' /\ Kept
  BY <1>2, <1>5, <1>6 DEF NetworkInv, Kept, Ids
<1>8. FileInv' /\ ScriptInv'
  BY <1>1, <1>2, <1>7, SameFile, SameScript DEF Inv
<1>9. /\ reader = [pc |-> "reading", addresses |-> reader.addresses,
                   client |-> reader.client, result |-> reader.result]
      /\ deployed[i].kind = "partner-attribution"
      /\ deployed[i].sac = reader.addresses.usdcSac
      /\ \A p \in held : p = <<p[1], p[2]>>
      /\ "get_admin" \in DOMAIN reader.result =>
           \E p \in held : p[1] = reader.result["get_admin"]
      /\ "total_bps" \in DOMAIN reader.result =>
           \E p \in held : p[2] = reader.result["total_bps"]
      /\ "sac_address" \in DOMAIN reader.result =>
           reader.result["sac_address"] = reader.addresses.usdcSac
  BY <1>1 DEF Inv, ReaderInv
<1>10. /\ held \subseteq held' /\ PairOf(deployed'[i]) \in held'
       /\ \A p \in held' : p = <<p[1], p[2]>>
  BY <1>1, <1>9 DEF PairOf
<1>11. /\ deployed'[i].kind = "partner-attribution"
       /\ deployed'[i].sac = reader.addresses.usdcSac /\ i \in Ids'
  BY <1>5, <1>6, <1>9 DEF Ids
<1>12. ReaderInv'
  BY <1>1, <1>9, <1>10, <1>11 DEF ReaderInv, PairOf
<1> QED BY <1>7, <1>8, <1>12 DEF Inv

\* Nothing is deployed, nothing runs, and the record is empty.
LEMMA InitInv == Init => Inv
<1> SUFFICES ASSUME Init PROVE Inv
  OBVIOUS
<1>1. /\ << >> \in Seq(Contract) /\ << >> \in Seq(Line \X Values)
      /\ Len(<< >>) = 0
  OBVIOUS
<1>2. NetworkInv /\ ScriptInv /\ ReaderInv
  BY <1>1 DEF Init, NetworkInv, ScriptInv, ReaderInv, Running
<1>3. FileInv
  BY <1>1 DEF Init, FileInv
<1> QED BY <1>2, <1>3 DEF Inv

\* The inductive step of Inv, one action at a time.
LEMMA NextInv == Inv /\ [Next]_vars => Inv'
<1> SUFFICES ASSUME Inv, [Next]_vars PROVE Inv'
  OBVIOUS
<1>1. CASE UNCHANGED vars
  BY <1>1 DEF vars, Inv, NetworkInv, FileInv, ScriptInv, ReaderInv, Running,
     Command, Ids
<1> QED
  BY <1>1, StartKeeps, LinesKeep, DeployKeeps, AbortKeeps, ReaderStartKeeps,
     ResolveKeeps, ReaderEndKeeps, UsedKeeps DEF Next

\* However often the script aborts and runs again, a record that parses names
\* three contracts of one deployment.
THEOREM RecordIsWhole == Spec => []ParsedRecordComplete
BY InitInv, NextInv, RecordComplete, PTL DEF Spec, Inv

\* What the example prints comes from a partner-attribution contract that
\* wraps the token of the record it was found in.
THEOREM ReportIsOfRecord == Spec => []ReportMatchesRecord
<1>1. Inv => ReportMatchesRecord
  BY DEF Inv, ReaderInv, ReportMatchesRecord, Answered, Methods
<1> QED BY <1>1, InitInv, NextInv, PTL DEF Spec

\* The admin and the total printed were the contract's at one moment of the
\* run, unless both changed during it.
THEOREM TornByTwoChanges == Spec => []TornOnlyByTwoChanges
<1>1. Inv => TornOnlyByTwoChanges
  <2> SUFFICES ASSUME Inv, Answered
               PROVE  \/ <<reader.result["get_admin"],
                           reader.result["total_bps"]>> \in held
                      \/ /\ \E p, q \in held : p[1] # q[1]
                         /\ \E p, q \in held : p[2] # q[2]
    BY DEF TornOnlyByTwoChanges
  <2>1. PICK p \in held : p[1] = reader.result["get_admin"]
    BY DEF Inv, ReaderInv, Answered, Methods
  <2>2. PICK q \in held : q[2] = reader.result["total_bps"]
    BY DEF Inv, ReaderInv, Answered, Methods
  <2>3. p = <<p[1], p[2]>> /\ q = <<q[1], q[2]>>
    BY DEF Inv, ReaderInv, Answered
  <2>4. CASE p[2] = q[2]
    BY <2>1, <2>2, <2>3, <2>4
  <2>5. CASE p[1] = q[1]
    BY <2>1, <2>2, <2>3, <2>5
  <2> QED BY <2>4, <2>5
<1> QED BY <1>1, InitInv, NextInv, PTL DEF Spec
=============================================================================
