-------------------------- MODULE CredentialsProofs --------------------------
(***************************************************************************)
(* For any Agents, credentials, lifetimes and clock readings: the          *)
(* credential table keeps its types and CHECK constraints, an Agent never  *)
(* holds two unretired credentials, retirement is final, the credentials   *)
(* in force can be revealed and no others, a credential can be retired at  *)
(* any time not before its last use, and what survives a recovery of the   *)
(* operator had expired or is dated later.                                 *)
(***************************************************************************)
EXTENDS Credentials, TLAPS

USE DEF Null

-----------------------------------------------------------------------------
(* What the repository operations do to one row. *)

\* A fresh row is well typed, satisfies the constraints and is not retired.
LEMMA NewRowFacts ==
    ASSUME NEW c \in Callers, NEW t \in Nat, NEW e \in Expiries(c, t),
           NEW s \in BOOLEAN
    PROVE  /\ NewRow(c, t, e, s) \in Rows
           /\ Timestamps(NewRow(c, t, e, s))
           /\ NewRow(c, t, e, s).caller = c
  <1>1. e \in Nat /\ (e = 0 \/ e > t)
    BY CredentialConstants DEF Expiries
  <1> QED
    BY <1>1, CredentialConstants DEF NewRow, Rows, Timestamps

\* Revocation retires the row and keeps its caller.
LEMMA RevokedFacts ==
    ASSUME NEW r \in Rows, NEW t \in Nat \ {0}
    PROVE  /\ Revoked(r, t) \in Rows
           /\ Revoked(r, t).caller = r.caller
           /\ Revoked(r, t).revoked # 0
  BY DEF Revoked, Rows

\* So does rotation.
LEMMA RotatedFacts ==
    ASSUME NEW r \in Rows, NEW t \in Nat \ {0}, NEW k \in Creds
    PROVE  /\ Rotated(r, k, t) \in Rows
           /\ Rotated(r, k, t).caller = r.caller
           /\ Rotated(r, k, t).revoked # 0
  BY DEF Rotated, Rows

\* A use changes neither the caller nor whether the row is retired.
LEMMA TouchedFacts ==
    ASSUME NEW r \in Rows, NEW t \in Nat
    PROVE  /\ Touched(r, t) \in Rows
           /\ Touched(r, t).caller = r.caller
           /\ Touched(r, t).revoked = r.revoked
           /\ Touched(r, t).next = r.next
  BY DEF Touched, Rows

-----------------------------------------------------------------------------
(* Every action is a GoodStep, and a GoodStep preserves the invariant. *)

\* What one step may do to a row: nothing, insert it, or update it while it
\* is not retired, keeping its caller.
RowStep(j) ==
    \/ row'[j] = row[j]
    \/ /\ row[j] = NoRow /\ row'[j] \in Rows /\ Timestamps(row'[j])
       /\ status'[row'[j].caller] # "absent"
    \/ /\ row[j] # NoRow /\ ~ Retired(j)
       /\ row'[j] \in Rows /\ Timestamps(row'[j])
       /\ row'[j].caller = row[j].caller

\* A credential inserted for an Agent is its only unretired one afterwards.
BirthAlone ==
    \A a \in Agents, k \in Creds :
        row[k] = NoRow /\ row'[k] # NoRow /\ row'[k].caller = a
            => \A j \in Unretired(a)' : j = k

\* The shape of every step: no row or caller is lost, and BirthAlone.
GoodStep ==
    /\ status' \in [Callers -> {"absent", "enabled", "disabled"}]
    /\ \A c \in Callers : status[c] # "absent" => status'[c] # "absent"
    /\ row' \in [Creds -> Rows \cup {NoRow}]
    /\ value' \subseteq Creds
    /\ latest' \in Creds \cup {NoCred}
    /\ \A j \in Creds : RowStep(j)
    /\ BirthAlone

\* The inductive invariant.
IInv == CredentialTypeOK /\ OneLivePerAgent

\* An issued credential has a well-typed row of a known caller.
LEMMA IssuedRows ==
    ASSUME CredentialTypeOK, NEW k \in Issued
    PROVE  /\ row[k] \in Rows /\ row[k].caller \in Callers
           /\ row[k] # NoRow /\ k \in Creds
  BY DEF CredentialTypeOK, Issued, Rows

\* A GoodStep keeps the column types and CHECK constraints.
LEMMA GoodStepKeepsTypes ==
    ASSUME CredentialTypeOK, GoodStep
    PROVE  CredentialTypeOK'
  <1>1. ASSUME NEW k \in Issued'
        PROVE  Timestamps(row'[k]) /\ status'[row'[k].caller] # "absent"
    <2>1. k \in Creds /\ row'[k] # NoRow /\ RowStep(k)
      BY <1>1 DEF Issued, GoodStep
    <2>2. CASE row'[k] = row[k]
      <3>1. k \in Issued
        BY <2>1, <2>2 DEF Issued
      <3> QED
        BY <3>1, <2>2, IssuedRows DEF CredentialTypeOK, GoodStep
    <2>3. CASE row[k] = NoRow /\ Timestamps(row'[k]) /\ status'[row'[k].caller] # "absent"
      BY <2>3
    <2>4. CASE row[k] # NoRow /\ Timestamps(row'[k]) /\ row'[k].caller = row[k].caller
      <3>1. k \in Issued
        BY <2>1, <2>4 DEF Issued
      <3> QED
        BY <3>1, <2>4, IssuedRows DEF CredentialTypeOK, GoodStep
    <2> QED
      BY <2>1, <2>2, <2>3, <2>4 DEF RowStep
  <1>2. \A k \in Issued' : Timestamps(row[k])' /\ (status[row[k].caller])' # "absent"
    BY <1>1 DEF Timestamps
  <1> QED
    BY <1>2 DEF CredentialTypeOK, GoodStep

\* A GoodStep leaves no Agent with two unretired credentials.
LEMMA GoodStepKeepsOneLive ==
    ASSUME IInv, GoodStep
    PROVE  OneLivePerAgent'
  <1> SUFFICES ASSUME NEW a \in Agents, NEW j \in Unretired(a)', NEW k \in Unretired(a)'
               PROVE  j = k
    BY DEF OneLivePerAgent
  <1>1. \A i \in Unretired(a)' : i \in Unretired(a) \/ row[i] = NoRow
    BY DEF Unretired, Issued, Retired, GoodStep, RowStep
  <1>2. \A i \in Unretired(a)' : i \in Creds /\ row'[i] # NoRow /\ row'[i].caller = a
    BY DEF Unretired, Issued
  <1>3. CASE row[j] = NoRow
    BY <1>2, <1>3 DEF GoodStep, BirthAlone
  <1>4. CASE row[k] = NoRow
    BY <1>2, <1>4 DEF GoodStep, BirthAlone
  <1>5. CASE j \in Unretired(a) /\ k \in Unretired(a)
    BY <1>5 DEF IInv, OneLivePerAgent
  <1> QED
    BY <1>1, <1>3, <1>4, <1>5

-----------------------------------------------------------------------------
(* One lemma per kind of action. *)

\* A token that is accepted names an issued, unretired row of an enabled caller.
LEMMA AcceptedRows ==
    ASSUME CredentialTypeOK, NEW k, NEW t, Accepts(k, t)
    PROVE  /\ k \in Creds /\ row[k] \in Rows /\ row[k] # NoRow /\ ~ Retired(k)
           /\ row[k].caller \in Callers /\ status[row[k].caller] = "enabled"
  <1>1. k \in Issued /\ ~ Retired(k) /\ status[row[k].caller] = "enabled"
    BY DEF Accepts, Active
  <1> QED
    BY <1>1, IssuedRows

\* touch_credential_last_used of an accepted token is a GoodStep.
LEMMA UseIsGood ==
    ASSUME IInv, NEW k, NEW t \in Nat, Accepts(k, t),
           Timestamps(Touched(row[k], t)),
           row' = [row EXCEPT ![k] = Touched(@, t)],
           UNCHANGED <<status, value, latest>>
    PROVE  GoodStep
  <1>1. CredentialTypeOK
    BY DEF IInv
  <1>2. /\ k \in Creds /\ row[k] \in Rows /\ row[k] # NoRow /\ ~ Retired(k)
    BY <1>1, AcceptedRows
  <1>3. /\ Touched(row[k], t) \in Rows /\ Touched(row[k], t).caller = row[k].caller
        /\ Touched(row[k], t) # NoRow
    BY <1>2, TouchedFacts, NoRowIsNoRow
  <1>4. row \in [Creds -> Rows \cup {NoRow}]
    BY <1>1 DEF CredentialTypeOK
  <1>5. row' \in [Creds -> Rows \cup {NoRow}]
    BY <1>2, <1>3, <1>4
  <1>6. ASSUME NEW j \in Creds PROVE RowStep(j)
    BY <1>2, <1>3, <1>4 DEF RowStep
  <1>7. BirthAlone
    BY <1>2, <1>4 DEF BirthAlone
  <1> QED
    BY <1>1, <1>5, <1>6, <1>7 DEF GoodStep, CredentialTypeOK

\* Insertion of an operator's row, retiring a set of rows at the same time.
LEMMA RecoverIsGood ==
    ASSUME IInv, NEW k \in Creds, NEW t \in Nat \ {0}, Recover(k, t)
    PROVE  GoodStep
  <1>1. CredentialTypeOK /\ row \in [Creds -> Rows \cup {NoRow}]
    BY DEF IInv, CredentialTypeOK
  <1>2. PICK e \in Expiries(Operator, t) :
          row' = [j \in Creds |-> IF j = k THEN NewRow(Operator, t, e, FALSE)
                                  ELSE IF j \in Prior(t) THEN Revoked(row[j], t)
                                  ELSE row[j]]
    BY DEF Recover
  <1>3. /\ NewRow(Operator, t, e, FALSE) \in Rows /\ Timestamps(NewRow(Operator, t, e, FALSE))
        /\ NewRow(Operator, t, e, FALSE).caller = Operator
    BY NewRowFacts DEF Callers
  <1>4. \A j \in Prior(t) : /\ row[j] # NoRow /\ ~ Retired(j) /\ Revoked(row[j], t) \in Rows
                            /\ Revoked(row[j], t).caller = row[j].caller
                            /\ Timestamps(Revoked(row[j], t))
    BY <1>1, IssuedRows, RevokedFacts DEF Prior, Unretired, Recover
  <1>5. row[k] = NoRow /\ status[Operator] = "enabled" /\ Operator \in Callers
    BY DEF Recover, Free, Callers
  <1>6. row' \in [Creds -> Rows \cup {NoRow}]
    BY <1>1, <1>2, <1>3, <1>4
  <1>7. UNCHANGED <<status, value>> /\ latest' = k
    BY DEF Recover
  <1>8. ASSUME NEW j \in Creds PROVE RowStep(j)
    BY <1>2, <1>3, <1>4, <1>5, <1>7 DEF RowStep
  <1>9. BirthAlone
    <2>1. \A j \in Creds : row[j] = NoRow /\ row'[j] # NoRow => j = k
      BY <1>2, <1>4
    <2> QED
      BY <2>1, <1>2, <1>3, CredentialConstants DEF BirthAlone
  <1> QED
    BY <1>1, <1>6, <1>7, <1>8, <1>9 DEF GoodStep, CredentialTypeOK

\* OperatorBootstrapService.bootstrap is a GoodStep.
LEMMA BootstrapIsGood ==
    ASSUME IInv, NEW k \in Creds, NEW t \in Nat \ {0}, Bootstrap(k, t)
    PROVE  GoodStep
  <1>1. CredentialTypeOK /\ row \in [Creds -> Rows \cup {NoRow}] /\ Operator \in Callers
    BY DEF IInv, CredentialTypeOK, Callers
  <1>2. PICK e \in Expiries(Operator, t) :
          row' = [row EXCEPT ![k] = NewRow(Operator, t, e, FALSE)]
    BY DEF Bootstrap
  <1>3. /\ NewRow(Operator, t, e, FALSE) \in Rows /\ Timestamps(NewRow(Operator, t, e, FALSE))
        /\ NewRow(Operator, t, e, FALSE).caller = Operator
    BY <1>1, NewRowFacts
  <1>4. /\ row[k] = NoRow /\ status' = [status EXCEPT ![Operator] = "enabled"]
        /\ value' = value /\ latest' = k
    BY DEF Bootstrap, Free
  <1>5. row' \in [Creds -> Rows \cup {NoRow}]
    BY <1>1, <1>2, <1>3
  <1>6. /\ status' \in [Callers -> {"absent", "enabled", "disabled"}]
        /\ status'[Operator] = "enabled"
        /\ \A c \in Callers : status[c] # "absent" => status'[c] # "absent"
    BY <1>1, <1>4 DEF CredentialTypeOK
  <1>7. ASSUME NEW j \in Creds PROVE RowStep(j)
    BY <1>1, <1>2, <1>3, <1>4, <1>6 DEF RowStep
  <1>8. BirthAlone
    BY <1>1, <1>2, <1>3, CredentialConstants DEF BirthAlone
  <1> QED
    BY <1>1, <1>4, <1>5, <1>6, <1>7, <1>8 DEF GoodStep, CredentialTypeOK

\* Provisioning inserts a row for a caller that had none; the operator's own
\* row, if one is used, stays the operator's.
LEMMA ProvisionIsGood ==
    ASSUME IInv, NEW a \in Agents, NEW k \in Creds, NEW t \in Nat,
           NEW e \in Expiries(a, t), NEW s \in BOOLEAN, NEW old,
           old \in [Creds -> Rows \cup {NoRow}],
           \A j \in Creds : \/ old[j] = row[j]
                            \/ /\ row[j] # NoRow /\ ~ Retired(j) /\ old[j] \in Rows
                               /\ Timestamps(old[j]) /\ old[j].caller = row[j].caller,
           row' = [old EXCEPT ![k] = NewRow(a, t, e, s)],
           row[k] = NoRow, status[a] = "absent",
           status' = [status EXCEPT ![a] = "enabled"],
           value' = value \cup {k}, UNCHANGED latest
    PROVE  GoodStep
  <1>1. CredentialTypeOK /\ a \in Callers
    BY DEF IInv, Callers
  <1>2. /\ NewRow(a, t, e, s) \in Rows /\ Timestamps(NewRow(a, t, e, s))
        /\ NewRow(a, t, e, s).caller = a
    BY <1>1, NewRowFacts
  <1>3. row' \in [Creds -> Rows \cup {NoRow}]
    BY <1>2
  <1>4. /\ status' \in [Callers -> {"absent", "enabled", "disabled"}]
        /\ status'[a] = "enabled"
        /\ \A c \in Callers : status[c] # "absent" => status'[c] # "absent"
    BY <1>1 DEF CredentialTypeOK
  <1>5. ASSUME NEW j \in Creds PROVE RowStep(j)
    BY <1>2, <1>4 DEF RowStep
  <1>6. BirthAlone
    <2>1. \A j \in Creds : row[j] # NoRow => row[j].caller # a
      BY <1>1 DEF CredentialTypeOK, Issued
    <2>2. \A j \in Creds \ {k} : row'[j] = old[j]
      OBVIOUS
    <2>3. \A j \in Creds \ {k} : row'[j] # NoRow => row[j] # NoRow /\ row'[j].caller = row[j].caller
      BY <2>2
    <2>4. \A b \in Agents, i \in Creds :
            row[i] = NoRow /\ row'[i] # NoRow /\ row'[i].caller = b => i = k /\ b = a
      BY <2>3, <1>2
    <2>5. \A j \in Unretired(a)' : j = k
      BY <2>1, <2>3 DEF Unretired, Issued
    <2> QED
      BY <2>4, <2>5 DEF BirthAlone
  <1>7. /\ value' \subseteq Creds /\ latest' \in Creds \cup {NoCred}
    BY <1>1 DEF CredentialTypeOK
  <1> QED
    BY <1>3, <1>4, <1>5, <1>6, <1>7 DEF GoodStep

\* _provision_agent, which also uses the operator's token, is a GoodStep.
LEMMA ProvisionAgentIsGood ==
    ASSUME IInv, NEW o \in Creds, NEW a \in Agents, NEW k \in Creds, NEW t \in Nat,
           ProvisionAgent(o, a, k, t)
    PROVE  GoodStep
  <1> DEFINE old == [row EXCEPT ![o] = Touched(@, t)]
  <1>1. CredentialTypeOK /\ row \in [Creds -> Rows \cup {NoRow}]
    BY DEF IInv, CredentialTypeOK
  <1>2. Accepts(o, t) /\ Timestamps(Touched(row[o], t)) /\ row[k] = NoRow
    BY DEF ProvisionAgent, IsOperator, Free
  <1>3. row[o] \in Rows /\ row[o] # NoRow /\ ~ Retired(o)
    BY <1>1, <1>2, AcceptedRows
  <1>4. Touched(row[o], t) \in Rows /\ Touched(row[o], t).caller = row[o].caller
    BY <1>3, TouchedFacts
  <1>5. old \in [Creds -> Rows \cup {NoRow}]
    BY <1>1, <1>4
  <1>6. \A j \in Creds : \/ old[j] = row[j]
                         \/ /\ row[j] # NoRow /\ ~ Retired(j) /\ old[j] \in Rows
                            /\ Timestamps(old[j]) /\ old[j].caller = row[j].caller
    BY <1>1, <1>2, <1>3, <1>4
  <1>7. PICK e \in Expiries(a, t) : row' = [old EXCEPT ![k] = NewRow(a, t, e, FALSE)]
    BY DEF ProvisionAgent
  <1>8. /\ status[a] = "absent" /\ status' = [status EXCEPT ![a] = "enabled"]
        /\ value' = value \cup {k} /\ UNCHANGED latest
    BY DEF ProvisionAgent
  <1> HIDE DEF old
  <1> QED
    BY <1>2, <1>5, <1>6, <1>7, <1>8, ProvisionIsGood

\* provision_agent_in_transaction is a GoodStep.
LEMMA ProvisionAsMasterIsGood ==
    ASSUME IInv, NEW a \in Agents, NEW k \in Creds, NEW t \in Nat, ProvisionAgentAsMaster(a, k, t)
    PROVE  GoodStep
  <1>1. row \in [Creds -> Rows \cup {NoRow}]
    BY DEF IInv, CredentialTypeOK
  <1>2. PICK e \in Expiries(a, t) : row' = [row EXCEPT ![k] = NewRow(a, t, e, TRUE)]
    BY DEF ProvisionAgentAsMaster
  <1>3. /\ status[a] = "absent" /\ row[k] = NoRow
        /\ status' = [status EXCEPT ![a] = "enabled"]
        /\ value' = value \cup {k} /\ UNCHANGED latest
    BY DEF ProvisionAgentAsMaster, Free
  <1> QED
    BY <1>1, <1>2, <1>3, ProvisionIsGood

\* The replaced credential was the Agent's only unretired one and is retired
\* by the step that inserts its successor.
LEMMA RotateIsGood ==
    ASSUME IInv, NEW k \in Creds, NEW new \in Creds, NEW t \in Nat \ {0},
           RotateAsMaster(k, new, t)
    PROVE  GoodStep
  <1>1. /\ CredentialTypeOK /\ OneLivePerAgent
        /\ row \in [Creds -> Rows \cup {NoRow}]
    BY DEF IInv, CredentialTypeOK
  <1>2. Accepts(k, t) /\ row[k].caller \in Agents /\ row[new] = NoRow
    BY DEF RotateAsMaster, Rotatable, Free
  <1>3. /\ row[k] \in Rows /\ row[k] # NoRow /\ ~ Retired(k) /\ row[k].caller \in Callers
        /\ status[row[k].caller] = "enabled"
    BY <1>1, <1>2, AcceptedRows
  <1>4. PICK e \in Expiries(row[k].caller, t) :
          row' = [row EXCEPT ![k] = Rotated(@, new, t),
                             ![new] = NewRow(row[k].caller, t, e, TRUE)]
    BY DEF RotateAsMaster
  <1>5. /\ Rotated(row[k], new, t) \in Rows
        /\ Rotated(row[k], new, t).caller = row[k].caller
        /\ Rotated(row[k], new, t).revoked # 0
        /\ Timestamps(Rotated(row[k], new, t))
    BY <1>1, <1>3, RotatedFacts DEF RotateAsMaster
  <1>6. /\ NewRow(row[k].caller, t, e, TRUE) \in Rows
        /\ Timestamps(NewRow(row[k].caller, t, e, TRUE))
        /\ NewRow(row[k].caller, t, e, TRUE).caller = row[k].caller
    BY <1>1, <1>3, NewRowFacts
  <1>7. /\ row'[k] = Rotated(row[k], new, t) /\ k # new
        /\ row'[new] = NewRow(row[k].caller, t, e, TRUE)
        /\ \A j \in Creds \ {k, new} : row'[j] = row[j]
        /\ DOMAIN row' = Creds
    BY <1>1, <1>2, <1>3, <1>4
  <1>8. row' \in [Creds -> Rows \cup {NoRow}]
    BY <1>1, <1>4, <1>5, <1>6
  <1>9. /\ UNCHANGED <<status, latest>> /\ value' = (value \ {k}) \cup {new}
    BY DEF RotateAsMaster
  <1>10. ASSUME NEW j \in Creds PROVE RowStep(j)
    BY <1>2, <1>3, <1>5, <1>6, <1>7, <1>9 DEF RowStep
  <1>11. BirthAlone
    <2>1. PICK a \in Agents : a = row[k].caller
      BY <1>2
    <2>2. k \in Unretired(a)
      BY <1>3, <2>1 DEF Unretired, Issued
    <2>3. \A i \in Creds : row[i] = NoRow /\ row'[i] # NoRow => i = new
      BY <1>3, <1>7
    <2>4. ASSUME NEW j \in Unretired(a)', j # new PROVE FALSE
      <3>1. j \in Creds /\ row'[j] # NoRow /\ row'[j].caller = a /\ ~ Retired(j)'
        BY <2>4 DEF Unretired, Issued
      <3>2. j # k
        BY <3>1, <1>5, <1>7 DEF Retired
      <3>3. j \in Unretired(a)
        BY <3>1, <3>2, <2>4, <1>7 DEF Unretired, Issued, Retired
      <3> QED
        BY <3>2, <3>3, <2>2, <1>1 DEF OneLivePerAgent
    <2>5. row'[new].caller = a
      BY <2>1, <1>6, <1>7
    <2> QED
      BY <2>3, <2>4, <2>5 DEF BirthAlone
  <1> QED
    BY <1>1, <1>8, <1>9, <1>10, <1>11 DEF GoodStep, CredentialTypeOK

\* A revocation, by the operator's token or the master.
LEMMA RevokeAgentCredentialIsGood ==
    ASSUME IInv, NEW o \in Creds, NEW k \in Creds, NEW t \in Nat \ {0},
           RevokeAgentCredential(o, k, t)
    PROVE  GoodStep
  <1>1. CredentialTypeOK /\ row \in [Creds -> Rows \cup {NoRow}]
    BY DEF IInv, CredentialTypeOK
  <1>2. /\ Accepts(o, t) /\ Timestamps(Touched(row[o], t)) /\ row[o].caller = Operator
        /\ k \in Issued /\ row[k].caller \in Agents /\ ~ Retired(k)
        /\ Timestamps(Revoked(row[k], t))
        /\ row' = [row EXCEPT ![o] = Touched(@, t), ![k] = Revoked(@, t)]
        /\ value' = value \ {k} /\ UNCHANGED <<status, latest>>
    BY DEF RevokeAgentCredential, IsOperator, Revocable, Forget
  <1>3. row[o] \in Rows /\ row[o] # NoRow /\ ~ Retired(o) /\ row[k] \in Rows /\ row[k] # NoRow
    BY <1>1, <1>2, AcceptedRows, IssuedRows
  <1>4. /\ Touched(row[o], t) \in Rows /\ Touched(row[o], t).caller = row[o].caller
        /\ Revoked(row[k], t) \in Rows /\ Revoked(row[k], t).caller = row[k].caller
    BY <1>3, TouchedFacts, RevokedFacts
  <1>5. /\ o # k /\ row'[o] = Touched(row[o], t) /\ row'[k] = Revoked(row[k], t)
        /\ \A j \in Creds \ {o, k} : row'[j] = row[j]
    BY <1>1, <1>2, CredentialConstants
  <1>6. row' \in [Creds -> Rows \cup {NoRow}]
    BY <1>1, <1>2, <1>4
  <1>7. ASSUME NEW j \in Creds PROVE RowStep(j)
    BY <1>2, <1>3, <1>4, <1>5 DEF RowStep
  <1>8. BirthAlone
    BY <1>3, <1>5 DEF BirthAlone
  <1> QED
    BY <1>1, <1>2, <1>6, <1>7, <1>8 DEF GoodStep, CredentialTypeOK

\* revoke_agent_credential_as_master is a GoodStep.
LEMMA RevokeAsMasterIsGood ==
    ASSUME IInv, NEW k \in Creds, NEW t \in Nat \ {0}, RevokeAsMaster(k, t)
    PROVE  GoodStep
  <1>1. CredentialTypeOK /\ row \in [Creds -> Rows \cup {NoRow}]
    BY DEF IInv, CredentialTypeOK
  <1>2. /\ k \in Issued /\ ~ Retired(k) /\ Timestamps(Revoked(row[k], t))
        /\ row' = [row EXCEPT ![k] = Revoked(@, t)]
        /\ value' = value \ {k} /\ UNCHANGED <<status, latest>>
    BY DEF RevokeAsMaster, Revocable, Forget
  <1>3. row[k] \in Rows /\ row[k] # NoRow
    BY <1>1, <1>2, IssuedRows
  <1>4. Revoked(row[k], t) \in Rows /\ Revoked(row[k], t).caller = row[k].caller
    BY <1>3, RevokedFacts
  <1>5. row' \in [Creds -> Rows \cup {NoRow}]
    BY <1>1, <1>2, <1>4
  <1>6. ASSUME NEW j \in Creds PROVE RowStep(j)
    BY <1>1, <1>2, <1>3, <1>4 DEF RowStep
  <1>7. BirthAlone
    BY <1>1, <1>2, <1>3 DEF BirthAlone
  <1> QED
    BY <1>1, <1>2, <1>5, <1>6, <1>7 DEF GoodStep, CredentialTypeOK

\* A step that leaves the credential table alone.
LEMMA SameTableIsGood ==
    ASSUME IInv, row' = row, value' \subseteq Creds, latest' = latest,
           status' \in [Callers -> {"absent", "enabled", "disabled"}],
           \A c \in Callers : status[c] # "absent" => status'[c] # "absent"
    PROVE  GoodStep
  BY DEF IInv, CredentialTypeOK, GoodStep, RowStep, BirthAlone

\* Every handler is a GoodStep from a state that satisfies the invariant.
LEMMA NextIsGood ==
    ASSUME IInv, [CredentialsNext]_vars
    PROVE  GoodStep
  <1>1. CredentialTypeOK /\ Times \subseteq Nat \ {0}
    BY DEF IInv, Times
  <1>2. ASSUME NEW k \in Creds, NEW t \in Times,
               Bootstrap(k, t) \/ Recover(k, t) \/ RevokeAsMaster(k, t)
        PROVE  GoodStep
    BY <1>1, <1>2, BootstrapIsGood, RecoverIsGood, RevokeAsMasterIsGood
  <1>3. ASSUME NEW o \in Creds, NEW k \in Creds, NEW t \in Times, RevokeAgentCredential(o, k, t)
        PROVE  GoodStep
    BY <1>1, <1>3, RevokeAgentCredentialIsGood
  <1>4. ASSUME NEW o \in Creds, NEW k \in Creds, NEW t \in Times, RevokeAgain(o, k, t)
        PROVE  GoodStep
    BY <1>1, <1>4, UseIsGood DEF RevokeAgain, IsOperator
  <1>5. ASSUME NEW o \in Creds, NEW k \in Creds, NEW t \in Times, NEW a \in Agents,
               ProvisionAgent(o, a, k, t)
        PROVE  GoodStep
    BY <1>1, <1>5, ProvisionAgentIsGood
  <1>6. ASSUME NEW a \in Agents, DisableAsMaster(a) PROVE GoodStep
    BY <1>1, <1>6, SameTableIsGood DEF DisableAsMaster, CredentialTypeOK
  <1>7. ASSUME NEW a \in Agents, NEW k \in Creds, NEW t \in Times, ProvisionAgentAsMaster(a, k, t)
        PROVE  GoodStep
    BY <1>1, <1>7, ProvisionAsMasterIsGood
  <1>8. ASSUME NEW k \in Creds, NEW new \in Creds, NEW t \in Times, RotateAsMaster(k, new, t)
        PROVE  GoodStep
    BY <1>1, <1>8, RotateIsGood
  <1>9. ASSUME NEW k \in Creds, NEW t \in Times, Authenticate(k, t) PROVE GoodStep
    BY <1>1, <1>9, UseIsGood DEF Authenticate, Usable
  <1>10. CASE UNCHANGED vars
    BY <1>1, <1>10, SameTableIsGood DEF vars, CredentialTypeOK
  <1> QED
    BY <1>2, <1>3, <1>4, <1>5, <1>6, <1>7, <1>8, <1>9, <1>10 DEF CredentialsNext

-----------------------------------------------------------------------------
(* The theorems. *)

\* The invariant is inductive.
LEMMA InvariantHolds == CredentialsSpec => []IInv
  <1>1. CredentialsInit => IInv
    BY DEF CredentialsInit, IInv, CredentialTypeOK, OneLivePerAgent, Issued, Unretired
  <1>2. IInv /\ [CredentialsNext]_vars => IInv'
    BY NextIsGood, GoodStepKeepsTypes, GoodStepKeepsOneLive DEF IInv
  <1> QED
    BY <1>1, <1>2, PTL DEF CredentialsSpec

\* Every row of auth_credentials stays in its column ranges and satisfies
\* ck_auth_credentials_timestamps, whatever clock a handler acted with.
THEOREM CredentialTypesHold == CredentialsSpec => []CredentialTypeOK
  BY InvariantHolds, PTL DEF IInv

\* rotate_agent_credential_as_master and the provisioning handlers never leave
\* an Agent with two credentials that are neither revoked nor rotated.
THEOREM AgentsHoldOneCredential == CredentialsSpec => []OneLivePerAgent
  BY InvariantHolds, PTL DEF IInv

\* No handler changes the row of a revoked or rotated credential again.
THEOREM RetirementStays == CredentialsSpec => RetirementIsFinal
  <1>1. ASSUME GoodStep
        PROVE  \A k \in Issued : Retired(k) => row'[k] = row[k]
    BY <1>1 DEF GoodStep, RowStep, Issued
  <1>2. IInv /\ [CredentialsNext]_vars
          => [\A k \in Issued : Retired(k) => row'[k] = row[k]]_vars
    BY <1>1, NextIsGood
  <1> QED
    BY <1>2, InvariantHolds, PTL DEF CredentialsSpec, RetirementIsFinal

-----------------------------------------------------------------------------
(* Credentials in force can be managed, and what a recovery leaves behind.  *)

\* The credentials whose token the administrator may reveal.
InForce(j) == /\ j \in Issued /\ row[j].caller \in Agents /\ ~ Retired(j)
              /\ status[row[j].caller] = "enabled"

\* A row is dated by its last use, or by its issue if it was never used.
DatedByUse(r) == r.updated = IF r.used = Null THEN r.created ELSE r.used

\* No handler that leaves a credential unretired dates its row otherwise,
\* whatever clock it acted with.
LiveDatedByUse == \A j \in Issued : ~ Retired(j) => DatedByUse(row[j])

\* The operator exists from the first credential delivered to him.
OperatorIssued == status[Operator] # "absent" => latest \in Issued

\* The inductive invariant of the two properties.
ManageInv ==
    /\ IInv /\ LiveDatedByUse /\ OperatorIssued
    /\ \A j \in Creds : j \in value <=> InForce(j)
    /\ SurvivorsOfRecovery

\* A row that changes is retired or dated by its use, and keeps its lifetime; a
\* row that is inserted is an Agent's, or the operator's latest.
Settled(j) ==
    \/ row'[j] = row[j]
    \/ /\ row[j] # NoRow /\ row'[j] # NoRow /\ (row'[j].revoked # Null \/ DatedByUse(row'[j]))
       /\ row'[j].created = row[j].created /\ row'[j].expires = row[j].expires
    \/ row[j] = NoRow /\ DatedByUse(row'[j]) /\ row'[j].caller \in Agents

\* What a step that delivers no operator credential has to show.
LEMMA ManageStep ==
    ASSUME ManageInv, GoodStep, latest' = latest,
           status'[Operator] = status[Operator],
           \A j \in Creds : Settled(j),
           \A j \in Creds : j \in value' <=> InForce(j)'
    PROVE  ManageInv'
  <1>1. IInv'
    BY GoodStepKeepsTypes, GoodStepKeepsOneLive DEF ManageInv, IInv
  <1>2. LiveDatedByUse'
    <2> SUFFICES ASSUME NEW j \in Creds, row'[j] # NoRow, ~ Retired(j)'
                 PROVE  DatedByUse(row'[j])
      BY DEF LiveDatedByUse, Issued, DatedByUse
    <2>1. CASE row'[j] = row[j]
      BY <2>1 DEF ManageInv, LiveDatedByUse, Issued, Retired
    <2>2. CASE row'[j] # row[j]
      BY <2>2 DEF Settled, Retired
    <2> QED
      BY <2>1, <2>2
  <1>3. OperatorIssued'
    BY DEF ManageInv, OperatorIssued, Issued, Settled
  <1>4. SurvivorsOfRecovery'
    <2> SUFFICES ASSUME NEW j \in Unretired(Operator)' \ {latest}
                 PROVE  \/ row'[j].created > row'[latest].created
                        \/ row'[j].expires <= row'[latest].created
      BY DEF SurvivorsOfRecovery
    <2>1. j \in Creds /\ row'[j] # NoRow /\ row'[j].caller = Operator /\ ~ Retired(j)'
      BY DEF Unretired, Issued
    <2>2. /\ row[j] # NoRow /\ row'[j].created = row[j].created
          /\ row'[j].expires = row[j].expires
      BY <2>1, CredentialConstants DEF Settled
    <2>3. row[j].caller = Operator /\ ~ Retired(j)
      BY <2>1, <2>2 DEF GoodStep, RowStep, Retired
    <2>4. j \in Issued /\ j \in Unretired(Operator)
      BY <2>1, <2>2, <2>3 DEF Unretired, Issued
    <2>5. status[Operator] # "absent"
      BY <2>3, <2>4 DEF ManageInv, IInv, CredentialTypeOK
    <2>6. latest \in Creds /\ row[latest] # NoRow
      BY <2>5 DEF ManageInv, OperatorIssued, Issued
    <2>7. row'[latest].created = row[latest].created
      BY <2>6 DEF Settled
    <2> QED
      BY <2>2, <2>4, <2>7 DEF ManageInv, SurvivorsOfRecovery
  <1> QED
    BY <1>1, <1>2, <1>3, <1>4 DEF ManageInv

\* The columns the repository operations leave in a row.
LEMMA ColumnFacts ==
    ASSUME NEW r \in Rows, NEW t \in Nat, NEW k \in Creds
    PROVE  /\ Touched(r, t).created = r.created /\ Touched(r, t).expires = r.expires
           /\ Touched(r, t) = r \/ t = 0 \/ DatedByUse(Touched(r, t))
           /\ Revoked(r, t).created = r.created /\ Revoked(r, t).expires = r.expires
           /\ Revoked(r, t).revoked = t
           /\ Rotated(r, k, t).created = r.created /\ Rotated(r, k, t).expires = r.expires
           /\ Rotated(r, k, t).revoked = t
  BY DEF Touched, Revoked, Rotated, Rows, DatedByUse

\* A fresh row is dated by its issue.
LEMMA NewRowDated ==
    ASSUME NEW c, NEW t, NEW e, NEW s
    PROVE  DatedByUse(NewRow(c, t, e, s))
  BY DEF DatedByUse, NewRow

\* A use of a token.
LEMMA UseManaged ==
    ASSUME ManageInv, NEW k, NEW t \in Times, Accepts(k, t),
           Timestamps(Touched(row[k], t)),
           row' = [row EXCEPT ![k] = Touched(@, t)],
           UNCHANGED <<status, value, latest>>
    PROVE  ManageInv'
  <1>1. IInv /\ CredentialTypeOK /\ t \in Nat \ {0}
    BY DEF ManageInv, IInv, CredentialTypeOK, Times
  <1>2. k \in Creds /\ row[k] \in Rows /\ row[k] # NoRow /\ ~ Retired(k)
    BY <1>1, AcceptedRows
  <1>3. /\ row'[k] = Touched(row[k], t) /\ \A j \in Creds \ {k} : row'[j] = row[j]
        /\ row'[k] \in Rows /\ row'[k] # NoRow
    BY <1>1, <1>2, TouchedFacts, NoRowIsNoRow DEF CredentialTypeOK
  <1>4. \A j \in Creds : Settled(j)
    BY <1>1, <1>2, <1>3, ColumnFacts DEF Settled
  <1>5. ASSUME NEW j \in Creds
        PROVE  InForce(j)' <=> InForce(j)
    <2>1. row'[k].caller = row[k].caller /\ row'[k].revoked = row[k].revoked /\ row'[k].next = row[k].next
      BY <1>1, <1>2, <1>3, TouchedFacts
    <2> QED
      BY <1>2, <1>3, <2>1 DEF InForce, Issued, Retired
  <1>6. GoodStep
    BY <1>1, UseIsGood
  <1> QED
    BY <1>1, <1>4, <1>5, <1>6, ManageStep DEF ManageInv

\* A revocation by the master.
LEMMA RevokeAsMasterManaged ==
    ASSUME ManageInv, NEW k \in Creds, NEW t \in Times, RevokeAsMaster(k, t)
    PROVE  ManageInv'
  <1>1. IInv /\ CredentialTypeOK /\ t \in Nat \ {0}
    BY DEF ManageInv, IInv, CredentialTypeOK, Times
  <1>2. /\ k \in Issued /\ ~ Retired(k) /\ row' = [row EXCEPT ![k] = Revoked(@, t)]
        /\ value' = value \ {k} /\ UNCHANGED <<status, latest>>
    BY DEF RevokeAsMaster, Revocable, Forget
  <1>3. row[k] \in Rows /\ row[k] # NoRow
    BY <1>1, <1>2, IssuedRows
  <1>4. /\ row'[k] = Revoked(row[k], t) /\ \A j \in Creds \ {k} : row'[j] = row[j]
        /\ row'[k] # NoRow /\ row'[k].revoked # 0
    BY <1>1, <1>2, <1>3, RevokedFacts, NoRowIsNoRow DEF CredentialTypeOK
  <1>5. \A j \in Creds : Settled(j)
    BY <1>1, <1>3, <1>4, ColumnFacts DEF Settled
  <1>6. ASSUME NEW j \in Creds
        PROVE  j \in value' <=> InForce(j)'
    BY <1>2, <1>4 DEF ManageInv, InForce, Issued, Retired
  <1>7. GoodStep
    BY <1>1, RevokeAsMasterIsGood
  <1> QED
    BY <1>1, <1>2, <1>5, <1>6, <1>7, ManageStep

\* A revocation by the operator's token, which is used at the same time.
LEMMA RevokeAgentCredentialManaged ==
    ASSUME ManageInv, NEW o \in Creds, NEW k \in Creds, NEW t \in Times,
           RevokeAgentCredential(o, k, t)
    PROVE  ManageInv'
  <1>1. /\ IInv /\ CredentialTypeOK /\ row \in [Creds -> Rows \cup {NoRow}]
        /\ t \in Nat \ {0}
    BY DEF ManageInv, IInv, CredentialTypeOK, Times
  <1>2. /\ Accepts(o, t) /\ row[o].caller = Operator /\ row[k].caller \in Agents
        /\ k \in Issued /\ row' = [row EXCEPT ![o] = Touched(@, t), ![k] = Revoked(@, t)]
        /\ value' = value \ {k} /\ UNCHANGED <<status, latest>>
    BY DEF RevokeAgentCredential, IsOperator, Revocable, Forget
  <1>3. row[o] \in Rows /\ row[o] # NoRow /\ row[k] \in Rows /\ row[k] # NoRow /\ o # k
    BY <1>1, <1>2, AcceptedRows, IssuedRows, CredentialConstants
  <1>4. /\ row'[o] = Touched(row[o], t) /\ row'[k] = Revoked(row[k], t)
        /\ \A j \in Creds \ {o, k} : row'[j] = row[j]
    BY <1>1, <1>2, <1>3
  <1>5. /\ row'[k] # NoRow /\ row'[k].revoked # 0
        /\ row'[o] # NoRow /\ row'[o].caller = Operator
    BY <1>1, <1>2, <1>3, <1>4, RevokedFacts, TouchedFacts, NoRowIsNoRow
  <1>6. ASSUME NEW j \in Creds
        PROVE  Settled(j)
    <2>1. Settled(o)
      BY <1>1, <1>3, <1>4, <1>5, ColumnFacts DEF Settled
    <2>2. Settled(k)
      BY <1>1, <1>3, <1>4, <1>5, ColumnFacts DEF Settled
    <2>3. CASE j # o /\ j # k
      BY <1>4, <2>3 DEF Settled
    <2> QED
      BY <2>1, <2>2, <2>3 DEF Settled
  <1>7. ASSUME NEW j \in Creds
        PROVE  j \in value' <=> InForce(j)'
    <2>1. CASE j = k
      BY <1>2, <1>5, <2>1 DEF InForce, Retired
    <2>2. CASE j = o
      BY <1>2, <1>3, <1>5, <2>2, CredentialConstants DEF ManageInv, InForce, Issued
    <2>3. CASE j # k /\ j # o
      BY <1>2, <1>4, <2>3 DEF ManageInv, InForce, Issued, Retired
    <2> QED
      BY <2>1, <2>2, <2>3
  <1>8. GoodStep
    BY <1>1, RevokeAgentCredentialIsGood
  <1> QED
    BY <1>1, <1>2, <1>6, <1>7, <1>8, ManageStep

\* A rotation: the value of the successor is stored with the step that drops
\* the value of the credential it replaces.
LEMMA RotateManaged ==
    ASSUME ManageInv, NEW k \in Creds, NEW new \in Creds, NEW t \in Times,
           RotateAsMaster(k, new, t)
    PROVE  ManageInv'
  <1>1. /\ IInv /\ CredentialTypeOK /\ row \in [Creds -> Rows \cup {NoRow}]
        /\ t \in Nat \ {0}
    BY DEF ManageInv, IInv, CredentialTypeOK, Times
  <1>2. /\ Accepts(k, t) /\ row[k].caller \in Agents /\ row[new] = NoRow
        /\ value' = (value \ {k}) \cup {new} /\ UNCHANGED <<status, latest>>
    BY DEF RotateAsMaster, Rotatable, Free
  <1>3. /\ row[k] \in Rows /\ row[k] # NoRow /\ status[row[k].caller] = "enabled"
        /\ row[k].caller \in Callers
    BY <1>1, <1>2, AcceptedRows
  <1>4. PICK e \in Expiries(row[k].caller, t) :
          row' = [row EXCEPT ![k] = Rotated(@, new, t),
                             ![new] = NewRow(row[k].caller, t, e, TRUE)]
    BY DEF RotateAsMaster
  <1>5. /\ row'[k] = Rotated(row[k], new, t) /\ k # new
        /\ row'[new] = NewRow(row[k].caller, t, e, TRUE)
        /\ \A j \in Creds \ {k, new} : row'[j] = row[j]
    BY <1>1, <1>2, <1>3, <1>4
  <1>6. /\ row'[k] # NoRow /\ row'[k].revoked # 0
        /\ row'[new] # NoRow /\ row'[new].caller = row[k].caller
        /\ DatedByUse(row'[new]) /\ row'[new].revoked = 0 /\ row'[new].next = NoCred
    <2>1. Rotated(row[k], new, t) \in Rows /\ Rotated(row[k], new, t).revoked # 0
      BY <1>1, <1>3, RotatedFacts
    <2>2. NewRow(row[k].caller, t, e, TRUE) \in Rows
      BY <1>1, <1>3, NewRowFacts
    <2>3. row'[k] # NoRow /\ row'[new] # NoRow /\ row'[k].revoked # 0
      BY <1>5, <2>1, <2>2, NoRowIsNoRow
    <2> QED
      BY <1>5, <2>3, NewRowDated DEF NewRow
  <1>7. ASSUME NEW j \in Creds
        PROVE  Settled(j)
    <2>1. Settled(k)
      BY <1>1, <1>3, <1>5, <1>6, ColumnFacts DEF Settled
    <2>2. Settled(new)
      BY <1>1, <1>2, <1>6 DEF Settled
    <2>3. j \notin {k, new} => Settled(j)
      BY <1>5 DEF Settled
    <2> QED
      BY <2>1, <2>2, <2>3
  <1>8. ASSUME NEW j \in Creds
        PROVE  j \in value' <=> InForce(j)'
    BY <1>2, <1>3, <1>5, <1>6 DEF ManageInv, InForce, Issued, Retired
  <1>9. GoodStep
    BY <1>1, RotateIsGood
  <1> QED
    BY <1>1, <1>2, <1>7, <1>8, <1>9, ManageStep

\* A provisioning: the Agent had no row, and its first credential is in force.
LEMMA ProvisionManaged ==
    ASSUME ManageInv, GoodStep, NEW a \in Agents, NEW k \in Creds,
           row[k] = NoRow, row'[k] # NoRow, row'[k].caller = a, DatedByUse(row'[k]),
           row'[k].revoked = 0, row'[k].next = NoCred,
           \A j \in Creds \ {k} : Settled(j),
           \A j \in Creds \ {k} :
              \/ row'[j] = row[j]
              \/ row[j] # NoRow /\ row[j].caller = Operator /\ row'[j].caller = Operator,
           status[a] = "absent", status' = [status EXCEPT ![a] = "enabled"],
           value' = value \cup {k}, UNCHANGED latest
    PROVE  ManageInv'
  <1>1. IInv /\ CredentialTypeOK
    BY DEF ManageInv, IInv
  <1>2. /\ status'[a] = "enabled" /\ \A c \in Callers \ {a} : status'[c] = status[c]
        /\ a # Operator /\ a \in Callers
    BY <1>1, CredentialConstants DEF CredentialTypeOK, Callers
  <1>3. \A j \in Creds : row[j] # NoRow => row[j].caller # a /\ row[j].caller \in Callers
    BY <1>1, IssuedRows DEF CredentialTypeOK, Issued
  <1>4. \A j \in Creds : Settled(j)
    BY DEF Settled
  <1>5. ASSUME NEW j \in Creds
        PROVE  j \in value' <=> InForce(j)'
    <2>1. CASE j = k
      BY <1>2, <2>1 DEF InForce, Issued, Retired
    <2>2. CASE j # k /\ row'[j] = row[j]
      BY <1>2, <1>3, <2>2 DEF ManageInv, InForce, Issued, Retired
    <2>3. CASE j # k /\ row[j] # NoRow /\ row[j].caller = Operator /\ row'[j].caller = Operator
      BY <2>3, CredentialConstants DEF ManageInv, InForce, Issued
    <2> QED
      BY <2>1, <2>2, <2>3
  <1>6. status'[Operator] = status[Operator] /\ latest' = latest
    BY <1>2 DEF Callers
  <1> QED
    BY <1>2, <1>4, <1>5, <1>6, ManageStep

\* provision_agent by the operator's token.
LEMMA ProvisionAgentManaged ==
    ASSUME ManageInv, NEW o \in Creds, NEW a \in Agents, NEW k \in Creds, NEW t \in Times,
           ProvisionAgent(o, a, k, t)
    PROVE  ManageInv'
  <1>1. /\ IInv /\ CredentialTypeOK /\ row \in [Creds -> Rows \cup {NoRow}]
        /\ t \in Nat \ {0} /\ a \in Callers
    BY DEF ManageInv, IInv, CredentialTypeOK, Times, Callers
  <1>2. /\ Accepts(o, t) /\ row[o].caller = Operator /\ row[k] = NoRow
        /\ status[a] = "absent" /\ status' = [status EXCEPT ![a] = "enabled"]
        /\ value' = value \cup {k} /\ UNCHANGED latest
    BY DEF ProvisionAgent, IsOperator, Free
  <1>3. row[o] \in Rows /\ row[o] # NoRow /\ o # k
    BY <1>1, <1>2, AcceptedRows
  <1>4. PICK e \in Expiries(a, t) :
          row' = [row EXCEPT ![o] = Touched(@, t), ![k] = NewRow(a, t, e, FALSE)]
    BY DEF ProvisionAgent
  <1>5. /\ row'[o] = Touched(row[o], t) /\ row'[k] = NewRow(a, t, e, FALSE)
        /\ \A j \in Creds \ {o, k} : row'[j] = row[j]
    BY <1>1, <1>3, <1>4
  <1>6. Touched(row[o], t) \in Rows /\ Touched(row[o], t).caller = Operator
    BY <1>1, <1>2, <1>3, TouchedFacts
  <1>7. NewRow(a, t, e, FALSE) \in Rows
    BY <1>1, NewRowFacts
  <1>8. /\ row'[o] # NoRow /\ row'[k] # NoRow /\ row'[k].caller = a /\ DatedByUse(row'[k])
        /\ row'[k].revoked = 0 /\ row'[k].next = NoCred /\ row'[o].caller = Operator
    <2>1. row'[o] # NoRow /\ row'[k] # NoRow /\ row'[o].caller = Operator
      BY <1>5, <1>6, <1>7, NoRowIsNoRow
    <2> QED
      BY <1>5, <2>1, NewRowDated DEF NewRow
  <1>9. Settled(o)
    BY <1>1, <1>3, <1>5, <1>8, ColumnFacts DEF Settled
  <1>10. \A j \in Creds \ {k} : Settled(j)
    BY <1>5, <1>9 DEF Settled
  <1>11. \A j \in Creds \ {k} :
            \/ row'[j] = row[j]
            \/ row[j] # NoRow /\ row[j].caller = Operator /\ row'[j].caller = Operator
    BY <1>2, <1>3, <1>5, <1>8
  <1>12. GoodStep
    BY <1>1, ProvisionAgentIsGood
  <1> QED
    BY <1>2, <1>8, <1>10, <1>11, <1>12, ProvisionManaged

\* provision_agent_in_transaction.
LEMMA ProvisionAsMasterManaged ==
    ASSUME ManageInv, NEW a \in Agents, NEW k \in Creds, NEW t \in Times,
           ProvisionAgentAsMaster(a, k, t)
    PROVE  ManageInv'
  <1>1. /\ IInv /\ row \in [Creds -> Rows \cup {NoRow}] /\ t \in Nat \ {0} /\ a \in Callers
    BY DEF ManageInv, IInv, CredentialTypeOK, Times, Callers
  <1>2. PICK e \in Expiries(a, t) : row' = [row EXCEPT ![k] = NewRow(a, t, e, TRUE)]
    BY DEF ProvisionAgentAsMaster
  <1>3. /\ row[k] = NoRow /\ status[a] = "absent"
        /\ status' = [status EXCEPT ![a] = "enabled"]
        /\ value' = value \cup {k} /\ UNCHANGED latest
    BY DEF ProvisionAgentAsMaster, Free
  <1>4. NewRow(a, t, e, TRUE) \in Rows
    BY <1>1, NewRowFacts
  <1>5. row'[k] = NewRow(a, t, e, TRUE) /\ \A j \in Creds \ {k} : row'[j] = row[j]
    BY <1>1, <1>2
  <1>6. /\ row'[k] # NoRow /\ row'[k].caller = a /\ DatedByUse(row'[k])
        /\ row'[k].revoked = 0 /\ row'[k].next = NoCred
    <2>1. row'[k] # NoRow
      BY <1>4, <1>5, NoRowIsNoRow
    <2> QED
      BY <1>5, <2>1, NewRowDated DEF NewRow
  <1>7. \A j \in Creds \ {k} : Settled(j)
    BY <1>5 DEF Settled
  <1>8. GoodStep
    BY <1>1, ProvisionAsMasterIsGood
  <1> QED
    BY <1>3, <1>5, <1>6, <1>7, <1>8, ProvisionManaged

\* The first operator credential: no operator row was there to survive it.
LEMMA BootstrapManaged ==
    ASSUME ManageInv, NEW k \in Creds, NEW t \in Times, Bootstrap(k, t)
    PROVE  ManageInv'
  <1>1. /\ IInv /\ CredentialTypeOK /\ row \in [Creds -> Rows \cup {NoRow}]
        /\ t \in Nat \ {0} /\ Operator \in Callers
    BY DEF ManageInv, IInv, CredentialTypeOK, Times, Callers
  <1>2. PICK e \in Expiries(Operator, t) :
          row' = [row EXCEPT ![k] = NewRow(Operator, t, e, FALSE)]
    BY DEF Bootstrap
  <1>3. /\ status[Operator] = "absent" /\ row[k] = NoRow
        /\ status' = [status EXCEPT ![Operator] = "enabled"]
        /\ latest' = k /\ UNCHANGED value
    BY DEF Bootstrap, Free
  <1>4. NewRow(Operator, t, e, FALSE) \in Rows
    BY <1>1, NewRowFacts
  <1>5. /\ row'[k] = NewRow(Operator, t, e, FALSE)
        /\ \A j \in Creds \ {k} : row'[j] = row[j]
    BY <1>1, <1>2
  <1>6. row'[k] # NoRow /\ row'[k].caller = Operator /\ DatedByUse(row'[k])
    <2>1. row'[k] # NoRow
      BY <1>4, <1>5, NoRowIsNoRow
    <2> QED
      BY <1>5, <2>1, NewRowDated DEF NewRow
  <1>7. \A c \in Agents : status'[c] = status[c]
    BY <1>1, <1>3, CredentialConstants DEF CredentialTypeOK, Callers
  <1>8. IInv'
    BY <1>1, BootstrapIsGood, GoodStepKeepsTypes, GoodStepKeepsOneLive DEF IInv
  <1>9. LiveDatedByUse'
    BY <1>5, <1>6 DEF ManageInv, LiveDatedByUse, Issued, Retired, DatedByUse
  <1>10. ASSUME NEW j \in Creds
         PROVE  j \in value' <=> InForce(j)'
    <2>1. CASE j = k
      <3>1. k \notin value /\ ~ InForce(k)'
        BY <1>3, <1>6, CredentialConstants DEF ManageInv, InForce, Issued
      <3> QED
        BY <1>3, <2>1, <3>1 DEF InForce, Issued, Retired
    <2>2. CASE j # k
      BY <1>3, <1>5, <1>7, <2>2 DEF ManageInv, InForce, Issued, Retired
    <2> QED
      BY <2>1, <2>2
  <1>11. OperatorIssued'
    BY <1>3, <1>6 DEF OperatorIssued, Issued
  <1>12. Unretired(Operator)' \subseteq {k}
    BY <1>1, <1>3, <1>5 DEF CredentialTypeOK, Unretired, Issued
  <1> QED
    BY <1>3, <1>8, <1>9, <1>10, <1>11, <1>12 DEF ManageInv, SurvivorsOfRecovery

\* A recovery: what it did not retire was not active at its time.
LEMMA RecoverManaged ==
    ASSUME ManageInv, NEW k \in Creds, NEW t \in Times, Recover(k, t)
    PROVE  ManageInv'
  <1>1. /\ IInv /\ CredentialTypeOK /\ row \in [Creds -> Rows \cup {NoRow}]
        /\ t \in Nat \ {0} /\ Operator \in Callers
    BY DEF ManageInv, IInv, CredentialTypeOK, Times, Callers
  <1>2. PICK e \in Expiries(Operator, t) :
          row' = [j \in Creds |-> IF j = k THEN NewRow(Operator, t, e, FALSE)
                                  ELSE IF j \in Prior(t) THEN Revoked(row[j], t)
                                  ELSE row[j]]
    BY DEF Recover
  <1>3. /\ row[k] = NoRow /\ latest' = k /\ UNCHANGED <<status, value>>
    BY DEF Recover, Free
  <1>4. NewRow(Operator, t, e, FALSE) \in Rows
    BY <1>1, NewRowFacts
  <1>5. row'[k] = NewRow(Operator, t, e, FALSE)
    BY <1>2
  <1>6. /\ row'[k] # NoRow /\ row'[k].caller = Operator /\ DatedByUse(row'[k])
        /\ row'[k].created = t
    <2>1. row'[k] # NoRow
      BY <1>4, <1>5, NoRowIsNoRow
    <2> QED
      BY <1>5, <2>1, NewRowDated DEF NewRow
  <1>7. ASSUME NEW j \in Prior(t)
        PROVE  /\ j \in Creds /\ row[j] # NoRow /\ row[j].caller = Operator
               /\ row'[j] # NoRow /\ row'[j].caller = Operator
               /\ row'[j].revoked # 0
    <2>1. j \in Issued /\ row[j].caller = Operator
      BY DEF Prior, Unretired
    <2>2. j \in Creds /\ row[j] # NoRow /\ row[j] \in Rows
      BY <1>1, <2>1, IssuedRows
    <2>3. row'[j] = Revoked(row[j], t)
      BY <1>2, <1>3, <2>2
    <2>4. /\ Revoked(row[j], t) \in Rows /\ Revoked(row[j], t).revoked # 0
          /\ Revoked(row[j], t).caller = Operator
      BY <1>1, <2>1, <2>2, RevokedFacts
    <2> QED
      BY <2>1, <2>2, <2>3, <2>4, NoRowIsNoRow
  <1>8. \A j \in Creds \ {k} : j \in Prior(t) \/ row'[j] = row[j]
    BY <1>2
  <1>9. IInv'
    BY <1>1, RecoverIsGood, GoodStepKeepsTypes, GoodStepKeepsOneLive DEF IInv
  <1>10. LiveDatedByUse'
    BY <1>6, <1>7, <1>8 DEF ManageInv, LiveDatedByUse, Issued, Retired, DatedByUse
  <1>11. ASSUME NEW j \in Creds
         PROVE  j \in value' <=> InForce(j)'
    BY <1>3, <1>6, <1>7, <1>8, CredentialConstants DEF ManageInv, InForce, Issued, Retired
  <1>12. OperatorIssued'
    BY <1>3, <1>6 DEF OperatorIssued, Issued
  <1>13. SurvivorsOfRecovery'
    <2> SUFFICES ASSUME NEW j \in Unretired(Operator)' \ {k}
                 PROVE  row'[j].created > row'[k].created \/ row'[j].expires <= row'[k].created
      BY <1>3 DEF SurvivorsOfRecovery
    <2>1. j \in Creds /\ row'[j] # NoRow /\ row'[j].caller = Operator /\ ~ Retired(j)'
      BY DEF Unretired, Issued
    <2>2. j \notin Prior(t)
      BY <1>7, <2>1 DEF Retired
    <2>3. row'[j] = row[j]
      BY <1>8, <2>1, <2>2
    <2>4. j \in Unretired(Operator) /\ j \in Issued /\ ~ Retired(j)
      BY <2>1, <2>3 DEF Unretired, Issued, Retired
    <2>5. ~ (row[j].created <= t /\ (row[j].expires # 0 => t < row[j].expires))
      BY <2>2, <2>4 DEF Prior, Active
    <2>6. row[j].created \in Nat /\ row[j].expires \in Nat
      BY <1>1, <2>4, IssuedRows DEF Rows
    <2> QED
      BY <1>1, <1>6, <2>3, <2>5, <2>6
  <1> QED
    BY <1>9, <1>10, <1>11, <1>12, <1>13 DEF ManageInv

\* A step that leaves the credential table alone.
LEMMA SameTableManaged ==
    ASSUME ManageInv, row' = row, latest' = latest,
           UNCHANGED vars \/ \E a \in Agents : DisableAsMaster(a)
    PROVE  ManageInv'
  <1>1. IInv /\ CredentialTypeOK
    BY DEF ManageInv, IInv
  <1>2. GoodStep
    BY <1>1, NextIsGood DEF CredentialsNext
  <1>3. \A j \in Creds : Settled(j)
    BY DEF Settled
  <1>4. CASE UNCHANGED vars
    <2>1. UNCHANGED <<status, value>>
      BY <1>4 DEF vars
    <2>2. \A j \in Creds : j \in value' <=> InForce(j)'
      BY <2>1 DEF ManageInv, InForce, Issued, Retired
    <2> QED
      BY <1>2, <1>3, <2>1, <2>2, ManageStep
  <1>5. ASSUME NEW a \in Agents, DisableAsMaster(a)
        PROVE  ManageInv'
    <2>1. /\ status'[a] = "disabled" /\ \A c \in Callers \ {a} : status'[c] = status[c]
          /\ value' = {k \in value : row[k].caller # a} /\ a # Operator
      BY <1>1, <1>5, CredentialConstants DEF DisableAsMaster, CredentialTypeOK, Callers
    <2>2. \A j \in Creds : j \in value' <=> InForce(j)'
      BY <2>1 DEF ManageInv, InForce, Issued, Retired, Callers
    <2>3. status'[Operator] = status[Operator]
      BY <2>1 DEF Callers
    <2> QED
      BY <1>2, <1>3, <2>2, <2>3, ManageStep
  <1> QED
    BY <1>4, <1>5

LEMMA ManageInvHolds == CredentialsSpec => []ManageInv
  <1>1. CredentialsInit => ManageInv
    BY DEF CredentialsInit, IInv, CredentialTypeOK, OneLivePerAgent, Issued, Unretired,
       ManageInv, LiveDatedByUse, OperatorIssued, InForce, SurvivorsOfRecovery, Callers
  <1>2. ASSUME ManageInv, [CredentialsNext]_vars
        PROVE  ManageInv'
    <2>1. CASE UNCHANGED vars
      BY <1>2, <2>1, SameTableManaged DEF vars
    <2>2. ASSUME NEW a \in Agents, DisableAsMaster(a)
          PROVE  ManageInv'
      <3>1. row' = row /\ latest' = latest
        BY <2>2 DEF DisableAsMaster
      <3>2. \E b \in Agents : DisableAsMaster(b)
        BY <2>2
      <3> QED
        BY <1>2, <3>1, <3>2, SameTableManaged
    <2>3. ASSUME NEW o \in Creds, NEW k \in Creds, NEW t \in Times, RevokeAgain(o, k, t)
          PROVE  ManageInv'
      BY <1>2, <2>3, UseManaged DEF RevokeAgain, IsOperator
    <2>4. ASSUME NEW k \in Creds, NEW t \in Times, Authenticate(k, t)
          PROVE  ManageInv'
      BY <1>2, <2>4, UseManaged DEF Authenticate, Usable
    <2> QED
      BY <1>2, <2>1, <2>2, <2>3, <2>4, BootstrapManaged, RecoverManaged,
         RevokeAsMasterManaged, RevokeAgentCredentialManaged, ProvisionAgentManaged,
         ProvisionAsMasterManaged, RotateManaged DEF CredentialsNext
  <1> QED
    BY <1>1, <1>2, PTL DEF CredentialsSpec

\* Whatever the clock shows to each handler: the stored token values are
\* exactly those of the credentials in force, and a credential that is not
\* retired can be retired at every time that is not before its row's last
\* write, which is its last use or its issue.
THEOREM CredentialsInForceManageable == CredentialsSpec => []LiveAreManageable
  <1> SUFFICES ASSUME ManageInv
               PROVE  LiveAreManageable
    BY ManageInvHolds, PTL
  <1>1. CredentialTypeOK
    BY DEF ManageInv, IInv
  <1>2. ValuesOfLiveOnly
    <2>1. value \subseteq Creds /\ Issued \subseteq Creds
      BY <1>1 DEF CredentialTypeOK, Issued
    <2> QED
      BY <2>1 DEF ManageInv, ValuesOfLiveOnly, InForce
  <1>3. ASSUME NEW k \in Issued, ~ Retired(k), NEW t \in Times
        PROVE  Timestamps(Revoked(row[k], t)) <=> row[k].updated <= t
    <2>1. /\ row[k] \in Rows /\ Timestamps(row[k]) /\ DatedByUse(row[k])
          /\ t \in Nat /\ t # 0
      BY <1>1, <1>3, IssuedRows DEF CredentialTypeOK, ManageInv, LiveDatedByUse, Times
    <2> QED
      BY <2>1 DEF Timestamps, Revoked, Rows, DatedByUse
  <1> QED
    BY <1>2, <1>3 DEF LiveAreManageable, RetiringWaitsForTheClock

\* After any race of recoveries, revocations and uses, what a recovery leaves
\* unretired had expired by then or is dated later than the recovery.
THEOREM SurvivorsAreExpiredOrLater == CredentialsSpec => []SurvivorsOfRecovery
  BY ManageInvHolds, PTL DEF ManageInv
==============================================================================
