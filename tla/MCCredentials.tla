---------------------------- MODULE MCCredentials ----------------------------
EXTENDS Credentials, FiniteSets, TLC

\* Two Agents share the table, but only one of them is disabled.
OneDisabled == Cardinality({c \in Callers : status'[c] = "disabled"}) <= 1

MCSpec == CredentialsInit /\ [][CredentialsNext /\ OneDisabled]_vars

Interchangeable == Permutations(Agents) \cup Permutations(Creds)
==============================================================================
