------------------------------ MODULE OrgPolicy ------------------------------
(***************************************************************************)
(* The organization's numbers (src/orgpolicy): one row of three caps,      *)
(* changed by PutOrgPolicy, and one row per member whose public-address    *)
(* cap was set individually, changed by SetPublicAddressCapFor.            *)
(*                                                                         *)
(* PutOrgPolicy reads the row, lays the fields the request carried over    *)
(* it and writes the whole row back, in two statements and no transaction. *)
(* A request that names no field, carries a null or does not decode is     *)
(* refused before the row is read and is not a step.                       *)
(***************************************************************************)
EXTENDS Integers

CONSTANTS
    Handlers,   \* goroutines serving requests
    Members,    \* the ids an individual cap may name
    Exists,     \* external: those of them MemberExists answers for
    Numbers,    \* the integers a request may carry
    Defaults,   \* the compiled defaults, by field
    Unset,      \* a field not carried, a row not there
    MaxWrites,  \* bound: policies written in a behaviour
    MaxRaises   \* bound: individual caps set or cleared in a behaviour

\* The caps of models.Policy, with the floor models.Validate* gives each.
Floor == [address |-> 0, membership |-> 1, freeText |-> 1]
Fields == DOMAIN Floor

ASSUME OrgPolicyAssumption ==
    /\ Numbers \subseteq Int
    /\ Exists \subseteq Members
    /\ Defaults \in [Fields -> Int]
    /\ \A f \in Fields : Defaults[f] >= Floor[f]
    /\ Unset \notin Int /\ Unset \notin [Fields -> Int]
    /\ MaxWrites \in Nat /\ MaxRaises \in Nat

VARIABLES
    policy,     \* the org_policy row, or Unset
    raise,      \* the org_policy_overrides rows, by member
    handler,    \* where each handler is
    sent,       \* what each handler's request carries
    read,       \* the policy each handler read
    base,       \* history: the policies written when it did
    writes,     \* policies written so far
    raises      \* individual caps set or cleared so far

policyVars == <<policy, raise, handler, sent, read, base, writes, raises>>

\* Get: the row, or the compiled defaults where there is none.
Get == IF policy = Unset THEN Defaults ELSE policy

\* models.ValidateCap, ValidateMembershipCap and ValidateFreeTextMaxLengthCap.
Valid(p) == \A f \in Fields : p[f] >= Floor[f]

PolicyInit ==
    /\ policy = Unset
    /\ raise = [m \in Members |-> Unset]
    /\ handler = [c \in Handlers |-> "idle"]
    /\ sent = [c \in Handlers |-> Unset]
    /\ read = [c \in Handlers |-> Defaults]
    /\ base = [c \in Handlers |-> 0]
    /\ writes = 0
    /\ raises = 0
-----------------------------------------------------------------------------
\* The request's fields, a function of the names it carried.
Requests ==
    {in \in [Fields -> Numbers \cup {Unset}] : \E f \in Fields : in[f] # Unset}

\* PutOrgPolicy up to its Get.
PutRead(c, in) ==
    /\ handler[c] = "idle"
    /\ writes < MaxWrites
    /\ sent' = [sent EXCEPT ![c] = in]
    /\ read' = [read EXCEPT ![c] = Get]
    /\ base' = [base EXCEPT ![c] = writes]
    /\ handler' = [handler EXCEPT ![c] = "read"]
    /\ UNCHANGED <<policy, raise, writes, raises>>

\* Mutant: the fields are plain numbers, so an absent one decodes as zero.
OverlayZero(c) ==
    [f \in Fields |-> IF sent[c][f] = Unset THEN 0 ELSE sent[c][f]]

\* The policy read, with the fields the request carried laid over it.
Overlay(c) ==
    [f \in Fields |-> IF sent[c][f] = Unset THEN read[c][f] ELSE sent[c][f]]

\* The handler returns and what it held is gone.
Return(c) ==
    /\ handler' = [handler EXCEPT ![c] = "idle"]
    /\ sent' = [sent EXCEPT ![c] = Unset]
    /\ read' = [read EXCEPT ![c] = Defaults]
    /\ base' = [base EXCEPT ![c] = 0]

\* Set: validate every field, then upsert the whole row in one statement.
PutWrite(c) ==
    /\ handler[c] = "read"
    /\ writes < MaxWrites
    /\ Valid(Overlay(c))
    /\ policy' = Overlay(c)
    /\ writes' = writes + 1
    /\ Return(c)
    /\ UNCHANGED <<raise, raises>>

\* Set refuses the policy with ErrBadCap, or either statement fails, or the
\* process stops: nothing is written.
PutFails(c) ==
    /\ handler[c] = "read"
    /\ Return(c)
    /\ UNCHANGED <<policy, raise, writes, raises>>

\* SetPublicAddressCapFor: n is the cap granted, or Unset to clear it.  It is
\* compared with nothing, not even the organization's number.
SetPublicAddressCapFor(m, n) ==
    /\ m \in Exists
    /\ raises < MaxRaises
    /\ raise' = [raise EXCEPT ![m] = n]
    /\ raises' = raises + 1
    /\ UNCHANGED <<policy, handler, sent, read, base, writes>>

PolicyNext ==
    \/ \E c \in Handlers :
        \/ \E in \in Requests : PutRead(c, in)
        \/ PutWrite(c)
        \/ PutFails(c)
    \/ \E m \in Members, n \in Numbers \cup {Unset} : SetPublicAddressCapFor(m, n)

PolicySpec == PolicyInit /\ [][PolicyNext]_policyVars
-----------------------------------------------------------------------------
\* A put changes a field its request did not carry only where another put was
\* written after it read: "A field the request did not carry keeps its stored
\* value" (PutOrgPolicy) unless two requests overlap.  When they do, the second
\* may put back what the first changed, for the two statements are no
\* transaction and nothing compares what was read with what is there.
LostOnlyInOverlap ==
    [][\A c \in Handlers, f \in Fields :
        handler[c] = "read" /\ writes' # writes /\ handler'[c] = "idle"
        /\ sent[c][f] = Unset /\ base[c] = writes => Get'[f] = Get[f]]_policyVars
=============================================================================
