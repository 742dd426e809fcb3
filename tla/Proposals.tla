------------------------------ MODULE Proposals ------------------------------
(***************************************************************************)
(* Proposals of a smart account: what createSmartAccountVaultsClient       *)
(* (packages/smart-account-vaults/src/client.ts) prepares, lists, votes on *)
(* and executes, for several members that act at the same time, over the   *)
(* Squads smart-account program.                                           *)
(*                                                                         *)
(* The Settings account and every policy are consensus accounts: each      *)
(* numbers its own transactions.  A transaction's content is who proposed  *)
(* which payment, or which change of the Settings' signers.                *)
(***************************************************************************)
EXTENDS Naturals, FiniteSets

CONSTANTS
  Members,      \* wallets that use the client
  Founders,     \* the members that are signers in the beginning
  Settings,     \* the Settings account
  Policies,     \* policies the account may have; their signers are the Founders
  FirstPolicies,\* those it has in the beginning
  Payments,     \* payments that are proposed
  Requested,    \* changes of the Settings that are proposed
  Thresholds,   \* approvals a transaction may need
  MaxIndex,     \* bound: transactions of one consensus account
  BatchLimit,   \* accounts one getMultipleAccountsInfo call may ask for
  Nil

Consensus == {Settings} \cup Policies
Indexes == 1 .. MaxIndex

SignerChanges ==
  [kind : {"AddSigner", "RemoveSigner", "UpdateSigner"}, member : Members]
PolicyCreations == [kind : {"PolicyCreate"}, policy : Policies \ FirstPolicies]
Changes == SignerChanges \cup PolicyCreations

ASSUME ProposalsAssumption ==
  /\ IsFiniteSet(Members) /\ Founders \subseteq Members
  /\ FirstPolicies \subseteq Policies
  /\ Requested \subseteq Changes /\ Payments \cap Changes = {}
  /\ Settings \notin Policies /\ Nil \notin Members
  /\ Thresholds \subseteq 1 .. Cardinality(Founders)
  /\ MaxIndex \in Nat /\ BatchLimit \in Nat

VARIABLES
  threshold,   \* of the account (no operation of the client changes it)
  signers,     \* of the Settings account
  policies,    \* policies that exist
  index,       \* transactionIndex of each consensus account
  stale,       \* staleTransactionIndex of each consensus account
  proposal,    \* transaction and proposal account at each index
  operation,    \* operation each member has prepared and not seen the end of
  range,       \* indexes a running listProposals is reading, none when idle
  listed       \* what a member's last listProposals showed it

chainVars == <<threshold, signers, policies, index, stale, proposal>>
clientVars == <<operation, range, listed>>
proposalsVars == <<chainVars, clientVars>>

Contents == Payments \cup Requested

NoProposal == [status |-> "none", content |-> Nil,
               approved |-> {}, rejected |-> {}]
NoOperation == [kind |-> "none"]

VotersOf(c) == IF c = Settings THEN signers ELSE Founders

ProposalsInit ==
  /\ threshold \in Thresholds
  /\ signers = Founders /\ policies = FirstPolicies
  /\ index = [c \in Consensus |-> 0] /\ stale = [c \in Consensus |-> 0]
  /\ proposal = [c \in Consensus |-> [i \in Indexes |-> NoProposal]]
  /\ operation = [m \in Members |-> NoOperation]
  /\ range = [m \in Members |-> Nil]
  /\ listed = [m \in Members |-> {}]

-----------------------------------------------------------------------------
(* Preparing and sending.  Every operation reads the consensus account     *)
(* first and is sent later.                                                *)

TransactionIndex(c) == index[c] + 1

\* Mutant: a settings change is always executed synchronously.
AlwaysSync == TRUE

ExecutesSync == threshold <= 1

PreparePayment(m) ==
  \E c \in {Settings} \cup policies, payment \in Payments :
    operation' = [operation EXCEPT ![m] =
      [kind |-> "create", on |-> c, at |-> TransactionIndex(c),
       content |-> payment, votes |-> FALSE, read |-> index[c]]]

\* prepareSettingsChange: create, propose and approve in one transaction, or
\* no proposal at all.
PrepareSettingsChange(m) ==
  \E change \in Requested :
    operation' = [operation EXCEPT ![m] =
      [kind |-> IF ExecutesSync THEN "sync" ELSE "create", on |-> Settings,
       at |-> TransactionIndex(Settings), content |-> change, votes |-> TRUE,
       read |-> index[Settings]]]

PrepareOperation(m) ==
  /\ operation[m] = NoOperation
  /\ PreparePayment(m) \/ PrepareSettingsChange(m)
  /\ UNCHANGED <<chainVars, range, listed>>

Ended(m) == operation' = [operation EXCEPT ![m] = NoOperation]

\* Whether the program accepts a change now, and what it does.  Only changes
\* of the signers make earlier transactions stale.
Applies(change) ==
  CASE change.kind = "AddSigner" -> change.member \notin signers
    [] change.kind = "RemoveSigner" ->
         change.member \in signers /\ Cardinality(signers) > threshold
    [] change.kind = "UpdateSigner" -> change.member \in signers
    [] change.kind = "PolicyCreate" -> change.policy \notin policies

ChangeSettings(change) ==
  IF change \in PolicyCreations
  THEN policies' = policies \cup {change.policy} /\ UNCHANGED <<signers, stale>>
  ELSE /\ signers' = CASE change.kind = "AddSigner" -> signers \cup {change.member}
                       [] change.kind = "RemoveSigner" -> signers \ {change.member}
                       [] change.kind = "UpdateSigner" -> signers
       /\ stale' = [stale EXCEPT ![Settings] = index[Settings]]
       /\ UNCHANGED policies

Creatable(m) ==
  /\ operation[m].at = index[operation[m].on] + 1
  /\ m \in VotersOf(operation[m].on)

Sendable(m) ==
  IF operation[m].kind = "create" THEN Creatable(m)
  ELSE threshold = 1 /\ m \in signers /\ Applies(operation[m].content)

LandCreate(m) ==
  LET op == operation[m] IN
  /\ op.kind = "create" /\ Sendable(m) /\ op.at \in Indexes
  /\ index' = [index EXCEPT ![op.on] = op.at]
  /\ proposal' = [proposal EXCEPT ![op.on][op.at] =
       [status |-> IF op.votes /\ threshold = 1 THEN "approved" ELSE "active",
        content |-> op.content,
        approved |-> IF op.votes THEN {m} ELSE {}, rejected |-> {}]]
  /\ Ended(m) /\ UNCHANGED <<threshold, signers, policies, stale, range, listed>>

LandSync(m) ==
  /\ operation[m].kind = "sync" /\ Sendable(m)
  /\ ChangeSettings(operation[m].content)
  /\ Ended(m) /\ UNCHANGED <<threshold, index, proposal, range, listed>>

\* The program rejects what was prepared for another state of the account;
\* any transaction may expire.
LostOperation(m) ==
  /\ operation[m] # NoOperation
  /\ Ended(m) /\ UNCHANGED <<chainVars, range, listed>>

-----------------------------------------------------------------------------
(* listProposals.                                                          *)

OpenRange(c) == stale[c] + 1 .. index[c]

ListProposals(m) ==
  /\ range[m] = Nil
  /\ range' = [range EXCEPT ![m] =
       [c \in Consensus |-> IF c \in {Settings} \cup policies
                            THEN OpenRange(c) ELSE {}]]
  /\ UNCHANGED <<chainVars, operation, listed>>

\* Mutant: proposals and transactions are joined by their index alone, the
\* policies' transactions taking the place of the root's.
TransactionByIndex(c, i) ==
  IF \E p \in Policies : proposal[p][i] # NoProposal
  THEN proposal[CHOOSE p \in Policies : proposal[p][i] # NoProposal][i].content
  ELSE proposal[c][i].content

\* The transaction joined with a proposal (toConsensusTransactionKey).
TransactionAt(c, i) == proposal[c][i].content

\* The accounts arrive; one consensus account with more of them than a call
\* may ask for fails the whole listing.
ListArrives(m) ==
  /\ range[m] # Nil
  /\ range' = [range EXCEPT ![m] = Nil]
  /\ IF \A c \in Consensus : Cardinality(range[m][c]) <= BatchLimit
     THEN listed' = [listed EXCEPT ![m] =
            UNION {{[on |-> c, at |-> i, shown |-> TransactionAt(c, i)] :
                      i \in range[m][c]} : c \in Consensus}]
     ELSE UNCHANGED listed
  /\ UNCHANGED <<chainVars, operation>>

-----------------------------------------------------------------------------
(* Voting and executing what is listed.  These operations read nothing     *)
(* that can change, so that sending one is a single step.                  *)

At(row) == proposal[row.on][row.at]

MayVote(m, row) ==
  /\ At(row).status = "active" /\ row.at > stale[row.on]
  /\ m \in VotersOf(row.on)
  /\ m \notin At(row).approved \cup At(row).rejected

Approve(m, row) ==
  LET approved == At(row).approved \cup {m} IN
  /\ MayVote(m, row)
  /\ proposal' = [proposal EXCEPT ![row.on][row.at] =
       [At(row) EXCEPT !.approved = approved,
                       !.status = IF Cardinality(approved) >= threshold
                                  THEN "approved" ELSE @]]
  /\ UNCHANGED <<threshold, signers, policies, index, stale, clientVars>>

Reject(m, row) ==
  LET rejected == At(row).rejected \cup {m} IN
  /\ MayVote(m, row)
  /\ proposal' = [proposal EXCEPT ![row.on][row.at] =
       [At(row) EXCEPT !.rejected = rejected,
                       !.status = IF Cardinality(rejected)
                                       > Cardinality(VotersOf(row.on)) - threshold
                                  THEN "rejected" ELSE @]]
  /\ UNCHANGED <<threshold, signers, policies, index, stale, clientVars>>

\* A payment that was approved can be executed for ever, a settings change
\* only until it is stale.
Executable(c, i) ==
  /\ proposal[c][i].status = "approved"
  /\ proposal[c][i].content \in Changes
       => i > stale[c] /\ Applies(proposal[c][i].content)

Execute(m, row) ==
  /\ m \in VotersOf(row.on) /\ Executable(row.on, row.at)
  /\ proposal' = [proposal EXCEPT ![row.on][row.at].status = "executed"]
  /\ IF At(row).content \in Changes
     THEN ChangeSettings(At(row).content)
     ELSE UNCHANGED <<signers, policies, stale>>
  /\ UNCHANGED <<threshold, index, clientVars>>

Send(m) == LandCreate(m) \/ LandSync(m) \/ LostOperation(m)

List(m) == ListProposals(m) \/ ListArrives(m)

Act(m) ==
  \E row \in listed[m] : Approve(m, row) \/ Reject(m, row) \/ Execute(m, row)

ProposalsNext == \E m \in Members : PrepareOperation(m) \/ Send(m) \/ List(m) \/ Act(m)

ProposalsSpec == ProposalsInit /\ [][ProposalsNext]_proposalsVars

-----------------------------------------------------------------------------
Rows == [on : Consensus, at : Indexes, shown : Contents]

ProposalsTypeOK ==
  /\ threshold \in Thresholds
  /\ signers \subseteq Members /\ policies \subseteq Policies
  /\ index \in [Consensus -> 0 .. MaxIndex] /\ stale \in [Consensus -> 0 .. MaxIndex]
  /\ proposal \in [Consensus -> [Indexes ->
       {NoProposal} \cup
       [status : {"active", "approved", "rejected", "executed"}, content : Contents,
        approved : SUBSET Members, rejected : SUBSET Members]]]
  /\ operation \in [Members -> {NoOperation} \cup
       [kind : {"create", "sync"}, on : Consensus, at : 1 .. MaxIndex + 1,
        content : Contents, votes : BOOLEAN, read : 0 .. MaxIndex]]
  /\ range \in [Members -> {Nil} \cup [Consensus -> SUBSET Indexes]]
  /\ listed \in [Members -> SUBSET Rows]

\* What a member prepared from its read of the Settings is accepted unless
\* somebody else moved the account on: a member that acts alone is never
\* refused (transactionIndex, prepareSettingsChange).
PreparedIsSendable ==
  \A m \in Members :
    LET op == operation[m] IN
    op # NoOperation /\ op.read = index[op.on] /\ m \in VotersOf(op.on)
      => \/ Sendable(m)
         \/ op.kind = "sync" /\ ~Applies(op.content)

\* What a member was shown at an index is what its vote there will count
\* for: every consensus account numbers its proposals from 1, and a listing
\* is old when it is used (listProposals, toConsensusTransactionKey).
ListedIsVotedOn ==
  \A m \in Members : \A row \in listed[m] : At(row).content = row.shown

\* listProposals shows, once it arrives, every proposal that can still be
\* executed.
ExecutableIsListed ==
  \A c \in {Settings} \cup policies, i \in Indexes :
    Executable(c, i) => i \in OpenRange(c)
                        /\ Cardinality(OpenRange(c)) <= BatchLimit

\* fetchPolicyOverview skips the scan for policies of an account whose
\* transactionIndex is 0, and loses none by it.
ScansPolicies == index[Settings] > 0

PoliciesAreScanned == policies # {} => ScansPolicies
=============================================================================
