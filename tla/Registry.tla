------------------------------ MODULE Registry ------------------------------
(***************************************************************************)
(* Governance of the on-chain contract (contracts/alert_registry): the      *)
(* admin, the signers with their threshold, and the proposals that write    *)
(* one configuration key.  A transaction that returns an error or panics    *)
(* changes nothing and is no step.                                          *)
(***************************************************************************)
EXTENDS Naturals, Sequences, FiniteSets, Functions

CONSTANTS
  Accounts,
  SignerLists,   \* arguments of set_signers; a Vec may name an account twice
  MaxProposals

VARIABLES
  admin,      \* ADMIN_KEY, NoAdmin before initialize
  signers,    \* DataKey::Signers
  threshold,  \* DataKey::Threshold, 1 by default
  proposals,  \* DataKey::Proposal(id): [approvals, executed]
  config,     \* the proposal that last wrote the key, Direct for update_config
  written,    \* history: per proposal, how often it wrote the key
  quorum      \* history: per executed proposal, the threshold it had to reach

registryVars == << admin, signers, threshold, proposals, config, written, quorum >>
NoAdmin == "none"
Direct == 0

RegistryInit ==
  /\ admin = NoAdmin /\ signers = << >> /\ threshold = 1
  /\ proposals = << >> /\ config = Direct
  /\ written = [id \in 1..MaxProposals |-> 0] /\ quorum = [id \in 1..MaxProposals |-> 0]

Initialize(a) ==
  /\ admin = NoAdmin
  /\ admin' = a
  /\ UNCHANGED << signers, threshold, proposals, config, written, quorum >>

\* What only the admin may call.
SetAdmin(a) ==
  /\ admin # NoAdmin
  /\ admin' = a
  /\ UNCHANGED << signers, threshold, proposals, config, written, quorum >>

SetSigners(list, t) ==
  /\ admin # NoAdmin /\ 0 < t /\ t <= Len(list)
  /\ signers' = list /\ threshold' = t
  /\ UNCHANGED << admin, proposals, config, written, quorum >>

\* update_config, while multisig governance is off: the admin may always call it,
\* so who else holds Role::ConfigManager makes no difference here.
UpdateConfig ==
  /\ admin # NoAdmin /\ threshold = 1
  /\ config' = Direct
  /\ UNCHANGED << admin, signers, threshold, proposals, written, quorum >>

\* save_and_maybe_execute: the approvals are counted against the threshold of now.
SaveAndMaybeExecute(id, approvals) ==
  LET execute == Len(approvals) >= threshold
      p == [approvals |-> approvals, executed |-> execute]
  IN /\ proposals' = (IF id > Len(proposals) THEN Append(proposals, p) ELSE [proposals EXCEPT ![id] = p])
     /\ config' = (IF execute THEN id ELSE config)
     /\ written' = (IF execute THEN [written EXCEPT ![id] = @ + 1] ELSE written)
     /\ quorum' = (IF execute THEN [quorum EXCEPT ![id] = threshold] ELSE quorum)

ProposeConfig(s) ==
  /\ s \in Range(signers) /\ Len(proposals) < MaxProposals
  /\ SaveAndMaybeExecute(Len(proposals) + 1, << s >>)
  /\ UNCHANGED << admin, signers, threshold >>

ApproveProposal_Again(s, id) ==
  /\ s \in Range(signers)
  /\ ~proposals[id].executed
  /\ SaveAndMaybeExecute(id, Append(proposals[id].approvals, s))
  /\ UNCHANGED << admin, signers, threshold >>

ApproveProposal_Executed(s, id) ==
  /\ s \in Range(signers)
  /\ s \notin Range(proposals[id].approvals)
  /\ SaveAndMaybeExecute(id, Append(proposals[id].approvals, s))
  /\ UNCHANGED << admin, signers, threshold >>

\* A signer of this moment; ProposalAlreadyExecuted and AlreadyApproved are errors.
ApproveProposal(s, id) ==
  /\ s \in Range(signers)
  /\ ~proposals[id].executed
  /\ s \notin Range(proposals[id].approvals)
  /\ SaveAndMaybeExecute(id, Append(proposals[id].approvals, s))
  /\ UNCHANGED << admin, signers, threshold >>

RegistryNext ==
  \/ UpdateConfig
  \/ \E a \in Accounts : Initialize(a) \/ SetAdmin(a) \/ ProposeConfig(a)
  \/ \E list \in SignerLists : \E t \in 1..Len(list) : SetSigners(list, t)
  \/ \E a \in Accounts, id \in DOMAIN proposals : ApproveProposal(a, id)

-----------------------------------------------------------------------------
(* Properties.                                                             *)

\* A proposal took effect with as many distinct approvers as the threshold of that
\* moment, though signers and threshold were replaced while it was pending.
ExecutedHadQuorum ==
  \A id \in DOMAIN proposals :
    proposals[id].executed => Cardinality(Range(proposals[id].approvals)) >= quorum[id]

\* A proposal writes the configuration once: late approvals, and a threshold that
\* was lowered or raised afterwards, cannot bring an old value back.
ExecutedOnce == \A id \in DOMAIN proposals : written[id] <= 1
=============================================================================
