---------------------------- MODULE LedgerProofs ----------------------------
(***************************************************************************)
(* Proofs about the services that keep records and follow streams: the      *)
(* registry contract, exports, the chain of checksums and the daily root,   *)
(* the streams of Horizon and of the command line, the Soroban index, the   *)
(* event watchers and the reminders of the multisig watcher.  A service     *)
(* moves only by its own steps, so each invariant is proved over those.     *)
(***************************************************************************)
EXTENDS MCServices, FiniteSetTheorems, SequenceTheorems, WellFoundedInduction, TLAPS

(***************************************************************************)
(* The registry contract                                                   *)
(***************************************************************************)
LEMMA RegistryMoves == [Next]_vars => Rg!RegistryNext \/ UNCHANGED registryState
  BY DEF Next, Frame, vars

\* Nobody approves twice, so approvals are as many as approvers.
ApproversCounted(list) ==
  IsFiniteSet(Range(list)) /\ Cardinality(Range(list)) = Len(list)

\* A proposal has written once if it was executed, with its quorum, else never.
ProposalInv(id) ==
  /\ ApproversCounted(proposals[id].approvals)
  /\ proposals[id].executed => written[id] = 1 /\ Len(proposals[id].approvals) >= quorum[id]
  /\ ~proposals[id].executed => written[id] = 0

RegistryInv ==
  /\ threshold \in Nat
  /\ proposals \in Seq([approvals : Seq(Accounts), executed : BOOLEAN]) /\ Len(proposals) <= MaxProposals
  /\ written \in [1..MaxProposals -> Nat] /\ DOMAIN quorum = 1..MaxProposals
  /\ \A id \in 1..Len(proposals) : ProposalInv(id)
  /\ \A id \in 1..MaxProposals : id > Len(proposals) => written[id] = 0

LEMMA RegistryFirst == Init => RegistryInv
  BY RegistryOK DEF Init, Rg!RegistryInit, RegistryInv

\* One more approver, who has not approved.
LEMMA OneApproverMore ==
  ASSUME NEW list \in Seq(Accounts), NEW s \in Accounts, ApproversCounted(list), s \notin Range(list)
  PROVE  Append(list, s) \in Seq(Accounts) /\ ApproversCounted(Append(list, s))
<1>1. /\ Append(list, s) \in Seq(Accounts) /\ Len(Append(list, s)) = Len(list) + 1
      /\ \A i \in 1..Len(list) : Append(list, s)[i] = list[i]
      /\ Append(list, s)[Len(list) + 1] = s
  BY AppendProperties
<1>2. \A x : x \in Range(Append(list, s)) <=> x \in Range(list) \/ x = s
  BY <1>1 DEF Range
<1>3. Range(Append(list, s)) = Range(list) \cup {s}
  BY <1>2
<1>4. /\ IsFiniteSet(Range(list) \cup {s})
      /\ Cardinality(Range(list) \cup {s}) = Cardinality(Range(list)) + 1
  BY FS_AddElement DEF ApproversCounted
<1> QED
  BY <1>1, <1>3, <1>4 DEF ApproversCounted

LEMMA FirstApprover ==
  ASSUME NEW s \in Accounts PROVE << s >> \in Seq(Accounts) /\ ApproversCounted(<< s >>)
<1>1. Range(<< s >>) = {s} /\ << s >> \in Seq(Accounts) /\ Len(<< s >>) = 1
  BY DEF Range
<1>2. IsFiniteSet({s}) /\ Cardinality({s}) = 1
  BY FS_Singleton
<1> QED
  BY <1>1, <1>2 DEF ApproversCounted

\* What save_and_maybe_execute leaves for a proposal that has not been executed.
LEMMA SaveKeeps ==
  ASSUME RegistryInv, NEW id \in 1..MaxProposals, id <= Len(proposals) + 1,
         written[id] = 0, NEW approvals \in Seq(Accounts), ApproversCounted(approvals),
         Rg!SaveAndMaybeExecute(id, approvals), threshold' = threshold
  PROVE  RegistryInv'
<1> DEFINE execute == Len(approvals) >= threshold
           p == [approvals |-> approvals, executed |-> execute]
<1>0. /\ threshold \in Nat /\ Len(approvals) \in Nat /\ MaxProposals \in Nat /\ Len(proposals) \in Nat
      /\ Len(proposals) <= MaxProposals
  BY RegistryOK DEF RegistryInv
<1>1. p \in [approvals : Seq(Accounts), executed : BOOLEAN] /\ p.approvals = approvals /\ p.executed = execute
  OBVIOUS
<1>2. /\ proposals' = (IF id > Len(proposals) THEN Append(proposals, p) ELSE [proposals EXCEPT ![id] = p])
      /\ written' = (IF execute THEN [written EXCEPT ![id] = @ + 1] ELSE written)
      /\ quorum' = (IF execute THEN [quorum EXCEPT ![id] = threshold] ELSE quorum)
  BY DEF Rg!SaveAndMaybeExecute
<1> HIDE DEF p
<1>3. /\ proposals' \in Seq([approvals : Seq(Accounts), executed : BOOLEAN])
      /\ Len(proposals') <= MaxProposals /\ proposals'[id] = p
      /\ Len(proposals) <= Len(proposals') /\ id <= Len(proposals')
      /\ \A q \in 1..Len(proposals') : q # id => q \in 1..Len(proposals) /\ proposals'[q] = proposals[q]
  <2>1. CASE id > Len(proposals)
    BY <1>0, <1>1, <1>2, <2>1, AppendProperties DEF RegistryInv
  <2>2. CASE ~(id > Len(proposals))
    BY <1>0, <1>1, <1>2, <2>2 DEF RegistryInv
  <2> QED
    BY <2>1, <2>2
<1>4. /\ written' \in [1..MaxProposals -> Nat] /\ DOMAIN quorum' = 1..MaxProposals
      /\ \A q \in 1..MaxProposals : q # id => written'[q] = written[q] /\ quorum'[q] = quorum[q]
      /\ execute => written'[id] = 1 /\ quorum'[id] = threshold
      /\ ~execute => written'[id] = 0
  BY <1>0, <1>2 DEF RegistryInv
<1>5. ProposalInv(id)'
  BY <1>1, <1>3, <1>4 DEF ProposalInv
<1>6. ASSUME NEW q \in 1..Len(proposals'), q # id PROVE ProposalInv(q)'
  <2>0. q \in 1..Len(proposals)
    BY <1>3, <1>6
  <2>1. q \in 1..Len(proposals) /\ q \in 1..MaxProposals
    BY <1>0, <2>0
  <2> QED
    BY <1>3, <1>4, <1>6, <2>1 DEF ProposalInv, RegistryInv
<1>7. ASSUME NEW q \in 1..MaxProposals, q > Len(proposals') PROVE written'[q] = 0
  <2>0. Len(proposals) \in Nat /\ Len(proposals') \in Nat /\ id \in Nat /\ q \in Nat
    BY <1>0, <1>3
  <2>1. q # id /\ q > Len(proposals)
    BY <2>0, <1>3, <1>7
  <2>2. written'[q] = written[q]
    BY <1>4, <2>1
  <2> QED
    BY <2>1, <2>2 DEF RegistryInv
<1> QED
  BY <1>0, <1>3, <1>4, <1>5, <1>6, <1>7 DEF RegistryInv

LEMMA StoredProposal ==
  ASSUME RegistryInv, NEW id \in 1..Len(proposals)
  PROVE  /\ ProposalInv(id)
         /\ proposals[id] \in [approvals : Seq(Accounts), executed : BOOLEAN]
         /\ proposals[id].approvals \in Seq(Accounts)
<1>1. ProposalInv(id) /\ proposals \in Seq([approvals : Seq(Accounts), executed : BOOLEAN])
  BY DEF RegistryInv
<1>2. proposals[id] \in [approvals : Seq(Accounts), executed : BOOLEAN]
  BY <1>1, ElementOfSeq
<1> QED
  BY <1>1, <1>2

LEMMA RegistryStep == RegistryInv /\ [Next]_vars => RegistryInv'
<1> SUFFICES ASSUME RegistryInv, [Next]_vars PROVE RegistryInv'
  OBVIOUS
<1>0. \A s : Rg!Range(s) = Range(s)
  BY DEF Rg!Range, Range
<1>1. CASE UNCHANGED << proposals, written, quorum >> /\ threshold' \in Nat
  BY <1>1 DEF RegistryInv, ProposalInv
<1>2. CASE UNCHANGED registryState \/ Rg!UpdateConfig
  BY <1>1, <1>2 DEF RegistryInv, registryState, Rg!UpdateConfig
<1>3. ASSUME NEW a \in Accounts, Rg!Initialize(a) \/ Rg!SetAdmin(a) PROVE RegistryInv'
  BY <1>1, <1>3 DEF RegistryInv, Rg!Initialize, Rg!SetAdmin
<1>4. ASSUME NEW list \in SignerLists, NEW t \in 1..Len(list), Rg!SetSigners(list, t) PROVE RegistryInv'
  BY <1>1, <1>4, RegistryOK DEF Rg!SetSigners
<1>5. ASSUME NEW a \in Accounts, Rg!ProposeConfig(a) PROVE RegistryInv'
  <2>1. Len(proposals) + 1 \in 1..MaxProposals /\ written[Len(proposals) + 1] = 0
    BY <1>5, RegistryOK DEF RegistryInv, Rg!ProposeConfig
  <2>2. << a >> \in Seq(Accounts) /\ ApproversCounted(<< a >>)
    BY FirstApprover
  <2>3. Len(proposals) + 1 <= Len(proposals) + 1
    BY DEF RegistryInv
  <2> QED
    BY <1>5, <2>1, <2>2, <2>3, SaveKeeps DEF Rg!ProposeConfig
<1>6. ASSUME NEW a \in Accounts, NEW id \in DOMAIN proposals, Rg!ApproveProposal(a, id) PROVE RegistryInv'
  <2>1. id \in 1..Len(proposals) /\ id \in 1..MaxProposals /\ id <= Len(proposals) + 1
    BY RegistryOK DEF RegistryInv
  <2>2. ProposalInv(id) /\ proposals[id].approvals \in Seq(Accounts)
    BY <2>1, StoredProposal
  <2>3. written[id] = 0
    BY <1>6, <2>2 DEF ProposalInv, Rg!ApproveProposal
  <2>4. /\ Append(proposals[id].approvals, a) \in Seq(Accounts)
        /\ ApproversCounted(Append(proposals[id].approvals, a))
    BY <1>0, <1>6, <2>2, OneApproverMore DEF ProposalInv, Rg!ApproveProposal
  <2> QED
    BY <1>6, <2>1, <2>3, <2>4, SaveKeeps DEF Rg!ApproveProposal
<1> QED
  BY <1>2, <1>3, <1>4, <1>5, <1>6, RegistryMoves DEF Rg!RegistryNext

\* A proposal takes effect once, with as many distinct approvers as the threshold
\* of that moment, for any number of accounts, proposals and changes of signers
\* (save_and_maybe_execute and approve_proposal of the contract).
THEOREM ProposalsAreSafe == Spec => []ProposalsSafe
<1>1. RegistryInv => ProposalsSafe
  <2> SUFFICES ASSUME RegistryInv, NEW id \in DOMAIN proposals
               PROVE  /\ proposals[id].executed => Rg!Cardinality(Rg!Range(proposals[id].approvals)) >= quorum[id]
                      /\ written[id] <= 1
    BY DEF ProposalsSafe, Rg!ExecutedHadQuorum, Rg!ExecutedOnce
  <2>0. id \in 1..Len(proposals)
    BY DEF RegistryInv
  <2>1. ProposalInv(id) /\ proposals[id] \in [approvals : Seq(Accounts), executed : BOOLEAN]
    BY <2>0, StoredProposal
  <2>2. Rg!Cardinality(Rg!Range(proposals[id].approvals)) = Len(proposals[id].approvals)
    BY <2>1 DEF ProposalInv, ApproversCounted, Rg!Cardinality, Cardinality, Rg!Range, Range
  <2>3. written[id] <= 1
    BY <2>1 DEF ProposalInv
  <2> QED
    BY <2>1, <2>2, <2>3 DEF ProposalInv
<1> QED
  BY <1>1, RegistryFirst, RegistryStep, PTL DEF Spec

(***************************************************************************)
(* Exports                                                                 *)
(***************************************************************************)
LEMMA ExportsMove == [Next]_vars => Ex!ExportsNext \/ UNCHANGED exportsState
  BY DEF Next, Frame, vars

Unclaimed == { "none", "counted", "refused", "queued" }
RunStages == { "idle", "generate", "complete", "fail" }

ExportTypes ==
  /\ job \in [Jobs -> Unclaimed \cup { "running", "completed", "failed", "expired" }]
  /\ run \in [Jobs -> [Runners -> RunStages]]
  /\ claims \in [Jobs -> {0, 1}]
  /\ expiring \in Jobs \cup {Ex!NoJob}

\* One runner at most holds a job, which it claimed; it offers a file that is there
\* and finds the row as it left it or failed; a job being expired has no file.
JobInv(j) ==
  /\ job[j] \in Unclaimed => claims[j] = 0
  /\ \A r \in Runners : run[j][r] # "idle" => claims[j] = 1
  /\ \A r, s \in Runners : run[j][r] # "idle" /\ run[j][s] # "idle" => r = s
  /\ \A r \in Runners : run[j][r] \in { "generate", "complete" } => job[j] \in { "running", "failed" }
  /\ j \notin stranded =>
       /\ \A r \in Runners : run[j][r] = "fail" => job[j] \in { "running", "failed" }
       /\ \A r \in Runners : run[j][r] = "complete" => j \in file
       /\ job[j] = "completed" => j \in file \/ j \in overdue
       /\ j \in file => job[j] = "completed" \/ \E r \in Runners : run[j][r] = "complete"
       /\ expiring = j => j \notin file /\ j \in overdue /\ job[j] = "completed"

JobsInv == ExportTypes /\ \A j \in Jobs : JobInv(j)

LEMMA JobsFirst == Init => JobsInv
<1>1. Ex!NoJob \notin Jobs
  BY ExportsOK DEF Ex!NoJob
<1> QED
  BY <1>1 DEF Init, Ex!ExportsInit, JobsInv, ExportTypes, JobInv, Unclaimed, RunStages

\* A runner changes what it does with one job.
LEMMA RunMoves ==
  ASSUME JobsInv, NEW j \in Jobs, NEW r \in Runners, NEW l \in RunStages, Ex!RunGoto(j, r, l)
  PROVE  /\ run' \in [Jobs -> [Runners -> RunStages]]
         /\ run'[j][r] = l
         /\ \A s \in Runners : s # r => run'[j][s] = run[j][s]
         /\ \A k \in Jobs, s \in Runners : k # j => run'[k][s] = run[k][s]
  BY DEF JobsInv, ExportTypes, Ex!RunGoto

\* What a step leaves alone stays in order.
LEMMA OtherJobs ==
  ASSUME JobsInv, NEW k \in Jobs, job'[k] = job[k], \A s \in Runners : run'[k][s] = run[k][s],
         claims'[k] = claims[k], k \in file' <=> k \in file, k \in overdue => k \in overdue',
         k \in stranded => k \in stranded', expiring' = k => expiring = k
  PROVE  JobInv(k)'
  BY DEF JobsInv, JobInv

LEMMA ClaimKeeps ==
  ASSUME JobsInv, NEW j \in Jobs, NEW r \in Runners, Ex!Claim(j, r) PROVE JobsInv'
<1>1. CASE job[j] = "queued"
  <2>0. Ex!RunGoto(j, r, "generate") /\ "generate" \in RunStages
    BY <1>1 DEF Ex!Claim, RunStages
  <2>1. /\ run' \in [Jobs -> [Runners -> RunStages]] /\ run'[j][r] = "generate"
        /\ \A s \in Runners : s # r => run'[j][s] = run[j][s]
        /\ \A k \in Jobs, s \in Runners : k # j => run'[k][s] = run[k][s]
    BY <2>0, RunMoves
  <2>2. JobInv(j) /\ claims[j] = 0 /\ ExportTypes
    BY <1>1 DEF JobsInv, JobInv, Unclaimed
  <2>c. claims' = [claims EXCEPT ![j] = 1]
    BY <1>1, <2>2 DEF Ex!Claim, ExportTypes
  <2>3. /\ ExportTypes' /\ job'[j] = "running" /\ claims'[j] = 1
        /\ \A k \in Jobs : k # j => job'[k] = job[k] /\ claims'[k] = claims[k]
        /\ UNCHANGED << file, overdue, expiring, stranded >>
    BY <1>1, <2>1, <2>2, <2>c DEF Ex!Claim, Ex!Set, ExportTypes, Unclaimed
  <2>4. \A s \in Runners : run[j][s] = "idle"
    BY <2>2 DEF JobInv
  <2>5. JobInv(j)'
    BY <1>1, <2>1, <2>2, <2>3, <2>4 DEF JobInv, Unclaimed
  <2>6. \A k \in Jobs : k # j => JobInv(k)'
    BY <2>1, <2>3, OtherJobs
  <2> QED
    BY <2>3, <2>5, <2>6 DEF JobsInv
<1>2. CASE job[j] # "queued"
  BY <1>2 DEF Ex!Claim, JobsInv, ExportTypes, JobInv
<1> QED
  BY <1>1, <1>2

LEMMA GenerateKeeps ==
  ASSUME JobsInv, NEW j \in Jobs, NEW r \in Runners, Ex!Generate(j, r) PROVE JobsInv'
<1>0. JobInv(j) /\ ExportTypes /\ run[j][r] = "generate" /\ UNCHANGED << job, overdue, expiring, claims, stranded >>
  BY DEF JobsInv, Ex!Generate
<1>1. ASSUME NEW l \in { "complete", "fail" }, Ex!RunGoto(j, r, l),
             l = "complete" => file' = file \cup {j}, l = "fail" => file' = file
      PROVE  JobsInv'
  <2>1. /\ run' \in [Jobs -> [Runners -> RunStages]] /\ run'[j][r] = l
        /\ \A s \in Runners : s # r => run'[j][s] = run[j][s]
        /\ \A k \in Jobs, s \in Runners : k # j => run'[k][s] = run[k][s]
    BY <1>1, RunMoves DEF RunStages
  <2>2. ExportTypes'
    BY <1>0, <2>1 DEF ExportTypes
  <2>3. \A s \in Runners : s # r => run[j][s] = "idle" /\ run'[j][s] = "idle"
    BY <1>0, <2>1 DEF JobInv
  <2>4. JobInv(j)'
    BY <1>0, <1>1, <2>1, <2>3 DEF JobInv, Unclaimed
  <2>5. \A k \in Jobs : k # j => JobInv(k)'
    BY <1>0, <1>1, <2>1, OtherJobs
  <2> QED
    BY <2>2, <2>4, <2>5 DEF JobsInv
<1> QED
  BY <1>1 DEF Ex!Generate

LEMMA CompleteKeeps ==
  ASSUME JobsInv, NEW j \in Jobs, NEW r \in Runners, Ex!Complete(j, r) PROVE JobsInv'
<1>0. JobInv(j) /\ ExportTypes /\ run[j][r] = "complete" /\ UNCHANGED << overdue, expiring, claims >>
  BY DEF JobsInv, Ex!Complete
<1>1. ASSUME NEW l \in { "idle", "fail" }, Ex!RunGoto(j, r, l), Ex!Set(j, "completed") \/ UNCHANGED job,
             \/ l = "idle" /\ Ex!Set(j, "completed") /\ UNCHANGED << file, stranded >>
             \/ l = "fail" /\ file' = file \ {j} /\ UNCHANGED << job, stranded >>
             \/ l = "fail" /\ file' = file \ {j} /\ stranded' = stranded \cup {j}
      PROVE  JobsInv'
  <2>1. /\ run' \in [Jobs -> [Runners -> RunStages]] /\ run'[j][r] = l
        /\ \A s \in Runners : s # r => run'[j][s] = run[j][s]
        /\ \A k \in Jobs, s \in Runners : k # j => run'[k][s] = run[k][s]
    BY <1>1, RunMoves DEF RunStages
  <2>2. /\ ExportTypes' /\ \A k \in Jobs : k # j => job'[k] = job[k]
        /\ Ex!Set(j, "completed") => job'[j] = "completed"
        /\ job'[j] \in { job[j], "completed" }
    BY <1>0, <1>1, <2>1 DEF ExportTypes, Ex!Set
  <2>3. \A s \in Runners : s # r => run[j][s] = "idle" /\ run'[j][s] = "idle"
    BY <1>0, <2>1 DEF JobInv
  <2>4. JobInv(j)'
    BY <1>0, <1>1, <2>1, <2>2, <2>3 DEF JobInv, Unclaimed
  <2>5. \A k \in Jobs : k # j => JobInv(k)'
    BY <1>0, <1>1, <2>1, <2>2, OtherJobs
  <2> QED
    BY <2>2, <2>4, <2>5 DEF JobsInv
<1> QED
  BY <1>1 DEF Ex!Complete

LEMMA RunnerEnds ==
  ASSUME JobsInv, NEW j \in Jobs, NEW r \in Runners, Ex!RecordFailure(j, r) \/ Ex!RunnerDies(j, r)
  PROVE  JobsInv'
<1>0. JobInv(j) /\ ExportTypes /\ UNCHANGED << file, overdue, expiring, claims >> /\ Ex!RunGoto(j, r, "idle")
  BY DEF JobsInv, Ex!RecordFailure, Ex!RunnerDies
<1>1. /\ run' \in [Jobs -> [Runners -> RunStages]] /\ run'[j][r] = "idle"
      /\ \A s \in Runners : s # r => run'[j][s] = run[j][s]
      /\ \A k \in Jobs, s \in Runners : k # j => run'[k][s] = run[k][s]
  BY <1>0, RunMoves DEF RunStages
<1>2. /\ ExportTypes' /\ \A k \in Jobs : k # j => job'[k] = job[k]
      /\ \A k \in Jobs : k # j => (k \in stranded' <=> k \in stranded)
      /\ stranded \subseteq stranded'
  BY <1>0, <1>1 DEF ExportTypes, Ex!Set, Ex!RecordFailure, Ex!RunnerDies
<1>3. run[j][r] # "idle" /\ \A s \in Runners : s # r => run[j][s] = "idle" /\ run'[j][s] = "idle"
  BY <1>0, <1>1 DEF JobInv, Ex!RecordFailure, Ex!RunnerDies
<1>4. JobInv(j)'
  <2>1. CASE Ex!RecordFailure(j, r)
    <3>1. run[j][r] = "fail" /\ stranded' = stranded /\ job'[j] \in { job[j], "failed" }
      BY <1>0, <2>1 DEF Ex!RecordFailure, Ex!Set, ExportTypes
    <3> QED
      BY <1>0, <1>1, <1>3, <3>1 DEF JobInv, Unclaimed
  <2>2. CASE Ex!RunnerDies(j, r)
    <3>1. job' = job /\ (run[j][r] = "complete" => j \in stranded')
      BY <2>2 DEF Ex!RunnerDies
    <3> QED
      BY <1>0, <1>1, <1>2, <1>3, <3>1 DEF JobInv, Unclaimed
  <2> QED
    BY <2>1, <2>2
<1>5. \A k \in Jobs : k # j => JobInv(k)'
  BY <1>0, <1>1, <1>2, OtherJobs
<1> QED
  BY <1>2, <1>4, <1>5 DEF JobsInv

LEMMA CleanupKeeps ==
  ASSUME JobsInv, \/ Ex!MarkExpired \/ Ex!CleanupDies
                  \/ \E j \in Jobs : Ex!Expire(j) \/ Ex!FindExpired(j) \/ Ex!FailStale(j)
  PROVE  JobsInv'
<1>0. Ex!NoJob \notin Jobs /\ ExportTypes
  BY ExportsOK DEF Ex!NoJob, JobsInv
<1>1. CASE Ex!MarkExpired
  <2>1. PICK e \in Jobs : e = expiring
    BY <1>0, <1>1 DEF Ex!MarkExpired, ExportTypes
  <2>2. /\ ExportTypes' /\ JobInv(e) /\ expiring' = Ex!NoJob
        /\ \A k \in Jobs : k # e => job'[k] = job[k]
        /\ job'[e] = (IF job[e] = "completed" THEN "expired" ELSE job[e])
        /\ UNCHANGED << file, overdue, run, claims, stranded >>
    BY <1>0, <1>1, <2>1 DEF Ex!MarkExpired, ExportTypes, JobsInv
  <2>3. JobInv(e)'
    BY <1>0, <2>1, <2>2 DEF JobInv, Unclaimed
  <2>4. \A k \in Jobs : k # e => JobInv(k)'
    BY <1>0, <2>1, <2>2, OtherJobs
  <2> QED
    BY <2>2, <2>3, <2>4 DEF JobsInv
<1>2. CASE Ex!CleanupDies
  BY <1>0, <1>2 DEF Ex!CleanupDies, JobsInv, ExportTypes, JobInv
<1>3. ASSUME NEW j \in Jobs, Ex!Expire(j) PROVE JobsInv'
  BY <1>0, <1>3 DEF Ex!Expire, JobsInv, ExportTypes, JobInv
<1>4. ASSUME NEW j \in Jobs, Ex!FindExpired(j) PROVE JobsInv'
  BY <1>0, <1>4 DEF Ex!FindExpired, JobsInv, ExportTypes, JobInv
<1>5. ASSUME NEW j \in Jobs, Ex!FailStale(j) PROVE JobsInv'
  <2>1. /\ ExportTypes' /\ \A k \in Jobs : k # j => job'[k] = job[k]
        /\ job[j] \in { "queued", "running" } /\ job'[j] = "failed" /\ JobInv(j)
        /\ UNCHANGED << file, overdue, run, expiring, claims, stranded >>
    BY <1>0, <1>5 DEF Ex!FailStale, Ex!Active, Ex!Set, ExportTypes, JobsInv
  <2>2. JobInv(j)'
    BY <2>1 DEF JobInv, Unclaimed
  <2>3. \A k \in Jobs : k # j => JobInv(k)'
    BY <2>1, OtherJobs
  <2> QED
    BY <2>1, <2>2, <2>3 DEF JobsInv
<1> QED
  BY <1>1, <1>2, <1>3, <1>4, <1>5

LEMMA JobsStep == JobsInv /\ [Next]_vars => JobsInv'
<1> SUFFICES ASSUME JobsInv, [Next]_vars PROVE JobsInv'
  OBVIOUS
<1>1. CASE UNCHANGED exportsState
  BY <1>1 DEF exportsState, JobsInv, ExportTypes, JobInv
<1>2. ASSUME NEW j \in Jobs, Ex!CountActive(j) \/ Ex!CreateJob(j) PROVE JobsInv'
  <2>1. /\ ExportTypes' /\ \A k \in Jobs : k # j => job'[k] = job[k]
        /\ job[j] \in Unclaimed /\ job'[j] \in Unclaimed /\ JobInv(j)
        /\ UNCHANGED << file, overdue, run, expiring, claims, stranded >>
    BY <1>2 DEF Ex!CountActive, Ex!CreateJob, Ex!Set, JobsInv, ExportTypes, Unclaimed
  <2>2. JobInv(j)'
    BY <2>1 DEF JobInv, Unclaimed
  <2>3. \A k \in Jobs : k # j => JobInv(k)'
    BY <2>1, OtherJobs
  <2> QED
    BY <2>1, <2>2, <2>3 DEF JobsInv
<1> QED
  BY <1>1, <1>2, ClaimKeeps, GenerateKeeps, CompleteKeeps, RunnerEnds, CleanupKeeps, ExportsMove
     DEF Ex!ExportsNext, Ex!RunStep
\* The jobs that count against the limit, a creation under way included.
Held == { j \in Jobs : job[j] \in { "counted", "queued", "running" } } \ racedJobs
HeldFew == Cardinality(Held) <= MaxActive

LEMMA FewerHeld ==
  ASSUME HeldFew, Held' \subseteq Held PROVE HeldFew'
<1>1. IsFiniteSet(Held) /\ MaxActive \in Nat
  BY ExportsOK, FS_Subset DEF Held
<1>2. IsFiniteSet(Held') /\ Cardinality(Held') <= Cardinality(Held)
  BY <1>1, FS_Subset
<1>3. Cardinality(Held) \in Nat /\ Cardinality(Held') \in Nat
  BY <1>1, <1>2, FS_CardinalityType
<1> QED
  BY <1>1, <1>2, <1>3 DEF HeldFew

LEMMA CountKeepsLimit ==
  ASSUME JobsInv, HeldFew, NEW j \in Jobs, Ex!CountActive(j) PROVE HeldFew'
<1>0. /\ ExportTypes /\ job[j] = "none" /\ \A k \in Jobs : k # j => job'[k] = job[k]
      /\ racedJobs' = racedJobs \cup { i \in Jobs : job[i] = "counted" }
                                \cup { i \in {j} : \E k \in Jobs : job[k] = "counted" }
      /\ job'[j] = (IF Ex!Cardinality(Ex!Active) >= MaxActive THEN "refused" ELSE "counted")
  BY DEF JobsInv, ExportTypes, Ex!CountActive, Ex!Set
<1>1. CASE Ex!Cardinality(Ex!Active) >= MaxActive \/ \E k \in Jobs : job[k] = "counted"
  <2>1. Held' \subseteq Held
    BY <1>0, <1>1 DEF Held
  <2> QED
    BY <2>1, FewerHeld
<1>2. CASE ~(Ex!Cardinality(Ex!Active) >= MaxActive) /\ \A k \in Jobs : job[k] # "counted"
  <2>1. Held' \subseteq Ex!Active \cup {j}
    BY <1>0, <1>2 DEF Held, Ex!Active
  <2>2. IsFiniteSet(Ex!Active) /\ j \notin Ex!Active /\ MaxActive \in Nat
    BY <1>0, ExportsOK, FS_Subset DEF Ex!Active
  <2>3. /\ IsFiniteSet(Ex!Active \cup {j}) /\ Cardinality(Ex!Active) \in Nat
        /\ Cardinality(Ex!Active \cup {j}) = Cardinality(Ex!Active) + 1
    BY <2>2, FS_AddElement, FS_CardinalityType
  <2>4. IsFiniteSet(Held') /\ Cardinality(Held') <= Cardinality(Ex!Active \cup {j})
    BY <2>1, <2>3, FS_Subset
  <2>5. Cardinality(Held') \in Nat
    BY <2>4, FS_CardinalityType
  <2>6. ~(Cardinality(Ex!Active) >= MaxActive)
    BY <1>2 DEF Ex!Cardinality, Cardinality
  <2> QED
    BY <2>2, <2>3, <2>4, <2>5, <2>6 DEF HeldFew
<1> QED
  BY <1>1, <1>2

LEMMA HeldStep == JobsInv /\ HeldFew /\ [Next]_vars => HeldFew'
<1> SUFFICES ASSUME JobsInv, HeldFew, [Next]_vars PROVE HeldFew'
  OBVIOUS
<1>0. ExportTypes
  BY DEF JobsInv
<1>1. CASE UNCHANGED << job, racedJobs >>
  BY <1>1, FewerHeld DEF Held
<1>2. CASE UNCHANGED exportsState \/ Ex!CleanupDies
  BY <1>1, <1>2 DEF exportsState, Ex!CleanupDies
<1>3. ASSUME NEW j \in Jobs, Ex!CreateJob(j) \/ Ex!Expire(j) \/ Ex!FindExpired(j) \/ Ex!FailStale(j)
      PROVE  HeldFew'
  <2>1. Held' \subseteq Held
    BY <1>0, <1>3 DEF Held, Ex!CreateJob, Ex!Expire, Ex!FindExpired, Ex!FailStale, Ex!Set, Ex!Active, ExportTypes
  <2> QED
    BY <2>1, FewerHeld
<1>4. ASSUME NEW j \in Jobs, NEW r \in Runners, Ex!RunStep(j, r) \/ Ex!RunnerDies(j, r) PROVE HeldFew'
  <2>1. Held' \subseteq Held
    BY <1>0, <1>4 DEF Held, Ex!RunStep, Ex!RunnerDies, Ex!Claim, Ex!Generate, Ex!Complete, Ex!RecordFailure,
                      Ex!Set, ExportTypes
  <2> QED
    BY <2>1, FewerHeld
<1>5. CASE Ex!MarkExpired
  <2>1. Held' \subseteq Held
    BY <1>0, <1>5 DEF Held, Ex!MarkExpired, ExportTypes
  <2> QED
    BY <2>1, FewerHeld
<1> QED
  BY <1>2, <1>3, <1>4, <1>5, CountKeepsLimit, ExportsMove DEF Ex!ExportsNext

\* An export is generated once though it is delivered to two runners, an offered
\* download has its file, and the limit of active jobs holds, for any number of
\* jobs and runners (claim, generate and complete of processExportJob, the
\* cleanup pass, and the count of createExport).
THEOREM ExportsAreSafe == Spec => []ExportsSafe
<1>1. JobsInv /\ HeldFew => ExportsSafe
  <2> SUFFICES ASSUME JobsInv, HeldFew PROVE ExportsSafe
    OBVIOUS
  <2>1. Ex!GeneratedOnce
    <3>1. \A j \in Jobs : claims[j] \in {0, 1}
      BY DEF JobsInv, ExportTypes
    <3> QED
      BY <3>1 DEF Ex!GeneratedOnce
  <2>2. Ex!FilesMatchRows
    BY DEF Ex!FilesMatchRows, JobsInv, JobInv
  <2>3. Ex!ActiveLimit
    <3>1. Ex!Active \ racedJobs \subseteq Held
      BY DEF Ex!Active, Held
    <3>2. IsFiniteSet(Held) /\ MaxActive \in Nat
      BY ExportsOK, FS_Subset DEF Held
    <3>3. IsFiniteSet(Ex!Active \ racedJobs) /\ Cardinality(Ex!Active \ racedJobs) <= Cardinality(Held)
      BY <3>1, <3>2, FS_Subset
    <3>4. Cardinality(Ex!Active \ racedJobs) \in Nat /\ Cardinality(Held) \in Nat
      BY <3>2, <3>3, FS_CardinalityType
    <3>5. Cardinality(Ex!Active \ racedJobs) <= MaxActive
      BY <3>2, <3>3, <3>4 DEF HeldFew
    <3> QED
      BY <3>5 DEF Ex!ActiveLimit, Ex!Cardinality, Cardinality
  <2> QED
    BY <2>1, <2>2, <2>3 DEF ExportsSafe
<1>2. Init => HeldFew
  <2> SUFFICES ASSUME Init PROVE HeldFew
    OBVIOUS
  <2>1. Held = {}
    BY DEF Init, Ex!ExportsInit, Held
  <2>2. Cardinality({}) = 0 /\ MaxActive \in Nat
    BY FS_EmptySet, ExportsOK
  <2> QED
    BY <2>1, <2>2 DEF HeldFew
<1> QED
  BY <1>1, <1>2, JobsFirst, JobsStep, HeldStep, PTL DEF Spec

(***************************************************************************)
(* The chain of checksums                                                  *)
(***************************************************************************)
LEMMA ChainMoves == [Next]_vars => Ch!ChainNext \/ UNCHANGED chainState
  BY DEF Next, Frame, vars

Paid == { PaymentOf[a] : a \in Appenders }
ChainRow == [payment : Paid, previousHash : Seq(Paid), chainHash : Seq(Paid)]

ChainTypes ==
  /\ chain \in Seq(ChainRow)
  /\ appender \in [Appenders -> { "idle", "append", "again", "done", "null", "failed", "killed" }]
  /\ tail \in [Appenders -> Nat]
  /\ attempt \in [Appenders -> Nat]
  /\ beganAt \in [Appenders -> Nat]

\* Every attempt but the last was overtaken by a row of its own, since the call
\* began; the hash a call returned is in the table.
Overtaken(a) ==
  /\ appender[a] = "idle" => attempt[a] = 0
  /\ appender[a] = "append" => beganAt[a] + attempt[a] <= tail[a] + 1 /\ tail[a] <= Len(chain)
  /\ appender[a] = "again" => beganAt[a] + attempt[a] <= Len(chain)
  /\ appender[a] = "null" => beganAt[a] + MaxAttempts <= Len(chain)
  /\ appender[a] = "done" => Ch!HasRow(PaymentOf[a])

ChainInv == ChainTypes /\ Ch!ChainNeverForks /\ \A a \in Appenders : Overtaken(a)

LEMMA ChainFirst == Init => ChainInv
<1> SUFFICES ASSUME Init PROVE ChainInv
  OBVIOUS
<1>1. /\ chain = << >> /\ appender = [a \in Appenders |-> "idle"]
      /\ tail = [a \in Appenders |-> 0] /\ attempt = [a \in Appenders |-> 0]
      /\ beganAt = [a \in Appenders |-> 0]
  BY DEF Init, Ch!ChainInit
<1>2. ChainTypes
  BY <1>1 DEF ChainTypes
<1>3. Ch!ChainNeverForks
  BY <1>1 DEF Ch!ChainNeverForks, Ch!VerifyChain
<1>4. \A a \in Appenders : Overtaken(a)
  BY <1>1 DEF Overtaken
<1> QED
  BY <1>2, <1>3, <1>4 DEF ChainInv

LEMMA AppendRowKeeps ==
  ASSUME ChainInv, NEW a \in Appenders, Ch!AppendRow(a) PROVE ChainInv'
<1> DEFINE n == Len(chain)
           h == Ch!HashAt(n)
           row == [payment |-> PaymentOf[a], previousHash |-> h, chainHash |-> Append(h, PaymentOf[a])]
<1>0. ChainTypes /\ n \in Nat /\ DOMAIN chain = 1..n /\ PaymentOf[a] \in Paid
  BY DEF ChainInv, ChainTypes, Paid
<1>1. \A i \in 1..n : chain[i] \in ChainRow
  BY <1>0, ElementOfSeq DEF ChainTypes
<1>2. h \in Seq(Paid)
  <2>1. CASE n = 0
    BY <2>1 DEF Ch!HashAt, Ch!GenesisHash
  <2>2. CASE n # 0
    BY <1>0, <1>1, <2>2 DEF Ch!HashAt, ChainRow
  <2> QED
    BY <2>1, <2>2
<1>3. Append(h, PaymentOf[a]) \in Seq(Paid)
  BY <1>0, <1>2, AppendProperties
<1> HIDE DEF h
<1>4. /\ row \in ChainRow /\ row.payment = PaymentOf[a] /\ row.previousHash = h
      /\ row.chainHash = Append(h, PaymentOf[a])
  BY <1>0, <1>2, <1>3 DEF ChainRow
<1>5. chain' = Append(chain, row) /\ \A i \in 1..n : chain[i].payment # PaymentOf[a]
  BY <1>0 DEF Ch!AppendRow, Ch!HasRow, h
<1> HIDE DEF row
<1>6. /\ chain' \in Seq(ChainRow) /\ Len(chain') = n + 1 /\ DOMAIN chain' = 1..(n + 1)
      /\ \A i \in 1..n : chain'[i] = chain[i]
      /\ chain'[n + 1] = row
  BY <1>0, <1>4, <1>5, AppendProperties DEF ChainTypes
<1> HIDE DEF n
<1>7. \A i \in 1..(n + 1) : Ch!HashAt(i - 1)' = Ch!HashAt(i - 1)
  BY <1>0, <1>6 DEF Ch!HashAt
<1>8. Ch!VerifyChain'
  <2> SUFFICES ASSUME NEW i \in 1..(n + 1)
               PROVE  /\ chain'[i].previousHash = Ch!HashAt(i - 1)'
                      /\ chain'[i].chainHash = Append(chain'[i].previousHash, chain'[i].payment)
    BY <1>6 DEF Ch!VerifyChain
  <2>1. CASE i \in 1..n
    BY <1>0, <1>6, <1>7, <2>1 DEF ChainInv, Ch!ChainNeverForks, Ch!VerifyChain
  <2>2. CASE i = n + 1
    BY <1>0, <1>4, <1>6, <1>7, <2>2 DEF h, n
  <2> QED
    BY <1>0, <2>1, <2>2
<1>9. \A i, j \in DOMAIN chain' : chain'[i].payment = chain'[j].payment => i = j
  <2> SUFFICES ASSUME NEW i \in 1..(n + 1), NEW j \in 1..(n + 1), chain'[i].payment = chain'[j].payment
               PROVE  i = j
    BY <1>6
  <2>1. CASE i \in 1..n /\ j \in 1..n
    BY <1>0, <1>6, <2>1 DEF ChainInv, Ch!ChainNeverForks
  <2>2. CASE i = n + 1 /\ j \in 1..n
    BY <1>4, <1>5, <1>6, <2>2
  <2>3. CASE i \in 1..n /\ j = n + 1
    BY <1>4, <1>5, <1>6, <2>3
  <2>4. \A m \in 1..(n + 1) : m \in 1..n \/ m = n + 1
    BY <1>0
  <2> QED
    BY <2>1, <2>2, <2>3, <2>4
<1>10. ChainTypes'
  BY <1>0, <1>6 DEF ChainTypes, Ch!AppendRow
<1>11. ASSUME NEW b \in Appenders PROVE Overtaken(b)'
  <2>1. Overtaken(b) /\ n = Len(chain) /\ Len(chain') = n + 1
    BY <1>6 DEF ChainInv, n
  <2>2. UNCHANGED << tail, attempt, beganAt >> /\ (appender'[b] = appender[b] \/ (appender'[b] = "done" /\ b = a))
    <3>1. UNCHANGED << tail, attempt, beganAt >> /\ appender' = [appender EXCEPT ![a] = "done"]
      BY DEF Ch!AppendRow
    <3>2. DOMAIN appender = Appenders
      BY <1>0 DEF ChainTypes
    <3> QED
      BY <3>1, <3>2
  <2>3. tail[b] \in Nat /\ attempt[b] \in Nat /\ beganAt[b] \in Nat /\ MaxAttempts \in Nat
    BY <1>0, ChainOK DEF ChainTypes
  <2>4. appender'[b] = "done" => Ch!HasRow(PaymentOf[b])'
    <3>1. n + 1 \in DOMAIN chain' /\ chain'[n + 1].payment = PaymentOf[a]
      BY <1>0, <1>4, <1>6
    <3>2. b = a => Ch!HasRow(PaymentOf[b])'
      BY <3>1 DEF Ch!HasRow
    <3>3. Ch!HasRow(PaymentOf[b]) => Ch!HasRow(PaymentOf[b])'
      BY <1>0, <1>6 DEF Ch!HasRow
    <3> QED
      BY <2>1, <2>2, <3>2, <3>3 DEF Overtaken
  <2> QED
    BY <1>0, <2>1, <2>2, <2>3, <2>4 DEF Overtaken
<1> QED
  BY <1>8, <1>9, <1>10, <1>11 DEF ChainInv, Ch!ChainNeverForks

LEMMA ChainStep == ChainInv /\ [Next]_vars => ChainInv'
<1> SUFFICES ASSUME ChainInv, [Next]_vars PROVE ChainInv'
  OBVIOUS
<1>0. ChainTypes /\ Len(chain) \in Nat /\ MaxAttempts \in Nat
  BY ChainOK DEF ChainInv, ChainTypes
<1>1. CASE UNCHANGED chainState
  BY <1>1 DEF chainState, ChainInv, ChainTypes, Overtaken, Ch!ChainNeverForks, Ch!VerifyChain, Ch!HashAt,
             Ch!HasRow
<1>2. ASSUME NEW a \in Appenders,
             Ch!ReadTail(a) \/ Ch!RowExists(a) \/ Ch!SerializationFailure(a)
             \/ Ch!DatabaseError(a) \/ Ch!AppenderDies(a)
      PROVE  ChainInv'
  <2>1. chain' = chain
    BY <1>2 DEF Ch!ReadTail, Ch!RowExists, Ch!SerializationFailure,
          Ch!DatabaseError, Ch!AppenderDies
  <2>2. Ch!ChainNeverForks'
    BY <2>1 DEF ChainInv, Ch!ChainNeverForks, Ch!VerifyChain, Ch!HashAt
  <2>3. ChainTypes'
    <3>1. tail' \in [Appenders -> Nat] /\ attempt' \in [Appenders -> Nat] /\ beganAt' \in [Appenders -> Nat]
      <4>1. CASE UNCHANGED << tail, attempt, beganAt >>
        BY <1>0, <4>1 DEF ChainTypes
      <4>2. CASE Ch!ReadTail(a)
        BY <1>0, <4>2 DEF ChainTypes, Ch!ReadTail
      <4> QED
        BY <1>2, <4>1, <4>2 DEF Ch!RowExists, Ch!SerializationFailure, Ch!DatabaseError, Ch!AppenderDies
    <3>2. appender' \in [Appenders -> { "idle", "append", "again", "done", "null", "failed", "killed" }]
      BY <1>0, <1>2 DEF ChainTypes, Ch!ReadTail, Ch!RowExists, Ch!SerializationFailure,
          Ch!DatabaseError, Ch!AppenderDies
    <3> QED
      BY <1>0, <2>1, <3>1, <3>2 DEF ChainTypes
  <2>4. ASSUME NEW b \in Appenders PROVE Overtaken(b)'
    <3>1. /\ Overtaken(b) /\ tail[b] \in Nat /\ attempt[b] \in Nat /\ beganAt[b] \in Nat
          /\ Ch!HasRow(PaymentOf[b])' = Ch!HasRow(PaymentOf[b])
      BY <1>0, <2>1 DEF ChainInv, ChainTypes, Ch!HasRow
    <3>2. CASE b # a
      BY <1>0, <1>2, <2>1, <3>1, <3>2 DEF Overtaken, ChainTypes, Ch!ReadTail, Ch!RowExists, Ch!SerializationFailure,
          Ch!DatabaseError, Ch!AppenderDies
    <3>3. CASE b = a /\ Ch!ReadTail(a)
      <4>1. /\ appender'[a] = "append" /\ tail'[a] = Len(chain) /\ attempt'[a] = attempt[a] + 1
            /\ beganAt'[a] = (IF appender[a] = "idle" THEN Len(chain) ELSE beganAt[a])
            /\ appender[a] \in { "idle", "again" }
        BY <1>0, <3>3 DEF Ch!ReadTail, ChainTypes
      <4> QED
        BY <1>0, <2>1, <3>1, <3>3, <4>1 DEF Overtaken
    <3>4. CASE b = a /\ (Ch!RowExists(a) \/ Ch!DatabaseError(a) \/ Ch!AppenderDies(a))
      <4>1. \/ appender'[a] \in { "failed", "killed" }
            \/ appender'[a] = "done" /\ Ch!HasRow(PaymentOf[a])
        BY <1>0, <3>4 DEF Ch!RowExists, Ch!DatabaseError, Ch!AppenderDies, ChainTypes
      <4> QED
        BY <3>1, <3>4, <4>1 DEF Overtaken
    <3>5. CASE b = a /\ Ch!SerializationFailure(a)
      <4>1. /\ appender[a] = "append" /\ tail[a] # Len(chain) /\ UNCHANGED << tail, attempt, beganAt >>
            /\ appender'[a] = IF attempt[a] < MaxAttempts THEN "again" ELSE "null"
        BY <1>0, <3>5 DEF Ch!SerializationFailure, ChainTypes
      <4> QED
        BY <1>0, <2>1, <3>1, <3>5, <4>1 DEF Overtaken
    <3> QED
      BY <1>2, <3>2, <3>3, <3>4, <3>5
  <2> QED
    BY <2>2, <2>3, <2>4 DEF ChainInv
<1> QED
  BY <1>1, <1>2, AppendRowKeeps, ChainMoves DEF Ch!ChainNext

\* The chain of checksums never forks, a returned hash is in the table, and an append
\* that no plain database error ended gives up only after as many rows of others, since
\* it began, as it has attempts, for any number of appenders and payments
\* (appendPaymentChecksum and its serializable transaction).
THEOREM ChainIsSafe == Spec => [](Ch!ChainNeverForks /\ Ch!GapNeedsRivals)
<1>1. ChainInv => Ch!ChainNeverForks /\ Ch!GapNeedsRivals
  <2> SUFFICES ASSUME ChainInv PROVE Ch!GapNeedsRivals
    BY DEF ChainInv
  <2>1. Len(chain) \in Nat /\ MaxAttempts \in Nat /\ \A a \in Appenders : beganAt[a] \in Nat
    BY ChainOK DEF ChainInv, ChainTypes
  <2> QED
    BY <2>1 DEF ChainInv, Overtaken, Ch!GapNeedsRivals
<1> QED
  BY <1>1, ChainFirst, ChainStep, PTL DEF Spec

(***************************************************************************)
(* The connections of one wallet's stream                                  *)
(***************************************************************************)
LEMMA ConnectMoves == [Next]_vars => Sc!ConnectNext \/ UNCHANGED connectState
  BY DEF Next, Frame, vars

TimersCounted == timers \in Nat /\ (tracked => timers >= 1)

\* Unless a connect was overtaken, one connect at most is under way, and then
\* nothing is open; what is open is the connection currentClose closes.
OneConnection ==
  ~overlap =>
    /\ \A c, d \in awaiting : c = d
    /\ awaiting # {} => open = {}
    /\ open \subseteq {currentConn}
    /\ streamClosed => awaiting = {}

ConnectInv == TimersCounted /\ OneConnection /\ Sc!NeverStranded

LEMMA ConnectFirst == Init => ConnectInv
  BY DEF Init, Sc!ConnectInit, ConnectInv, TimersCounted, OneConnection, Sc!NeverStranded

LEMMA BeginKeeps ==
  ASSUME OneConnection, NEW n, Sc!BeginConnect(n)
  PROVE  /\ timers' = n /\ OneConnection'
         /\ streamClosed' \/ awaiting' # {}
         /\ streamClosed' = streamClosed
<1>1. CASE streamClosed
  BY <1>1 DEF Sc!BeginConnect, OneConnection
<1>2. CASE ~streamClosed
  <2>1. /\ open' = open \ {currentConn} /\ awaiting' = awaiting \cup {begun + 1} /\ timers' = n
        /\ overlap' = (overlap \/ awaiting # {}) /\ streamClosed' = streamClosed
    BY <1>2 DEF Sc!BeginConnect, Sc!CleanupCurrent
  <2>2. ~overlap' => ~overlap /\ awaiting = {}
    BY <2>1
  <2> QED
    BY <1>2, <2>1, <2>2 DEF OneConnection
<1> QED
  BY <1>1, <1>2

LEMMA RestartKeeps ==
  ASSUME TimersCounted, OneConnection, Sc!RestartStream PROVE ConnectInv'
<1>1. Sc!TimersAfterCleanup \in Nat
  BY DEF TimersCounted, Sc!TimersAfterCleanup
<1>2. timers' = Sc!TimersAfterCleanup + 1 /\ tracked' = TRUE
  BY DEF Sc!RestartStream
<1>3. TimersCounted' /\ Sc!NeverStranded'
  BY <1>1, <1>2 DEF TimersCounted, Sc!NeverStranded
<1>4. OneConnection'
  BY DEF Sc!RestartStream, Sc!CleanupCurrent, OneConnection
<1> QED
  BY <1>3, <1>4 DEF ConnectInv

LEMMA ConnectStep == ConnectInv /\ [Next]_vars => ConnectInv'
<1> SUFFICES ASSUME ConnectInv, [Next]_vars PROVE ConnectInv'
  OBVIOUS
<1>0. /\ TimersCounted /\ OneConnection /\ Sc!NeverStranded /\ timers \in Nat
      /\ Sc!TimersAfterCleanup \in Nat
  BY DEF ConnectInv, TimersCounted, Sc!TimersAfterCleanup
<1>1. CASE UNCHANGED connectState
  BY <1>1 DEF connectState, ConnectInv, TimersCounted, OneConnection, Sc!NeverStranded
<1>2. CASE Sc!HeartbeatFires
  <2>1. /\ timers' = (IF streamClosed THEN timers ELSE Sc!TimersAfterCleanup) /\ OneConnection'
        /\ streamClosed' \/ awaiting' # {}
        /\ streamClosed' = streamClosed
    BY <1>0, <1>2, BeginKeeps DEF Sc!HeartbeatFires
  <2>2. tracked' = (tracked /\ streamClosed)
    BY <1>2 DEF Sc!HeartbeatFires
  <2>3. TimersCounted'
    BY <1>0, <2>1, <2>2 DEF TimersCounted
  <2> QED
    BY <2>1, <2>3 DEF ConnectInv, Sc!NeverStranded
<1>3. CASE Sc!TimerFires
  <2>1. CASE tracked /\ Sc!BeginConnect(timers - 1) /\ tracked' = FALSE
    <3>1. timers' = timers - 1 /\ OneConnection' /\ (streamClosed' \/ awaiting' # {})
      BY <1>0, <2>1, BeginKeeps
    <3>2. TimersCounted'
      BY <1>0, <2>1, <3>1 DEF TimersCounted
    <3> QED
      BY <3>1, <3>2 DEF ConnectInv, Sc!NeverStranded
  <2>2. CASE /\ timers > (IF tracked THEN 1 ELSE 0)
             /\ Sc!BeginConnect(IF streamClosed THEN timers - 1 ELSE Sc!TimersAfterCleanup - 1)
             /\ tracked' = (tracked /\ streamClosed)
    <3>1. /\ timers' = (IF streamClosed THEN timers - 1 ELSE Sc!TimersAfterCleanup - 1) /\ OneConnection'
          /\ streamClosed' \/ awaiting' # {}
      BY <1>0, <2>2, BeginKeeps
    <3>2. TimersCounted'
      <4>1. tracked' => tracked /\ streamClosed
        BY <2>2
      <4>2. timers > (IF tracked THEN 1 ELSE 0)
        BY <2>2
      <4>3. timers - 1 \in Nat /\ (tracked => timers - 1 >= 1)
        BY <1>0, <4>2
      <4>4. Sc!TimersAfterCleanup - 1 \in Nat
        BY <1>0, <4>2 DEF Sc!TimersAfterCleanup
      <4>5. streamClosed => timers' = timers - 1
        BY <3>1
      <4>6. ~streamClosed => timers' = Sc!TimersAfterCleanup - 1
        BY <3>1
      <4> QED
        BY <4>1, <4>3, <4>4, <4>5, <4>6 DEF TimersCounted
    <3> QED
      BY <3>1, <3>2 DEF ConnectInv, Sc!NeverStranded
  <2> QED
    BY <1>3, <2>1, <2>2 DEF Sc!TimerFires
<1>4. ASSUME NEW c \in Sc!Connects, Sc!CursorRead(c) PROVE ConnectInv'
  BY <1>0, <1>4 DEF Sc!CursorRead, ConnectInv, TimersCounted, OneConnection, Sc!NeverStranded
<1>5. ASSUME NEW c \in Sc!Connects, Sc!CursorFails(c) PROVE ConnectInv'
  <2>1. TimersCounted' /\ Sc!NeverStranded'
    BY <1>0, <1>5 DEF Sc!CursorFails, TimersCounted, Sc!NeverStranded
  <2>2. OneConnection'
    BY <1>0, <1>5 DEF Sc!CursorFails, OneConnection
  <2> QED
    BY <2>1, <2>2 DEF ConnectInv
<1>6. ASSUME NEW c \in Sc!Connects, Sc!Message(c) PROVE ConnectInv'
  <2>1. CASE Sc!RestartStream
    BY <1>0, <2>1, RestartKeeps
  <2>2. CASE ~Sc!RestartStream
    BY <1>0, <1>6, <2>2 DEF Sc!Message, ConnectInv, TimersCounted, OneConnection, Sc!NeverStranded
  <2> QED
    BY <2>1, <2>2
<1>7. CASE Sc!TaskEnds
  <2>1. CASE Sc!RestartStream
    BY <1>0, <2>1, RestartKeeps
  <2>2. CASE ~Sc!RestartStream
    BY <1>0, <1>7, <2>2 DEF Sc!TaskEnds, ConnectInv, TimersCounted, OneConnection, Sc!NeverStranded
  <2> QED
    BY <2>1, <2>2
<1>8. CASE Sc!CloseStream
  <2>1. /\ open' = open \ {currentConn} /\ awaiting' = awaiting /\ streamClosed' = TRUE
        /\ overlap' = (overlap \/ awaiting # {}) /\ timers' = Sc!TimersAfterCleanup /\ tracked' = FALSE
    BY <1>8 DEF Sc!CloseStream, Sc!CleanupCurrent
  <2>2. ~overlap' => ~overlap /\ awaiting = {}
    BY <2>1
  <2>3. TimersCounted' /\ Sc!NeverStranded'
    BY <1>0, <2>1 DEF TimersCounted, Sc!NeverStranded
  <2>4. OneConnection'
    BY <1>0, <2>1, <2>2 DEF OneConnection
  <2> QED
    BY <2>3, <2>4 DEF ConnectInv
<1> QED
  BY <1>1, <1>2, <1>3, <1>4, <1>5, <1>6, <1>7, <1>8, ConnectMoves DEF Sc!ConnectNext

(***************************************************************************)
(* The stream of the command line                                          *)
(***************************************************************************)
LEMMA CliMoves == [Next]_vars => Cl!CliNext \/ UNCHANGED cliState
  BY DEF Next, Frame, vars

CliTypes ==
  /\ published \in 0..MaxPublished /\ position \in 0..published
  /\ cliCursor \in 0..published /\ saved \in 0..published
  /\ handled \in [Cl!Published -> Nat]
  /\ seenIds \in Seq(Cl!Published) /\ ran \in Seq(Cl!Published)

Done(i) == handled[i] > 0 \/ i \in skipped

\* What was handled was published, and nothing below it was left out.
NothingLeftOut ==
  /\ \A j \in Cl!Published : handled[j] > 0 => j <= published /\ \A i \in 1..j : Done(i)
  /\ saved # 0 => handled[saved] > 0

\* The ids s are the last ones of r.
EndOf(s, r) ==
  /\ Len(s) = IF Len(r) > DedupWindow THEN DedupWindow ELSE Len(r)
  /\ \A k \in 1..Len(s) : s[k] = r[Len(r) - Len(s) + k]

\* A run remembers its last payments; what was handled lies at or below its cursor,
\* or has a cause to be handled again; and nothing below the cursor was left out.
RunInv ==
  /\ EndOf(seenIds, ran)
  /\ \A k \in 1..Len(ran) : handled[ran[k]] > 0
  /\ cliCursor = 0 => ran = << >>
  /\ cliCursor # 0 => \A k \in Cl!Published : handled[k] > 0 => k <= cliCursor \/ k \in unsaved \cup resent
  /\ \A i \in 1..cliCursor : Done(i)

\* What a connection still sends at or below the cursor is remembered, or all of it
\* was sent again; without a cursor that is all that was handled.
ConnectionInv ==
  /\ \A i \in 1..position : Done(i)
  /\ cliCursor = 0 => \A k \in Cl!Published : handled[k] > 0 => k <= position \/ k \in resent
  /\ cliCursor # 0 =>
       \/ \A k \in (position + 1)..cliCursor : k \in Cl!IdsOf(seenIds)
       \/ \A k \in (position + 1)..cliCursor : k \in resent
  /\ stage = "handled" => position = cliCursor /\ cliCursor # 0 /\ handled[cliCursor] > 0

CliInv ==
  /\ CliTypes /\ NothingLeftOut /\ Cl!TwiceNeedsReplay /\ RunInv
  /\ stage \in { "stream", "handled" } => ConnectionInv

LEMMA CliFirst == Init => CliInv
<1> SUFFICES ASSUME Init PROVE CliInv
  OBVIOUS
<1>0. MaxPublished \in Nat /\ DedupWindow \in Nat \ {0} /\ Cl!CliInit
  BY CliOK DEF Init
<1>1. CliTypes
  BY <1>0 DEF Cl!CliInit, Cl!Published, CliTypes
<1>2. NothingLeftOut /\ Cl!TwiceNeedsReplay
  BY <1>0 DEF Cl!CliInit, Cl!Published, NothingLeftOut, Cl!TwiceNeedsReplay
<1>3. RunInv
  BY <1>0 DEF Cl!CliInit, RunInv, EndOf
<1> QED
  BY <1>0, <1>1, <1>2, <1>3 DEF CliInv, Cl!CliInit

\* RecentIds with one id more are the last ids of the run with one payment more.
LEMMA RememberKeepsEnd ==
  ASSUME NEW S, NEW s \in Seq(S), NEW r \in Seq(S), NEW i \in S, EndOf(s, r)
  PROVE  Cl!Remember(s, i) \in Seq(S) /\ EndOf(Cl!Remember(s, i), Append(r, i))
<1>0. DedupWindow \in Nat \ {0} /\ Len(s) \in Nat /\ Len(r) \in Nat
  BY CliOK
<1>1. /\ Append(s, i) \in Seq(S) /\ Len(Append(s, i)) = Len(s) + 1
      /\ \A k \in 1..Len(s) : Append(s, i)[k] = s[k]
      /\ Append(s, i)[Len(s) + 1] = i
      /\ Append(r, i) \in Seq(S) /\ Len(Append(r, i)) = Len(r) + 1
      /\ \A k \in 1..Len(r) : Append(r, i)[k] = r[k]
      /\ Append(r, i)[Len(r) + 1] = i
  BY AppendProperties
<1> DEFINE a == Append(s, i)
           b == Append(r, i)
<1>2. \A k \in 1..(Len(s) + 1) : a[k] = b[Len(r) - Len(s) + k]
  <2> SUFFICES ASSUME NEW k \in 1..(Len(s) + 1) PROVE a[k] = b[Len(r) - Len(s) + k]
    OBVIOUS
  <2>0. Len(s) <= Len(r)
    BY <1>0 DEF EndOf
  <2>1. CASE k \in 1..Len(s)
    <3>1. Len(r) - Len(s) + k \in 1..Len(r)
      BY <1>0, <2>0, <2>1
    <3>2. s[k] = r[Len(r) - Len(s) + k]
      BY <2>1 DEF EndOf
    <3> QED
      BY <1>1, <2>1, <3>1, <3>2
  <2>2. CASE k = Len(s) + 1
    <3>1. Len(r) - Len(s) + k = Len(r) + 1
      BY <1>0, <2>2
    <3> QED
      BY <1>1, <2>2, <3>1
  <2>3. k \in 1..Len(s) \/ k = Len(s) + 1
    BY <1>0
  <2> QED
    BY <2>1, <2>2, <2>3
<1>3. a \in Seq(S) /\ Len(a) = Len(s) + 1 /\ b \in Seq(S) /\ Len(b) = Len(r) + 1
  BY <1>1
<1> HIDE DEF a, b
<1>4. CASE Len(s) + 1 > DedupWindow
  <2>1. Cl!Remember(s, i) = Tail(a)
    BY <1>4 DEF Cl!Remember, a
  <2>2. Len(s) = DedupWindow /\ Len(r) >= DedupWindow
    BY <1>0, <1>4 DEF EndOf
  <2>3. a # << >>
    BY <1>0, <1>3
  <2>4. Tail(a) \in Seq(S) /\ Len(Tail(a)) = Len(s) /\ \A k \in 1..Len(s) : Tail(a)[k] = a[k + 1]
    BY <1>0, <1>3, <2>3
  <2>5. ASSUME NEW k \in 1..Len(s) PROVE Tail(a)[k] = b[Len(b) - Len(s) + k]
    <3>1. k + 1 \in 1..(Len(s) + 1) /\ Len(r) - Len(s) + (k + 1) = Len(b) - Len(s) + k
      BY <1>0, <1>3
    <3>2. a[k + 1] = b[Len(r) - Len(s) + (k + 1)]
      BY <1>2, <3>1
    <3> QED
      BY <2>4, <3>1, <3>2
  <2>6. Len(Tail(a)) = IF Len(b) > DedupWindow THEN DedupWindow ELSE Len(b)
    BY <1>0, <1>3, <2>2, <2>4
  <2> QED
    BY <2>1, <2>4, <2>5, <2>6 DEF EndOf, b
<1>5. CASE ~(Len(s) + 1 > DedupWindow)
  <2>1. Cl!Remember(s, i) = a
    BY <1>5 DEF Cl!Remember, a
  <2>2. Len(s) = Len(r) /\ ~(Len(r) + 1 > DedupWindow)
    BY <1>0, <1>5 DEF EndOf
  <2>3. ASSUME NEW k \in 1..Len(a) PROVE a[k] = b[Len(b) - Len(a) + k]
    <3>1. k \in 1..(Len(s) + 1) /\ Len(r) - Len(s) + k = Len(b) - Len(a) + k
      BY <1>0, <1>3
    <3> QED
      BY <1>2, <3>1
  <2>4. Len(a) = IF Len(b) > DedupWindow THEN DedupWindow ELSE Len(b)
    BY <1>0, <1>3, <2>2
  <2> QED
    BY <1>3, <2>1, <2>3, <2>4 DEF EndOf, b
<1> QED
  BY <1>4, <1>5

LEMMA RemembersLast ==
  ASSUME CliTypes, EndOf(seenIds, ran) PROVE Cl!LastIds \subseteq Cl!IdsOf(seenIds)
<1>0. /\ DedupWindow \in Nat \ {0} /\ Len(ran) \in Nat /\ Len(seenIds) \in Nat
      /\ ran \in Seq(Cl!Published)
  BY CliOK DEF CliTypes
<1> DEFINE lo == IF Len(ran) > DedupWindow THEN Len(ran) - DedupWindow + 1 ELSE 1
           last == SubSeq(ran, lo, Len(ran))
<1>1. lo \in 1..(Len(ran) + 1) /\ Len(seenIds) = Len(ran) - lo + 1
  BY <1>0 DEF EndOf
<1> HIDE DEF lo
<1>2. Len(last) = Len(ran) - lo + 1 /\ \A k \in 1..Len(last) : last[k] = ran[lo + k - 1]
  BY <1>0, <1>1
<1>3. ASSUME NEW k \in 1..Len(last) PROVE last[k] \in Cl!IdsOf(seenIds)
  <2>1. k \in 1..Len(seenIds) /\ Len(ran) - Len(seenIds) + k = lo + k - 1
    BY <1>0, <1>1, <1>2
  <2>2. seenIds[k] = ran[lo + k - 1]
    BY <2>1 DEF EndOf
  <2> QED
    BY <1>2, <2>1, <2>2 DEF Cl!IdsOf
<1>4. Cl!LastIds = Cl!IdsOf(last)
  BY DEF Cl!LastIds, lo
<1> QED
  BY <1>3, <1>4 DEF Cl!IdsOf

\* What a run remembers was handled.
LEMMA SeenHandled ==
  ASSUME CliTypes, RunInv, NEW i \in Cl!IdsOf(seenIds) PROVE handled[i] > 0
<1>0. DedupWindow \in Nat \ {0} /\ Len(ran) \in Nat /\ Len(seenIds) \in Nat
  BY CliOK DEF CliTypes
<1>1. PICK k \in 1..Len(seenIds) : i = seenIds[k]
  BY DEF Cl!IdsOf
<1>2. Len(ran) - Len(seenIds) + k \in 1..Len(ran)
  BY <1>0, <1>1 DEF RunInv, EndOf
<1>3. i = ran[Len(ran) - Len(seenIds) + k]
  BY <1>1 DEF RunInv, EndOf
<1> QED
  BY <1>2, <1>3 DEF RunInv

LEMMA CliBeginKeeps ==
  ASSUME CliInv, NEW c \in 0..published, NEW ids \in Seq(Cl!Published), NEW store, Cl!Begin(c, ids, store),
         ran' = ids, Len(ids) <= 1, c = 0 => ids = << >>,
         \A k \in 1..Len(ids) : handled[ids[k]] > 0,
         \A i : Done(i) => Done(i)', \A i \in 1..c : Done(i)'
  PROVE  CliInv'
<1>0. CliTypes /\ NothingLeftOut /\ Cl!TwiceNeedsReplay /\ MaxPublished \in Nat /\ DedupWindow \in Nat \ {0}
  BY CliOK DEF CliInv
<1>1. /\ stage' = "connect" /\ cliCursor' = c /\ seenIds' = ids
      /\ unsaved' = (IF c = 0 THEN unsaved ELSE unsaved \cup Cl!Beyond(c))
      /\ UNCHANGED << published, position, saved, handled, resent >>
  BY DEF Cl!Begin
<1>2. CliTypes'
  BY <1>0, <1>1 DEF CliTypes
<1>3. NothingLeftOut'
  BY <1>0, <1>1 DEF NothingLeftOut
<1>4. Cl!TwiceNeedsReplay'
  BY <1>0, <1>1 DEF Cl!TwiceNeedsReplay
<1>5. RunInv'
  <2>1. EndOf(ids, ids)
    <3>1. Len(ids) \in Nat
      OBVIOUS
    <3> QED
      BY <1>0, <3>1 DEF EndOf
  <2>2. ASSUME c # 0, NEW k \in Cl!Published, handled[k] > 0 PROVE k <= c \/ k \in unsaved'
    BY <1>0, <1>1, <2>2 DEF Cl!Beyond, Cl!Published
  <2> QED
    BY <1>1, <2>1, <2>2 DEF RunInv, EndOf
<1> QED
  BY <1>1, <1>2, <1>3, <1>4, <1>5 DEF CliInv

LEMMA CliStartKeeps ==
  ASSUME CliInv, Cl!Start PROVE CliInv'
<1> DEFINE ids == IF saved = 0 THEN << >> ELSE << saved >>
<1>0. CliTypes /\ NothingLeftOut /\ MaxPublished \in Nat
  BY CliOK DEF CliInv
<1>1. saved # 0 => saved \in Cl!Published
  BY <1>0 DEF CliTypes, Cl!Published
<1>2. ids \in Seq(Cl!Published) /\ Len(ids) <= 1 /\ (saved = 0 => ids = << >>) /\ saved \in 0..published
  BY <1>0, <1>1 DEF CliTypes
<1>6. ASSUME NEW k \in 1..Len(ids) PROVE handled[ids[k]] > 0
  <2>1. saved # 0 /\ ids[k] = saved
    OBVIOUS
  <2> QED
    BY <1>0, <2>1 DEF NothingLeftOut
<1>3. Cl!Begin(saved, ids, TRUE) /\ ran' = ids /\ UNCHANGED skipped
  BY DEF Cl!Start
<1>4. \A i : Done(i) => Done(i)'
  BY <1>3 DEF Done, Cl!Begin
<1>5. \A i \in 1..saved : Done(i)'
  BY <1>0, <1>1, <1>4 DEF NothingLeftOut
<1> HIDE DEF ids
<1> QED
  BY <1>2, <1>3, <1>4, <1>5, <1>6, CliBeginKeeps

LEMMA CliStartAtKeeps ==
  ASSUME CliInv, NEW c \in 0..published, NEW store, Cl!StartAt(c, store) PROVE CliInv'
<1>0. CliTypes /\ MaxPublished \in Nat
  BY CliOK DEF CliInv
<1>1. Cl!Begin(c, << >>, store) /\ ran' = << >> /\ skipped' = skipped \cup Cl!Untold(1, c) /\ handled' = handled
  BY DEF Cl!StartAt, Cl!Begin
<1>2. \A i : Done(i) => Done(i)'
  BY <1>1 DEF Done
<1>3. ASSUME NEW i \in 1..c PROVE Done(i)'
  <2>1. handled[i] \in Nat
    BY <1>0 DEF CliTypes, Cl!Published
  <2> QED
    BY <1>1, <2>1 DEF Done, Cl!Untold
<1>4. << >> \in Seq(Cl!Published) /\ Len(<< >>) <= 1 /\ \A k \in 1..Len(<< >>) : handled[<< >>[k]] > 0
  OBVIOUS
<1> QED
  BY <1>1, <1>2, <1>3, <1>4, CliBeginKeeps

LEMMA CliConnectKeeps ==
  ASSUME CliInv, NEW p \in 0..published, Cl!ConnectStream(p) PROVE CliInv'
<1>0. CliTypes /\ NothingLeftOut /\ RunInv /\ Cl!TwiceNeedsReplay /\ MaxPublished \in Nat
  BY CliOK DEF CliInv
<1>1. /\ stage' = "stream" /\ position' = p
      /\ skipped' = skipped \cup Cl!Untold(cliCursor + 1, p)
      /\ resent' = IF Cl!Again(p) \subseteq Cl!LastIds THEN resent ELSE resent \cup Cl!Again(p)
      /\ UNCHANGED << published, cliCursor, seenIds, saved, handled, ran, unsaved >>
  BY DEF Cl!ConnectStream
<1>2. CliTypes'
  BY <1>0, <1>1 DEF CliTypes
<1>3. (\A i : Done(i) => Done(i)') /\ resent \subseteq resent'
  BY <1>1 DEF Done
<1>4. NothingLeftOut' /\ Cl!TwiceNeedsReplay' /\ RunInv'
  <2>1. NothingLeftOut'
    BY <1>0, <1>1, <1>3 DEF NothingLeftOut
  <2>2. Cl!TwiceNeedsReplay'
    BY <1>0, <1>1, <1>3 DEF Cl!TwiceNeedsReplay
  <2>3. EndOf(seenIds, ran)'
    BY <1>0, <1>1 DEF RunInv, EndOf
  <2>4. RunInv'
    BY <1>0, <1>1, <1>3, <2>3 DEF RunInv
  <2> QED
    BY <2>1, <2>2, <2>4
<1>5. ASSUME NEW i \in 1..p PROVE Done(i)'
  <2>1. CASE i <= cliCursor
    <3>1. i \in 1..cliCursor
      BY <1>0, <2>1 DEF CliTypes
    <3> QED
      BY <1>0, <1>3, <3>1 DEF RunInv
  <2>2. CASE ~(i <= cliCursor)
    <3>1. handled[i] \in Nat /\ i \in (cliCursor + 1)..p
      BY <1>0, <2>2 DEF CliTypes, Cl!Published
    <3> QED
      BY <1>1, <3>1 DEF Done, Cl!Untold
  <2> QED
    BY <2>1, <2>2
<1>6. Cl!Again(p) \subseteq Cl!IdsOf(seenIds) \/ Cl!Again(p) \subseteq resent'
  BY <1>0, <1>1, RemembersLast DEF RunInv
<1>7. ConnectionInv'
  <2>1. CASE cliCursor = 0
    <3>1. Cl!Again(p) = (p + 1)..published /\ Len(seenIds) = 0
      BY <1>0, <2>1, CliOK DEF Cl!Again, RunInv, EndOf
    <3>2. Cl!IdsOf(seenIds) = {}
      BY <3>1 DEF Cl!IdsOf
    <3>3. ASSUME NEW k \in Cl!Published, handled[k] > 0 PROVE k <= p \/ k \in resent'
      <4>1. k <= published /\ k \in Nat /\ published \in Nat
        BY <1>0, <3>3 DEF NothingLeftOut, CliTypes, Cl!Published
      <4> QED
        BY <1>6, <3>1, <3>2, <4>1
    <3> QED
      BY <1>1, <1>5, <2>1, <3>3 DEF ConnectionInv
  <2>2. CASE cliCursor # 0
    <3>1. Cl!Again(p) = (p + 1)..cliCursor
      BY <2>2 DEF Cl!Again
    <3>2. Cl!IdsOf(seenIds)' = Cl!IdsOf(seenIds)
      BY <1>1 DEF Cl!IdsOf
    <3> QED
      BY <1>1, <1>5, <1>6, <2>2, <3>1, <3>2 DEF ConnectionInv
  <2> QED
    BY <2>1, <2>2
<1> QED
  BY <1>2, <1>4, <1>7 DEF CliInv

LEMMA CliReceiveKeeps ==
  ASSUME CliInv, Cl!Receive PROVE CliInv'
<1> DEFINE i == position + 1
<1>0. CliTypes /\ NothingLeftOut /\ RunInv /\ ConnectionInv /\ Cl!TwiceNeedsReplay /\ MaxPublished \in Nat
  BY CliOK DEF CliInv, Cl!Receive
<1>1. /\ stage = "stream" /\ position' = i /\ i <= published
      /\ UNCHANGED << published, saved, skipped, unsaved, resent >>
  BY DEF Cl!Receive
<1>2. /\ i \in Cl!Published /\ i \in 1..published /\ position \in Nat /\ published \in Nat
      /\ cliCursor \in Nat /\ i = position + 1 /\ i # 0
  BY <1>0, <1>1 DEF CliTypes, Cl!Published
<1> HIDE DEF i
<1>3. CASE i \in Cl!IdsOf(seenIds) /\ UNCHANGED << stage, cliCursor, seenIds, handled, ran >>
  <2>1. handled[i] > 0 /\ cliCursor # 0
    <3>1. handled[i] > 0
      BY <1>0, <1>3, SeenHandled
    <3>2. ASSUME cliCursor = 0 PROVE FALSE
      <4>1. Len(seenIds) = 0
        BY <1>0, <3>2, CliOK DEF RunInv, EndOf
      <4> QED
        BY <1>3, <4>1 DEF Cl!IdsOf
    <3> QED
      BY <3>1, <3>2
  <2>2. CliTypes' /\ NothingLeftOut' /\ Cl!TwiceNeedsReplay' /\ RunInv'
    <3>1. CliTypes'
      BY <1>0, <1>1, <1>2, <1>3 DEF CliTypes
    <3>2. NothingLeftOut' /\ Cl!TwiceNeedsReplay' /\ RunInv'
      BY <1>0, <1>1, <1>3 DEF NothingLeftOut, Done, Cl!TwiceNeedsReplay, RunInv, EndOf
    <3> QED
      BY <3>1, <3>2
  <2>3. \A k \in 1..i : Done(k)'
    <3> SUFFICES ASSUME NEW k \in 1..i PROVE Done(k)
      BY <1>1, <1>3 DEF Done
    <3>1. k \in 1..position \/ k = i
      BY <1>2
    <3> QED
      BY <1>0, <2>1, <3>1 DEF ConnectionInv, Done
  <2>4. \A k \in (i + 1)..cliCursor : k \in (position + 1)..cliCursor
    BY <1>2
  <2>5. ConnectionInv'
    BY <1>0, <1>1, <1>3, <2>1, <2>3, <2>4 DEF ConnectionInv, Cl!IdsOf
  <2> QED
    BY <2>2, <2>5 DEF CliInv
<1>4. CASE /\ i \notin Cl!IdsOf(seenIds) /\ stage' = "handled"
           /\ handled' = [handled EXCEPT ![i] = @ + 1] /\ ran' = Append(ran, i)
           /\ seenIds' = Cl!Remember(seenIds, i)
           /\ cliCursor' = i
  <2>1. handled \in [Cl!Published -> Nat]
    BY <1>0 DEF CliTypes
  <2>2. /\ handled' \in [Cl!Published -> Nat] /\ handled'[i] = handled[i] + 1
        /\ \A k \in Cl!Published : k # i => handled'[k] = handled[k]
        /\ handled[i] \in Nat
    BY <1>2, <1>4, <2>1
  <2>3. \A k \in Cl!Published : handled[k] > 0 => handled'[k] > 0
    BY <2>1, <2>2
  <2>4. seenIds' \in Seq(Cl!Published) /\ EndOf(seenIds, ran)'
    <3>1. seenIds \in Seq(Cl!Published) /\ ran \in Seq(Cl!Published) /\ EndOf(seenIds, ran)
      BY <1>0 DEF CliTypes, RunInv
    <3>2. Cl!Remember(seenIds, i) \in Seq(Cl!Published) /\ EndOf(Cl!Remember(seenIds, i), Append(ran, i))
      BY <1>2, <3>1, RememberKeepsEnd
    <3> QED
      BY <1>4, <3>2 DEF EndOf
  <2>5. /\ ran' \in Seq(Cl!Published) /\ Len(ran') = Len(ran) + 1 /\ Len(ran) \in Nat
        /\ \A k \in 1..Len(ran) : ran'[k] = ran[k] /\ ran[k] \in Cl!Published
        /\ ran'[Len(ran) + 1] = i
    BY <1>0, <1>2, <1>4, AppendProperties, ElementOfSeq DEF CliTypes
  <2>6. CliTypes'
    BY <1>0, <1>1, <1>2, <1>4, <2>2, <2>4, <2>5 DEF CliTypes
  <2>7. \A k \in Cl!Published : Done(k) => Done(k)'
    BY <1>1, <2>3 DEF Done
  <2>8. \A k \in 1..i : Done(k)'
    <3> SUFFICES ASSUME NEW k \in 1..i PROVE Done(k)'
      OBVIOUS
    <3>1. CASE k = i
      BY <2>2, <3>1 DEF Done
    <3>2. CASE k # i
      <4>1. k \in 1..position /\ k \in Cl!Published
        BY <1>0, <1>2, <3>2 DEF CliTypes, Cl!Published
      <4> QED
        BY <1>0, <2>7, <4>1 DEF ConnectionInv
    <3> QED
      BY <3>1, <3>2
  <2>9. NothingLeftOut'
    <3>1. ASSUME NEW j \in Cl!Published, handled'[j] > 0
          PROVE  j <= published' /\ \A k \in 1..j : Done(k)'
      <4>1. CASE j = i
        BY <1>1, <1>2, <2>8, <4>1
      <4>2. CASE j # i
        <5>1. handled[j] > 0
          BY <2>2, <3>1, <4>2
        <5>2. j <= published /\ \A k \in 1..j : Done(k)
          BY <1>0, <5>1 DEF NothingLeftOut
        <5>3. \A k \in 1..j : k \in Cl!Published
          BY <1>0 DEF Cl!Published
        <5> QED
          BY <1>1, <2>7, <5>2, <5>3
      <4> QED
        BY <4>1, <4>2
    <3>2. saved' # 0 => handled'[saved'] > 0
      <4>1. saved # 0 => saved \in Cl!Published
        BY <1>0 DEF CliTypes, Cl!Published
      <4> QED
        BY <1>0, <1>1, <2>3, <4>1 DEF NothingLeftOut
    <3> QED
      BY <3>1, <3>2 DEF NothingLeftOut
  \* All that was handled above i was sent again, or has another cause.
  <2>10. ASSUME NEW k \in Cl!Published, handled[k] > 0, k >= i PROVE k \in unsaved \cup resent
    <3>0. k \in Nat
      BY DEF Cl!Published
    <3>1. CASE cliCursor = 0
      BY <1>0, <1>2, <2>10, <3>0, <3>1 DEF ConnectionInv
    <3>2. CASE cliCursor # 0 /\ k <= cliCursor
      <4>1. i \in (position + 1)..cliCursor /\ k \in (position + 1)..cliCursor
        BY <1>2, <2>10, <3>0, <3>2
      <4>2. \A m \in (position + 1)..cliCursor : m \in resent
        BY <1>0, <1>4, <3>2, <4>1 DEF ConnectionInv
      <4> QED
        BY <4>1, <4>2
    <3>3. CASE cliCursor # 0 /\ ~(k <= cliCursor)
      BY <1>0, <2>10, <3>3 DEF RunInv
    <3> QED
      BY <3>1, <3>2, <3>3
  <2>11. Cl!TwiceNeedsReplay'
    <3> SUFFICES ASSUME NEW k \in Cl!Published, handled'[k] > 1 PROVE k \in unsaved \cup resent
      BY <1>1 DEF Cl!TwiceNeedsReplay
    <3>1. CASE k = i
      <4>1. handled[i] > 0 /\ i >= i
        BY <1>2, <2>2, <3>1
      <4> QED
        BY <1>2, <2>10, <3>1, <4>1
    <3>2. CASE k # i
      BY <1>0, <2>2, <3>2 DEF Cl!TwiceNeedsReplay
    <3> QED
      BY <3>1, <3>2
  <2>12. RunInv'
    <3>1. ASSUME NEW k \in 1..Len(ran') PROVE handled'[ran'[k]] > 0
      <4>1. CASE k \in 1..Len(ran)
        BY <1>0, <2>3, <2>5, <4>1 DEF RunInv
      <4>2. CASE k = Len(ran) + 1
        BY <2>2, <2>5, <4>2
      <4> QED
        BY <2>5, <4>1, <4>2
    <3>2. ASSUME NEW k \in Cl!Published, handled'[k] > 0 PROVE k <= i \/ k \in unsaved \cup resent
      <4>0. k \in Nat
        BY DEF Cl!Published
      <4>1. CASE k = i
        BY <1>2, <4>1
      <4>2. CASE k # i
        BY <1>2, <2>2, <2>10, <3>2, <4>0, <4>2
      <4> QED
        BY <4>1, <4>2
    <3> QED
      BY <1>1, <1>2, <1>4, <2>4, <2>8, <3>1, <3>2 DEF RunInv
  <2>13. ConnectionInv'
    <3>1. (i + 1)..i = {} /\ handled'[i] > 0
      BY <1>2, <2>2
    <3> QED
      BY <1>1, <1>2, <1>4, <2>8, <3>1 DEF ConnectionInv
  <2> QED
    BY <2>6, <2>9, <2>11, <2>12, <2>13 DEF CliInv
<1> QED
  BY <1>3, <1>4 DEF Cl!Receive, i

LEMMA CliStep == CliInv /\ [Next]_vars => CliInv'
<1> SUFFICES ASSUME CliInv, [Next]_vars PROVE CliInv'
  OBVIOUS
<1>0. CliTypes /\ NothingLeftOut /\ Cl!TwiceNeedsReplay /\ RunInv /\ MaxPublished \in Nat
  BY CliOK DEF CliInv
<1>1. ASSUME UNCHANGED << position, cliCursor, seenIds, ran, handled, skipped, unsaved, resent, saved >>,
             published' \in 0..MaxPublished, published <= published',
             stage' \in { "stream", "handled" } => stage' = stage
      PROVE  CliInv'
  <2>1. NothingLeftOut'
    <3>1. \A j \in Cl!Published : j <= published => j <= published'
      BY <1>0, <1>1 DEF CliTypes, Cl!Published
    <3> QED
      BY <1>0, <1>1, <3>1 DEF NothingLeftOut, Done
  <2>2. Cl!TwiceNeedsReplay' /\ RunInv'
    BY <1>0, <1>1 DEF Cl!TwiceNeedsReplay, RunInv, EndOf, Done
  <2>3. stage' \in { "stream", "handled" } => ConnectionInv'
    BY <1>1 DEF CliInv, ConnectionInv, Done, Cl!IdsOf
  <2>4. CliTypes'
    BY <1>0, <1>1 DEF CliTypes
  <2> QED
    BY <2>1, <2>2, <2>3, <2>4 DEF CliInv
<1>2. CASE UNCHANGED cliState
  <2>1. published <= published' /\ published' \in 0..MaxPublished
    BY <1>0, <1>2 DEF cliState, CliTypes
  <2> QED
    BY <1>1, <1>2, <2>1 DEF cliState
<1>3. CASE Cl!Publish
  <2>1. published <= published' /\ published' \in 0..MaxPublished
    BY <1>0, <1>3 DEF Cl!Publish, CliTypes
  <2> QED
    BY <1>1, <1>3, <2>1 DEF Cl!Publish
<1>4. CASE Cl!StreamFails \/ Cl!BackoffOver
  <2>1. published <= published' /\ published' \in 0..MaxPublished /\ stage' \in { "wait", "connect" }
    BY <1>0, <1>4 DEF Cl!StreamFails, Cl!BackoffOver, CliTypes
  <2> QED
    BY <1>1, <1>4, <2>1 DEF Cl!StreamFails, Cl!BackoffOver
<1>5. CASE Cl!HandlerThrows \/ Cl!GiveUp \/ Cl!Killed
  <2>1. Cl!Ends /\ UNCHANGED saved
    BY <1>5 DEF Cl!HandlerThrows, Cl!GiveUp, Cl!Killed
  <2>2. CliTypes' /\ NothingLeftOut' /\ Cl!TwiceNeedsReplay'
    BY <1>0, <2>1 DEF CliTypes, NothingLeftOut, Done, Cl!TwiceNeedsReplay, Cl!Ends
  <2>3. RunInv'
    BY <2>1, CliOK DEF RunInv, EndOf, Cl!Ends
  <2> QED
    BY <2>1, <2>2, <2>3 DEF CliInv, Cl!Ends
<1>6. CASE Cl!SaveCursor
  <2>1. /\ stage = "handled" /\ stage' = "stream" /\ (saved' = saved \/ saved' = cliCursor)
        /\ UNCHANGED << published, position, cliCursor, seenIds, ran, handled, skipped, unsaved, resent >>
    BY <1>6 DEF Cl!SaveCursor
  <2>2. ConnectionInv
    BY <2>1 DEF CliInv
  <2>3. CliTypes'
    BY <1>0, <2>1 DEF CliTypes
  <2>4. NothingLeftOut'
    BY <1>0, <2>1, <2>2 DEF NothingLeftOut, Done, ConnectionInv
  <2>5. Cl!TwiceNeedsReplay' /\ RunInv'
    BY <1>0, <2>1 DEF Cl!TwiceNeedsReplay, RunInv, EndOf, Done
  <2>6. ConnectionInv'
    BY <2>1, <2>2 DEF ConnectionInv, Done, Cl!IdsOf
  <2> QED
    BY <2>3, <2>4, <2>5, <2>6 DEF CliInv
<1> QED
  BY <1>2, <1>3, <1>4, <1>5, <1>6, CliStartKeeps, CliStartAtKeeps, CliConnectKeeps, CliReceiveKeeps, CliMoves
     DEF Cl!CliNext

LEMMA CliInvSuffices == CliInv => Cl!NoGapBelow /\ Cl!TwiceNeedsReplay
<1> SUFFICES ASSUME CliInv PROVE Cl!NoGapBelow
  BY DEF CliInv
<1> SUFFICES ASSUME NEW i \in Cl!Published, NEW j \in Cl!Published, handled[j] > 0 \/ j = saved, i <= j
             PROVE  handled[i] > 0 \/ i \in skipped
  BY DEF Cl!NoGapBelow
<1>0. MaxPublished \in Nat /\ NothingLeftOut
  BY CliOK DEF CliInv
<1>1. i \in 1..j /\ j # 0
  BY <1>0 DEF Cl!Published
<1> QED
  BY <1>0, <1>1 DEF NothingLeftOut, Done

(***************************************************************************)
(* The vote of several Horizon nodes                                       *)
(***************************************************************************)
LEMMA QuorumMoves == [Next]_vars => Qs!QuorumNext \/ UNCHANGED quorumState
  BY DEF Next, Frame, vars

VoteType == [token : 1..Records, nodes : SUBSET Nodes]
Voter(b, t, n) == \E i \in 1..Len(b) : b[i].token = t /\ n \in b[i].nodes
HandedOn == Range(emissions)

\* A ballot b when the tokens of E were handed on: a token has one entry; below it
\* every token was handed on or has an earlier entry, to which its voters voted.
BallotInv(b, E) ==
  /\ b \in Seq(VoteType)
  /\ \A i, j \in 1..Len(b) : b[i].token = b[j].token => i = j
  /\ \A i \in 1..Len(b) : \A t \in 1..(b[i].token - 1) :
       t \in E \/ \E j \in 1..(i - 1) : b[j].token = t
  /\ \A i \in 1..Len(b) : \A n \in b[i].nodes, t \in 1..(b[i].token - 1) :
       t \in E \/ Voter(b, t, n)

HasEntry(b, token) == \E i \in 1..Len(b) : b[i].token = token
OthersBelow(b, token) ==
  \A i \in 1..Len(b) : b[i].token # token => Cardinality(b[i].nodes) < Qs!QuorumSize
HandedBelow(token) == \A t \in 1..(token - 1) : t \in HandedOn
\* c has the entries of b but that of the token.
RestOf(c, b, token) ==
  /\ \A i \in 1..Len(c) : \E j \in 1..Len(b) : c[i] = b[j] /\ b[j].token # token
  /\ \A i \in 1..Len(b) : b[i].token # token => \E j \in 1..Len(c) : c[j] = b[i]
BelowQuorum(b) == \A i \in 1..Len(b) : Cardinality(b[i].nodes) < Qs!QuorumSize

QuorumTypes ==
  /\ horizonTip \in 0..Records
  /\ feed \in [Nodes -> Seq(0..(Records + 1))]
  /\ remembered \in Seq(1..Records) /\ emissions \in Seq(1..Records)

\* What a stream has delivered was handed on, or its node has voted for it.
DeliveredCounts ==
  ~shut => \A n \in Nodes : \A k \in 1..Len(feed[n]) :
    feed[n][k] # Qs!Broken => \A t \in 1..feed[n][k] : t \in HandedOn \/ Voter(votes, t, n)

QuorumInv ==
  /\ QuorumTypes
  /\ Range(remembered) \subseteq HandedOn
  /\ HandedOn \subseteq Range(remembered) \cup forgotten
  /\ BallotInv(votes, HandedOn) /\ BelowQuorum(votes)
  /\ DeliveredCounts
  /\ Qs!HandedOnce /\ Qs!HandedInOrder

LEMMA QuorumNumbers == Records \in Nat /\ Qs!QuorumSize \in Nat /\ Qs!QuorumSize >= 1
<1>1. Cardinality(Nodes) \in Nat /\ Records \in Nat
  BY QuorumOK, FS_CardinalityType
<1>2. Qs!QuorumSize = Cardinality(Nodes) \div 2 + 1
  BY DEF Qs!QuorumSize, Qs!Cardinality, Cardinality
<1> QED
  BY <1>1, <1>2

LEMMA QuorumFirst == Init => QuorumInv
<1> SUFFICES ASSUME Init PROVE QuorumInv
  OBVIOUS
<1>1. /\ horizonTip = 0 /\ feed = [n \in Nodes |-> << >>]
      /\ votes = << >> /\ remembered = << >> /\ emissions = << >>
  BY DEF Init, Qs!QuorumInit
<1>2. QuorumTypes
  BY <1>1, QuorumNumbers DEF QuorumTypes
<1>3. HandedOn = {} /\ Range(remembered) = {}
  BY <1>1 DEF HandedOn, Range
<1>4. BallotInv(votes, HandedOn) /\ BelowQuorum(votes)
  BY <1>1 DEF BallotInv, BelowQuorum
<1>5. DeliveredCounts
  BY <1>1 DEF DeliveredCounts
<1>6. Qs!HandedOnce /\ Qs!HandedInOrder
  BY <1>1 DEF Qs!HandedOnce, Qs!HandedInOrder
<1> QED
  BY <1>2, <1>3, <1>4, <1>5, <1>6 DEF QuorumInv

LEMMA RemoveAtElements ==
  ASSUME NEW S, NEW s \in Seq(S), NEW p \in 1..Len(s)
  PROVE  /\ Qs!RemoveAt(s, p) \in Seq(S)
         /\ Len(Qs!RemoveAt(s, p)) = Len(s) - 1
         /\ \A i \in 1..(Len(s) - 1) : Qs!RemoveAt(s, p)[i] = s[IF i < p THEN i ELSE i + 1]
<1>0. Len(s) \in Nat /\ p \in Nat /\ p - 1 \in Nat
  OBVIOUS
<1>1. /\ SubSeq(s, 1, p - 1) \in Seq(S) /\ Len(SubSeq(s, 1, p - 1)) = p - 1
      /\ \A i \in 1..(p - 1) : SubSeq(s, 1, p - 1)[i] = s[i]
  BY <1>0, SubSeqProperties
<1>2. /\ SubSeq(s, p + 1, Len(s)) \in Seq(S) /\ Len(SubSeq(s, p + 1, Len(s))) = Len(s) - p
      /\ \A i \in 1..(Len(s) - p) : SubSeq(s, p + 1, Len(s))[i] = s[p + i]
  BY <1>0, SubSeqProperties
<1> DEFINE a == SubSeq(s, 1, p - 1)
           b == SubSeq(s, p + 1, Len(s))
<1>3. Qs!RemoveAt(s, p) = a \o b
  BY DEF Qs!RemoveAt
<1> HIDE DEF a, b
<1>4. a \in Seq(S) /\ b \in Seq(S) /\ Len(a) = p - 1 /\ Len(b) = Len(s) - p
  BY <1>1, <1>2 DEF a, b
<1>5. /\ a \o b \in Seq(S) /\ Len(a \o b) = Len(a) + Len(b)
      /\ \A i \in 1..(Len(a) + Len(b)) : (a \o b)[i] = IF i <= Len(a) THEN a[i] ELSE b[i - Len(a)]
  BY <1>4, ConcatProperties
<1>6. ASSUME NEW i \in 1..(Len(s) - 1) PROVE (a \o b)[i] = s[IF i < p THEN i ELSE i + 1]
  <2>1. CASE i < p
    BY <1>0, <1>1, <1>4, <1>5, <2>1 DEF a
  <2>2. CASE ~(i < p)
    <3>1. (a \o b)[i] = b[i - (p - 1)] /\ i - (p - 1) \in 1..(Len(s) - p)
      BY <1>0, <1>4, <1>5, <2>2
    <3>2. b[i - (p - 1)] = s[p + (i - (p - 1))]
      BY <1>2, <3>1 DEF b
    <3>3. p + (i - (p - 1)) = i + 1
      BY <1>0
    <3> QED
      BY <2>2, <3>1, <3>2, <3>3
  <2> QED
    BY <2>1, <2>2
<1> QED
  BY <1>0, <1>3, <1>4, <1>5, <1>6

\* The ballot once its entry for a token was deleted, and the token handed on.
LEMMA WithoutKeeps ==
  ASSUME NEW E, NEW b, BallotInv(b, E), NEW token, HasEntry(b, token)
  PROVE  BallotInv(Qs!Without(token, b), E \cup {token}) /\ RestOf(Qs!Without(token, b), b, token)
<1> DEFINE p == CHOOSE i \in DOMAIN b : b[i].token = token
           c == Qs!Without(token, b)
           at(i) == IF i < p THEN i ELSE i + 1
           back(i) == IF i < p THEN i ELSE i - 1
<1>0. b \in Seq(VoteType) /\ DOMAIN b = 1..Len(b) /\ Len(b) \in Nat
  BY DEF BallotInv
<1>1. p \in 1..Len(b) /\ b[p].token = token
  BY <1>0 DEF HasEntry
<1>2. c = Qs!RemoveAt(b, p)
  BY DEF Qs!Without
<1> HIDE DEF p, c
<1>r. /\ c \in Seq(VoteType) /\ Len(c) = Len(b) - 1
      /\ \A i \in 1..(Len(b) - 1) : c[i] = b[IF i < p THEN i ELSE i + 1]
  BY <1>0, <1>1, <1>2, RemoveAtElements
<1>3. /\ c \in Seq(VoteType) /\ Len(c) = Len(b) - 1 /\ Len(c) \in Nat
      /\ \A i \in 1..Len(c) : c[i] = b[at(i)]
  BY <1>0, <1>1, <1>r
<1>4. \A i \in 1..Len(c) : at(i) \in 1..Len(b) /\ at(i) # p
  BY <1>0, <1>1, <1>3
<1>5. \A i \in 1..Len(b) : i # p => back(i) \in 1..Len(c) /\ at(back(i)) = i
  BY <1>0, <1>1, <1>3
<1>6. \A i, j \in 1..Len(c) : (at(i) = at(j) => i = j) /\ (at(j) < at(i) => j < i)
  BY <1>0, <1>1, <1>3
<1> HIDE DEF at, back
<1>7. \A i \in 1..Len(b) : b[i].token = token => i = p
  BY <1>1 DEF BallotInv
<1>8. \A i \in 1..Len(c) : c[i] = b[at(i)] /\ b[at(i)].token # token
  BY <1>3, <1>4, <1>7
<1>9. \A i \in 1..Len(b) : b[i].token # token => back(i) \in 1..Len(c) /\ c[back(i)] = b[i]
  BY <1>1, <1>3, <1>5
<1>10. \A i, j \in 1..Len(c) : c[i].token = c[j].token => i = j
  BY <1>4, <1>6, <1>8 DEF BallotInv
<1>11. ASSUME NEW i \in 1..Len(c), NEW t \in 1..(c[i].token - 1), t \notin E \cup {token}
       PROVE  \E j \in 1..(i - 1) : c[j].token = t
  <2>1. at(i) \in 1..Len(b) /\ t \in 1..(b[at(i)].token - 1) /\ t \notin E
    BY <1>4, <1>8, <1>11
  <2>2. PICK j \in 1..(at(i) - 1) : b[j].token = t
    BY <2>1 DEF BallotInv
  <2>3. j \in 1..Len(b) /\ j < at(i) /\ j # p
    BY <1>0, <1>1, <1>11, <2>1, <2>2
  <2>4. back(j) \in 1..Len(c) /\ at(back(j)) = j /\ c[back(j)] = b[j]
    BY <1>3, <1>5, <2>3
  <2>5. back(j) < i
    BY <1>6, <2>3, <2>4
  <2>6. back(j) \in 1..(i - 1)
    BY <1>3, <2>4, <2>5
  <2> QED
    BY <2>2, <2>4, <2>6
<1>12. ASSUME NEW i \in 1..Len(c), NEW n \in c[i].nodes, NEW t \in 1..(c[i].token - 1), t \notin E \cup {token}
       PROVE  Voter(c, t, n)
  <2>1. at(i) \in 1..Len(b) /\ t \in 1..(b[at(i)].token - 1) /\ t \notin E /\ n \in b[at(i)].nodes
    BY <1>4, <1>8, <1>12
  <2>2. Voter(b, t, n)
    BY <2>1 DEF BallotInv
  <2>3. PICK j \in 1..Len(b) : b[j].token = t /\ n \in b[j].nodes
    BY <2>2 DEF Voter
  <2>4. back(j) \in 1..Len(c) /\ c[back(j)] = b[j]
    BY <1>9, <1>12, <2>3
  <2> QED
    BY <2>3, <2>4 DEF Voter
<1>13. BallotInv(c, E \cup {token})
  BY <1>3, <1>10, <1>11, <1>12 DEF BallotInv
<1>14. \A i \in 1..Len(c) : \E j \in 1..Len(b) : c[i] = b[j] /\ b[j].token # token
  BY <1>4, <1>8
<1>15. \A i \in 1..Len(b) : b[i].token # token => \E j \in 1..Len(c) : c[j] = b[i]
  BY <1>9
<1> QED
  BY <1>13, <1>14, <1>15 DEF c, RestOf

\* The ballot once node n has voted for a token, all below which it has delivered.
LEMMA BallotKeeps ==
  ASSUME NEW E, BallotInv(votes, E), NEW token \in 1..Records, NEW n \in Nodes,
         \A t \in 1..(token - 1) : t \in E \/ Voter(votes, t, n)
  PROVE  /\ BallotInv(Qs!Ballot(token, n), E)
         /\ Voter(Qs!Ballot(token, n), token, n)
         /\ \A t, m : Voter(votes, t, m) => Voter(Qs!Ballot(token, n), t, m)
         /\ \A i \in 1..Len(Qs!Ballot(token, n)) :
              Qs!Ballot(token, n)[i].token # token =>
                \E j \in 1..Len(votes) : Qs!Ballot(token, n)[i] = votes[j]
<1> DEFINE b == Qs!Ballot(token, n)
<1>0. votes \in Seq(VoteType) /\ DOMAIN votes = 1..Len(votes) /\ Len(votes) \in Nat /\ Records \in Nat
  BY QuorumNumbers DEF BallotInv
<1>e. \A i \in 1..Len(votes) : votes[i] \in VoteType
  BY <1>0, ElementOfSeq
\* The entry of the token, q, and what the ballot has beside it.
<1>1. \E q \in 1..Len(b) :
        /\ b \in Seq(VoteType) /\ Len(b) \in { Len(votes), Len(votes) + 1 }
        /\ b[q].token = token /\ n \in b[q].nodes
        /\ \A m \in b[q].nodes : m = n \/ Voter(votes, token, m)
        /\ \A i \in 1..Len(votes) : b[i].token = votes[i].token /\ votes[i].nodes \subseteq b[i].nodes
        /\ \A i \in 1..Len(b) : i # q => i \in 1..Len(votes) /\ b[i] = votes[i] /\ b[i].token # token
        /\ q \in 1..Len(votes) \/ (q = Len(votes) + 1 /\ Len(b) = q)
  <2>1. CASE \E i \in DOMAIN votes : votes[i].token = token
    <3>1. PICK q \in 1..Len(votes) : votes[q].token = token
      BY <1>0, <2>1
    <3>2. \A i \in 1..Len(votes) : votes[i].token = token => i = q
      BY <3>1 DEF BallotInv
    <3>3. b = [i \in 1..Len(votes) |->
                 IF votes[i].token = token THEN [votes[i] EXCEPT !.nodes = @ \cup {n}] ELSE votes[i]]
      BY <1>0, <2>1 DEF Qs!Ballot
    <3> HIDE DEF b
    <3>4. /\ \A i \in 1..Len(votes) : i # q => b[i] = votes[i]
          /\ b[q] = [votes[q] EXCEPT !.nodes = @ \cup {n}]
      BY <3>1, <3>2, <3>3
    <3>5. votes[q] \in VoteType
      BY <1>e
    <3>6. b[q] \in VoteType /\ b[q].token = token /\ b[q].nodes = votes[q].nodes \cup {n}
      BY <3>1, <3>4, <3>5 DEF VoteType
    <3>7. b \in Seq(VoteType) /\ Len(b) = Len(votes)
      <4>1. \A i \in 1..Len(votes) : b[i] \in VoteType
        BY <1>e, <3>4, <3>6
      <4>2. b \in [1..Len(votes) -> VoteType]
        BY <3>3, <4>1
      <4> QED
        BY <1>0, <4>2
    <3>8. \A m \in b[q].nodes : m = n \/ Voter(votes, token, m)
      BY <3>1, <3>6 DEF Voter
    <3>9. \A i \in 1..Len(votes) : b[i].token = votes[i].token /\ votes[i].nodes \subseteq b[i].nodes
      BY <3>1, <3>4, <3>6
    <3> QED
      BY <3>1, <3>2, <3>4, <3>6, <3>7, <3>8, <3>9
  <2>2. CASE ~\E i \in DOMAIN votes : votes[i].token = token
    <3> DEFINE v == [token |-> token, nodes |-> {n}]
               q == Len(votes) + 1
    <3>1. b = Append(votes, v)
      BY <2>2 DEF Qs!Ballot
    <3>2. v \in VoteType /\ v.token = token /\ v.nodes = {n}
      BY DEF VoteType
    <3> HIDE DEF b, v
    <3>3. /\ b \in Seq(VoteType) /\ Len(b) = q /\ b[q] = v
          /\ \A i \in 1..Len(votes) : b[i] = votes[i]
      BY <1>0, <3>1, <3>2, AppendProperties
    <3>4. q \in 1..Len(b) /\ \A i \in 1..Len(b) : i # q => i \in 1..Len(votes)
      BY <1>0, <3>3
    <3>5. \A i \in 1..Len(votes) : votes[i].token # token
      BY <1>0, <2>2
    <3> HIDE DEF q
    <3>6. q = Len(votes) + 1
      BY DEF q
    <3> QED
      BY <3>2, <3>3, <3>4, <3>5, <3>6
  <2> QED
    BY <2>1, <2>2
<1> HIDE DEF b
<1>2. PICK q \in 1..Len(b) :
        /\ b \in Seq(VoteType) /\ Len(b) \in { Len(votes), Len(votes) + 1 }
        /\ b[q].token = token /\ n \in b[q].nodes
        /\ \A m \in b[q].nodes : m = n \/ Voter(votes, token, m)
        /\ \A i \in 1..Len(votes) : b[i].token = votes[i].token /\ votes[i].nodes \subseteq b[i].nodes
        /\ \A i \in 1..Len(b) : i # q => i \in 1..Len(votes) /\ b[i] = votes[i] /\ b[i].token # token
        /\ q \in 1..Len(votes) \/ (q = Len(votes) + 1 /\ Len(b) = q)
  BY <1>1
<1>3. Len(b) \in Nat /\ \A i \in 1..Len(votes) : i \in 1..Len(b)
  BY <1>0, <1>2
<1>4. \A t, m : Voter(votes, t, m) => Voter(b, t, m)
  BY <1>2, <1>3 DEF Voter
<1>5. Voter(b, token, n)
  BY <1>2 DEF Voter
<1>6. \A i, j \in 1..Len(b) : b[i].token = b[j].token => i = j
  BY <1>2 DEF BallotInv
<1>7. ASSUME NEW i \in 1..Len(b), NEW t \in 1..(b[i].token - 1), t \notin E
      PROVE  \E j \in 1..(i - 1) : b[j].token = t
  <2>1. CASE i \in 1..Len(votes)
    <3>1. t \in 1..(votes[i].token - 1)
      BY <1>2, <1>7, <2>1
    <3>2. PICK j \in 1..(i - 1) : votes[j].token = t
      BY <1>7, <2>1, <3>1 DEF BallotInv
    <3>3. j \in 1..Len(votes)
      BY <1>0, <2>1, <3>2
    <3> QED
      BY <1>2, <3>2, <3>3
  <2>2. CASE i \notin 1..Len(votes)
    <3>1. i = q /\ i = Len(votes) + 1 /\ t \in 1..(token - 1)
      BY <1>2, <1>7, <2>2
    <3>2. Voter(votes, t, n)
      BY <1>7, <3>1
    <3>3. PICK j \in 1..Len(votes) : votes[j].token = t
      BY <3>2 DEF Voter
    <3>4. j \in 1..(i - 1)
      BY <1>0, <3>1, <3>3
    <3> QED
      BY <1>2, <3>3, <3>4
  <2> QED
    BY <2>1, <2>2
<1>8. ASSUME NEW i \in 1..Len(b), NEW m \in b[i].nodes, NEW t \in 1..(b[i].token - 1), t \notin E
      PROVE  Voter(b, t, m)
  <2>1. CASE i # q
    <3>1. i \in 1..Len(votes) /\ b[i] = votes[i]
      BY <1>2, <2>1
    <3>2. Voter(votes, t, m)
      BY <1>8, <3>1 DEF BallotInv
    <3> QED
      BY <1>4, <3>2
  <2>2. CASE i = q /\ m = n
    <3>1. Voter(votes, t, n)
      BY <1>2, <1>8, <2>2
    <3> QED
      BY <1>4, <2>2, <3>1
  <2>3. CASE i = q /\ m # n
    <3>1. Voter(votes, token, m)
      BY <1>2, <1>8, <2>3
    <3>2. PICK j \in 1..Len(votes) : votes[j].token = token /\ m \in votes[j].nodes
      BY <3>1 DEF Voter
    <3>3. t \in 1..(votes[j].token - 1)
      BY <1>2, <1>8, <2>3, <3>2
    <3>4. Voter(votes, t, m)
      BY <1>8, <3>2, <3>3 DEF BallotInv
    <3> QED
      BY <1>4, <3>4
  <2> QED
    BY <2>1, <2>2, <2>3
<1>9. BallotInv(b, E)
  BY <1>2, <1>6, <1>7, <1>8 DEF BallotInv
<1>10. \A i \in 1..Len(b) : b[i].token # token => \E j \in 1..Len(votes) : b[i] = votes[j]
  BY <1>2
<1> QED
  BY <1>4, <1>5, <1>9, <1>10 DEF b

\* emit hands on a token that no earlier one is missing before.
LEMMA EmitKeeps ==
  ASSUME QuorumTypes, Range(remembered) \subseteq HandedOn, HandedOn \subseteq Range(remembered) \cup forgotten,
         Qs!HandedOnce, Qs!HandedInOrder,
         NEW token \in 1..Records, NEW b, BallotInv(b, HandedOn),
         HasEntry(b, token), OthersBelow(b, token), HandedBelow(token),
         ~Qs!Contains(remembered, token), Qs!Emit(token, b)
  PROVE  /\ emissions' \in Seq(1..Records) /\ remembered' \in Seq(1..Records)
         /\ HandedOn' = HandedOn \cup {token}
         /\ Range(remembered') \subseteq HandedOn'
         /\ HandedOn' \subseteq Range(remembered') \cup forgotten'
         /\ BallotInv(votes', HandedOn') /\ BelowQuorum(votes)'
         /\ \A t, m : Voter(b, t, m) => t = token \/ Voter(votes', t, m)
         /\ Qs!HandedOnce' /\ Qs!HandedInOrder'
<1> DEFINE all == Append(remembered, token)
           N == Len(emissions)
<1>0. /\ emissions \in Seq(1..Records) /\ N \in Nat /\ DOMAIN emissions = 1..N
      /\ remembered \in Seq(1..Records) /\ Records \in Nat
  BY QuorumNumbers DEF QuorumTypes
<1>1. /\ votes' = Qs!Without(token, b) /\ emissions' = Append(emissions, token)
      /\ IF Len(all) > MaxRemembered
           THEN remembered' = Tail(all) /\ forgotten' = forgotten \cup {Head(all)}
           ELSE remembered' = all /\ UNCHANGED forgotten
  BY DEF Qs!Emit
<1>2. /\ emissions' \in Seq(1..Records) /\ Len(emissions') = N + 1 /\ DOMAIN emissions' = 1..(N + 1)
      /\ \A i \in 1..N : emissions'[i] = emissions[i]
      /\ emissions'[N + 1] = token
  BY <1>0, <1>1, AppendProperties
<1> HIDE DEF N
<1>n. N \in Nat
  BY <1>0
<1>s. \A i \in 1..(N + 1) : i \in 1..N \/ i = N + 1
  BY <1>n
<1>t. N + 1 \in 1..(N + 1) /\ \A i \in 1..N : i \in 1..(N + 1)
  BY <1>n
<1>3. HandedOn' = HandedOn \cup {token}
  <2>1. \A x : x \in HandedOn' <=> \E i \in 1..(N + 1) : emissions'[i] = x
    BY <1>2 DEF HandedOn, Range
  <2>2. \A x : x \in HandedOn <=> \E i \in 1..N : emissions[i] = x
    BY <1>0 DEF HandedOn, Range
  <2>3. \A x : x \in HandedOn' <=> x \in HandedOn \/ x = token
    BY <1>2, <1>s, <1>t, <2>1, <2>2
  <2> QED
    BY <2>3
<1>4. /\ all \in Seq(1..Records) /\ Len(all) = Len(remembered) + 1
      /\ \A i \in 1..Len(remembered) : all[i] = remembered[i]
      /\ all[Len(remembered) + 1] = token
  BY <1>0, AppendProperties
<1> HIDE DEF all
<1>5. Range(remembered) \cup {token} \subseteq Range(all) /\ Range(all) \subseteq HandedOn'
  <2>1. Len(remembered) \in Nat /\ DOMAIN remembered = 1..Len(remembered) /\ DOMAIN all = 1..Len(all)
    BY <1>0, <1>4
  <2>2. Range(remembered) \cup {token} \subseteq Range(all)
    BY <1>4, <2>1 DEF Range
  <2>3. \A i \in 1..Len(all) : i \in 1..Len(remembered) \/ i = Len(remembered) + 1
    BY <1>4, <2>1
  <2>4. Range(all) \subseteq Range(remembered) \cup {token}
    BY <1>4, <2>1, <2>3 DEF Range
  <2> QED
    BY <1>3, <2>2, <2>4
<1>6. /\ remembered' \in Seq(1..Records) /\ Range(remembered') \subseteq Range(all)
      /\ Range(all) \subseteq Range(remembered') \cup forgotten' /\ forgotten \subseteq forgotten'
  <2>1. CASE Len(all) > MaxRemembered
    <3>1. /\ Tail(all) \in Seq(1..Records) /\ Len(Tail(all)) = Len(all) - 1 /\ Len(all) \in Nat
          /\ \A i \in 1..Len(Tail(all)) : Tail(all)[i] = all[i + 1]
      <4>1. Len(remembered) \in Nat
        BY <1>0
      <4>2. all # << >>
        BY <1>4, <4>1
      <4> QED
        BY <1>4, <4>2, HeadTailProperties
    <3>2. remembered' = Tail(all) /\ forgotten' = forgotten \cup {Head(all)}
      BY <1>1, <2>1
    <3>3. ASSUME NEW x \in Range(all) PROVE x \in Range(Tail(all)) \/ x = Head(all)
      <4>1. PICK i \in 1..Len(all) : all[i] = x
        BY <1>4 DEF Range
      <4>2. CASE i = 1
        BY <1>4, <4>1, <4>2
      <4>3. CASE i # 1
        <5>1. i - 1 \in 1..Len(Tail(all)) /\ (i - 1) + 1 = i
          BY <3>1, <4>3
        <5>2. Tail(all)[i - 1] = x
          BY <3>1, <4>1, <5>1
        <5>3. DOMAIN Tail(all) = 1..Len(Tail(all))
          BY <3>1
        <5> QED
          BY <5>1, <5>2, <5>3 DEF Range
      <4> QED
        BY <4>2, <4>3
    <3>4. Range(Tail(all)) \subseteq Range(all)
      <4>1. DOMAIN Tail(all) = 1..Len(Tail(all)) /\ DOMAIN all = 1..Len(all)
        BY <1>4, <3>1
      <4>2. \A i \in 1..Len(Tail(all)) : i + 1 \in 1..Len(all)
        BY <3>1
      <4> QED
        BY <3>1, <4>1, <4>2 DEF Range
    <3> QED
      BY <3>1, <3>2, <3>3, <3>4
  <2>2. CASE ~(Len(all) > MaxRemembered)
    BY <1>1, <1>4, <2>2
  <2> QED
    BY <2>1, <2>2
<1>7. HandedOn' \subseteq Range(remembered') \cup forgotten' /\ Range(remembered') \subseteq HandedOn'
  BY <1>3, <1>5, <1>6
<1>8. /\ BallotInv(votes', HandedOn')
      /\ \A i \in 1..Len(votes') : \E j \in 1..Len(b) : votes'[i] = b[j] /\ b[j].token # token
      /\ \A i \in 1..Len(b) : b[i].token # token => \E j \in 1..Len(votes') : votes'[j] = b[i]
  <2>1. BallotInv(Qs!Without(token, b), HandedOn \cup {token}) /\ RestOf(Qs!Without(token, b), b, token)
    BY WithoutKeeps
  <2> QED
    BY <1>1, <1>3, <2>1 DEF RestOf
<1>9. BelowQuorum(votes)'
  <2>1. Qs!QuorumSize' = Qs!QuorumSize
    BY DEF Qs!QuorumSize
  <2>2. \A i \in 1..Len(votes') : Cardinality(votes'[i].nodes) < Qs!QuorumSize
    BY <1>8 DEF OthersBelow
  <2> QED
    BY <2>1, <2>2 DEF BelowQuorum
<1>10. \A t, m : Voter(b, t, m) => t = token \/ Voter(votes', t, m)
  BY <1>8 DEF Voter
<1>11. token \in HandedOn => token \in forgotten'
  <2>1. token \notin Range(remembered)
    BY <1>0 DEF Qs!Contains, Range
  <2> QED
    BY <1>6, <2>1
<1>12. Qs!HandedOnce'
  <2> SUFFICES ASSUME NEW i \in 1..(N + 1), NEW j \in 1..(N + 1), i # j, emissions'[i] = emissions'[j]
               PROVE  emissions'[i] \in forgotten'
    BY <1>2 DEF Qs!HandedOnce
  <2>1. CASE i \in 1..N /\ j \in 1..N
    BY <1>0, <1>2, <1>6, <2>1 DEF Qs!HandedOnce
  <2>2. CASE i = N + 1 \/ j = N + 1
    <3>1. PICK k \in 1..N : emissions[k] = token
      BY <1>2, <1>s, <2>2
    <3>2. token \in HandedOn
      BY <1>0, <3>1 DEF HandedOn, Range
    <3>3. emissions'[i] = token
      BY <1>2, <2>2
    <3> QED
      BY <1>11, <3>2, <3>3
  <2> QED
    BY <1>s, <2>1, <2>2
<1>13. Qs!HandedInOrder'
  <2> SUFFICES ASSUME NEW i \in 1..(N + 1), NEW t \in 1..(emissions'[i] - 1)
               PROVE  \E j \in 1..(i - 1) : emissions'[j] = t
    BY <1>2 DEF Qs!HandedInOrder
  <2>1. CASE i \in 1..N
    <3>1. t \in 1..(emissions[i] - 1)
      BY <1>2, <2>1
    <3>2. PICK j \in 1..(i - 1) : emissions[j] = t
      BY <1>0, <2>1, <3>1 DEF Qs!HandedInOrder
    <3>3. j \in 1..N
      BY <1>0, <2>1, <3>2
    <3> QED
      BY <1>2, <3>2, <3>3
  <2>2. CASE i = N + 1
    <3>1. t \in HandedOn
      BY <1>2, <2>2 DEF HandedBelow
    <3>2. PICK j \in 1..N : emissions[j] = t
      BY <1>0, <3>1 DEF HandedOn, Range
    <3>3. j \in 1..(i - 1)
      BY <1>0, <2>2, <3>2
    <3> QED
      BY <1>2, <3>2, <3>3
  <2> QED
    BY <1>s, <2>1, <2>2
<1> QED
  BY <1>2, <1>3, <1>6, <1>7, <1>8, <1>9, <1>10, <1>12, <1>13

\* Most nodes have voted for a token: then all below it was handed on, since its
\* voters voted for that too.
LEMMA QuorumInOrder ==
  ASSUME NEW token \in 1..Records, NEW b, BallotInv(b, HandedOn), OthersBelow(b, token),
         NEW n, Voter(b, token, n), Qs!HasQuorum(token, b)
  PROVE  HandedBelow(token)
<1> SUFFICES ASSUME NEW t \in 1..(token - 1), t \notin HandedOn PROVE FALSE
  BY DEF HandedBelow
<1>0. b \in Seq(VoteType) /\ DOMAIN b = 1..Len(b) /\ t # token
  BY QuorumNumbers DEF BallotInv
<1>1. PICK q \in 1..Len(b) : b[q].token = token /\ Cardinality(b[q].nodes) >= Qs!QuorumSize
  BY <1>0 DEF Qs!HasQuorum, Qs!Cardinality, Cardinality
<1>2. \A m \in b[q].nodes : Voter(b, t, m)
  BY <1>1 DEF BallotInv
<1>3. n \in b[q].nodes
  BY <1>1 DEF Voter, BallotInv
<1>4. PICK j \in 1..Len(b) : b[j].token = t /\ n \in b[j].nodes
  BY <1>2, <1>3 DEF Voter
<1>5. b[q].nodes \subseteq b[j].nodes
  BY <1>2, <1>4 DEF Voter, BallotInv
<1>6. b[j].nodes \subseteq Nodes
  <2>1. b[j] \in VoteType
    BY <1>0, <1>4, ElementOfSeq
  <2> QED
    BY <2>1 DEF VoteType
<1>7. IsFiniteSet(Nodes)
  BY QuorumOK
<1>8. IsFiniteSet(b[j].nodes)
  BY <1>6, <1>7, FS_Subset
<1>9. IsFiniteSet(b[q].nodes) /\ Cardinality(b[q].nodes) <= Cardinality(b[j].nodes)
  BY <1>5, <1>8, FS_Subset
<1>10. Cardinality(b[q].nodes) \in Nat /\ Cardinality(b[j].nodes) \in Nat
  BY <1>8, <1>9, FS_CardinalityType
<1>11. Cardinality(b[j].nodes) < Qs!QuorumSize
  BY <1>0, <1>4 DEF OthersBelow
<1>12. Qs!QuorumSize \in Nat
  BY QuorumNumbers
<1> QED
  BY <1>1, <1>9, <1>10, <1>11, <1>12

\* What deliveries count for stays when votes are kept or handed on.
LEMMA CountsKept ==
  ASSUME DeliveredCounts, ~shut' => ~shut, HandedOn \subseteq HandedOn',
         \A t, m : Voter(votes, t, m) => t \in HandedOn' \/ Voter(votes', t, m),
         \A m \in Nodes : \A l \in 1..Len(feed'[m]) :
           feed'[m][l] # Qs!Broken =>
             \A t \in 1..feed'[m][l] :
               \/ t \in HandedOn' \/ Voter(votes', t, m)
               \/ \E o \in 1..Len(feed[m]) : feed[m][o] # Qs!Broken /\ t \in 1..feed[m][o]
  PROVE  DeliveredCounts'
<1>1. Qs!Broken' = Qs!Broken
  BY DEF Qs!Broken
<1> QED
  BY <1>1 DEF DeliveredCounts

LEMMA DeliverKeeps ==
  ASSUME QuorumInv, NEW n \in Nodes, NEW k, Qs!Deliver(n, k) PROVE QuorumInv'
<1> DEFINE token == feed[n][k] + 1
           b == Qs!Ballot(token, n)
<1>0. /\ QuorumTypes /\ Records \in Nat /\ BallotInv(votes, HandedOn) /\ BelowQuorum(votes) /\ DeliveredCounts
      /\ ~shut /\ horizonTip' = horizonTip /\ shut' = shut
      /\ Range(remembered) \subseteq HandedOn /\ HandedOn \subseteq Range(remembered) \cup forgotten
      /\ Qs!HandedOnce /\ Qs!HandedInOrder
  BY QuorumNumbers DEF QuorumInv, Qs!Deliver
<1>1. /\ k \in 1..Len(feed[n]) /\ feed[n][k] \in 0..(Records + 1) /\ feed[n][k] < horizonTip
      /\ feed[n] \in Seq(0..(Records + 1))
  BY <1>0 DEF QuorumTypes, Qs!Deliver
<1>2. /\ token \in 1..Records /\ feed[n][k] # Qs!Broken /\ token - 1 = feed[n][k]
  BY <1>0, <1>1 DEF QuorumTypes, Qs!Broken
<1>3. /\ feed' \in [Nodes -> Seq(0..(Records + 1))] /\ Len(feed'[n]) = Len(feed[n]) /\ feed'[n][k] = token
      /\ \A l \in 1..Len(feed[n]) : l # k => feed'[n][l] = feed[n][l]
      /\ \A m \in Nodes : m # n => feed'[m] = feed[m]
  <2>1. feed' = [feed EXCEPT ![n] = [feed[n] EXCEPT ![k] = token]]
    BY <1>0, <1>1 DEF Qs!Deliver, QuorumTypes
  <2>2. token \in 0..(Records + 1)
    BY <1>0, <1>2
  <2> HIDE DEF token
  <2>3. /\ [feed[n] EXCEPT ![k] = token] \in Seq(0..(Records + 1))
        /\ Len([feed[n] EXCEPT ![k] = token]) = Len(feed[n])
        /\ [feed[n] EXCEPT ![k] = token][k] = token
        /\ \A l \in 1..Len(feed[n]) : l # k => [feed[n] EXCEPT ![k] = token][l] = feed[n][l]
    BY <1>1, <2>2
  <2> QED
    BY <1>0, <2>1, <2>3 DEF QuorumTypes
<1>4. \A t \in 1..(token - 1) : t \in HandedOn \/ Voter(votes, t, n)
  BY <1>0, <1>1, <1>2 DEF DeliveredCounts
<1> HIDE DEF token
<1>5. /\ BallotInv(b, HandedOn) /\ Voter(b, token, n)
      /\ \A t, m : Voter(votes, t, m) => Voter(b, t, m)
      /\ \A i \in 1..Len(b) : b[i].token # token => \E j \in 1..Len(votes) : b[i] = votes[j]
  BY <1>0, <1>2, <1>4, BallotKeeps
<1>6. IF Qs!Contains(remembered, token) THEN UNCHANGED << votes, remembered, emissions, forgotten >>
      ELSE IF Qs!HasQuorum(token, b) THEN Qs!Emit(token, b)
      ELSE votes' = b /\ UNCHANGED << remembered, emissions, forgotten >>
  BY DEF Qs!Deliver, token
<1> HIDE DEF b
<1>7. HasEntry(b, token)
  BY <1>5 DEF Voter, HasEntry
<1>8. OthersBelow(b, token)
  BY <1>0, <1>5 DEF OthersBelow, BelowQuorum
\* What is left is that what the stream delivered counts.
<1>9. ASSUME HandedOn \subseteq HandedOn', token \in HandedOn' \/ Voter(votes', token, n),
             \A t, m : Voter(votes, t, m) => t \in HandedOn' \/ Voter(votes', t, m)
      PROVE  DeliveredCounts'
  <2>1. ASSUME NEW m \in Nodes, NEW l \in 1..Len(feed'[m]), NEW t \in 1..feed'[m][l], feed'[m][l] # Qs!Broken
        PROVE  \/ t \in HandedOn' \/ Voter(votes', t, m)
               \/ \E o \in 1..Len(feed[m]) : feed[m][o] # Qs!Broken /\ t \in 1..feed[m][o]
    <3>1. CASE m # n \/ l # k
      BY <1>3, <2>1, <3>1
    <3>2. CASE m = n /\ l = k /\ t = token
      BY <1>9, <3>2
    <3>3. CASE m = n /\ l = k /\ t # token
      <4>1. t \in 1..(token - 1)
        BY <1>2, <1>3, <2>1, <3>3
      <4> QED
        BY <1>1, <1>2, <3>3, <4>1
    <3> QED
      BY <3>1, <3>2, <3>3
  <2> QED
    BY <1>0, <1>9, <2>1, CountsKept
<1>10. CASE Qs!Contains(remembered, token)
  <2>1. UNCHANGED << votes, remembered, emissions, forgotten >>
    BY <1>6, <1>10
  <2>2. HandedOn' = HandedOn
    BY <2>1 DEF HandedOn
  <2>3. token \in HandedOn
    <3>1. DOMAIN remembered = 1..Len(remembered)
      BY <1>0 DEF QuorumTypes
    <3>2. token \in Range(remembered)
      BY <1>10, <3>1 DEF Qs!Contains, Range
    <3> QED
      BY <1>0, <3>2
  <2>4. DeliveredCounts'
    BY <1>9, <2>1, <2>2, <2>3
  <2>5. QuorumTypes' /\ BelowQuorum(votes)' /\ Qs!HandedOnce' /\ Qs!HandedInOrder'
    BY <1>0, <1>3, <2>1 DEF QuorumTypes, BelowQuorum, Qs!QuorumSize, Qs!HandedOnce, Qs!HandedInOrder
  <2> QED
    BY <1>0, <2>1, <2>2, <2>4, <2>5 DEF QuorumInv
<1>11. CASE ~Qs!Contains(remembered, token) /\ Qs!HasQuorum(token, b)
  <2>1. HandedBelow(token) /\ Qs!Emit(token, b)
    BY <1>2, <1>5, <1>6, <1>8, <1>11, QuorumInOrder
  <2>2. /\ emissions' \in Seq(1..Records) /\ remembered' \in Seq(1..Records)
        /\ HandedOn' = HandedOn \cup {token}
        /\ Range(remembered') \subseteq HandedOn'
        /\ HandedOn' \subseteq Range(remembered') \cup forgotten'
        /\ BallotInv(votes', HandedOn') /\ BelowQuorum(votes)'
        /\ \A t, m : Voter(b, t, m) => t = token \/ Voter(votes', t, m)
        /\ Qs!HandedOnce' /\ Qs!HandedInOrder'
    BY <1>0, <1>2, <1>5, <1>7, <1>8, <1>11, <2>1, EmitKeeps
  <2>3. DeliveredCounts'
    BY <1>5, <1>9, <2>2
  <2>4. QuorumTypes'
    BY <1>0, <1>3, <2>2 DEF QuorumTypes
  <2> QED
    BY <2>2, <2>3, <2>4 DEF QuorumInv
<1>12. CASE ~Qs!Contains(remembered, token) /\ ~Qs!HasQuorum(token, b)
  <2>1. votes' = b /\ UNCHANGED << remembered, emissions, forgotten >>
    BY <1>6, <1>12
  <2>2. HandedOn' = HandedOn
    BY <2>1 DEF HandedOn
  <2>3. DeliveredCounts'
    BY <1>5, <1>9, <2>1, <2>2
  <2>4. BelowQuorum(b)
    <3> SUFFICES ASSUME NEW i \in 1..Len(b) PROVE Cardinality(b[i].nodes) < Qs!QuorumSize
      BY DEF BelowQuorum
    <3>1. CASE b[i].token # token
      BY <1>8, <3>1 DEF OthersBelow
    <3>2. CASE b[i].token = token
      <4>1. b \in Seq(VoteType) /\ DOMAIN b = 1..Len(b)
        BY <1>5 DEF BallotInv
      <4>2. b[i] \in VoteType
        BY <4>1, ElementOfSeq
      <4>3. IsFiniteSet(b[i].nodes)
        BY <4>2, QuorumOK, FS_Subset DEF VoteType
      <4>4. Cardinality(b[i].nodes) \in Nat /\ Qs!QuorumSize \in Nat
        BY <4>3, FS_CardinalityType, QuorumNumbers
      <4>5. ~(Cardinality(b[i].nodes) >= Qs!QuorumSize)
        BY <1>12, <3>2, <4>1 DEF Qs!HasQuorum, Qs!Cardinality, Cardinality
      <4> QED
        BY <4>4, <4>5
    <3> QED
      BY <3>1, <3>2
  <2>5. QuorumTypes' /\ BelowQuorum(votes)' /\ Qs!HandedOnce' /\ Qs!HandedInOrder'
    BY <1>0, <1>3, <2>1, <2>4 DEF QuorumTypes, BelowQuorum, Qs!QuorumSize, Qs!HandedOnce, Qs!HandedInOrder
  <2> QED
    BY <1>0, <1>5, <2>1, <2>2, <2>3, <2>5 DEF QuorumInv
<1> QED
  BY <1>10, <1>11, <1>12

LEMMA FallbackKeeps ==
  ASSUME QuorumInv, Qs!Fallback PROVE QuorumInv'
<1>0. /\ QuorumTypes /\ Records \in Nat /\ BallotInv(votes, HandedOn) /\ BelowQuorum(votes) /\ DeliveredCounts
      /\ UNCHANGED << horizonTip, feed, shut >> /\ votes # << >> /\ Qs!Emit(Head(votes).token, votes)
      /\ Range(remembered) \subseteq HandedOn /\ HandedOn \subseteq Range(remembered) \cup forgotten
      /\ Qs!HandedOnce /\ Qs!HandedInOrder
  BY QuorumNumbers DEF QuorumInv, Qs!Fallback
<1> DEFINE token == votes[1].token
<1>1. votes \in Seq(VoteType) /\ 1 \in 1..Len(votes) /\ Head(votes) = votes[1]
  BY <1>0 DEF BallotInv
<1>2. votes[1] \in VoteType
  BY <1>1, ElementOfSeq
<1>3. token \in 1..Records /\ Qs!Emit(token, votes)
  BY <1>0, <1>1, <1>2 DEF VoteType
<1>4. HandedBelow(token)
  <2>1. \A t \in 1..(votes[1].token - 1) : t \in HandedOn \/ \E j \in 1..(1 - 1) : votes[j].token = t
    BY <1>0, <1>1 DEF BallotInv
  <2>2. 1..(1 - 1) = {}
    OBVIOUS
  <2> QED
    BY <2>1, <2>2 DEF HandedBelow
<1>5. HasEntry(votes, token) /\ OthersBelow(votes, token)
  BY <1>0, <1>1 DEF HasEntry, OthersBelow, BelowQuorum
<1> HIDE DEF token
<1>6. CASE Qs!Contains(remembered, token)
  <2>1. UNCHANGED << votes, remembered, emissions, forgotten >>
    BY <1>3, <1>6 DEF Qs!Emit
  <2> QED
    BY <1>0, <2>1 DEF QuorumInv, QuorumTypes, HandedOn, BelowQuorum, Qs!QuorumSize, DeliveredCounts, Qs!Broken,
                      Qs!HandedOnce, Qs!HandedInOrder
<1>7. CASE ~Qs!Contains(remembered, token)
  <2>1. /\ emissions' \in Seq(1..Records) /\ remembered' \in Seq(1..Records)
        /\ HandedOn' = HandedOn \cup {token}
        /\ Range(remembered') \subseteq HandedOn'
        /\ HandedOn' \subseteq Range(remembered') \cup forgotten'
        /\ BallotInv(votes', HandedOn') /\ BelowQuorum(votes)'
        /\ \A t, m : Voter(votes, t, m) => t = token \/ Voter(votes', t, m)
        /\ Qs!HandedOnce' /\ Qs!HandedInOrder'
    BY <1>0, <1>3, <1>4, <1>5, <1>7, EmitKeeps
  <2>2. DeliveredCounts'
    BY <1>0, <2>1, CountsKept
  <2>3. QuorumTypes'
    BY <1>0, <2>1 DEF QuorumTypes
  <2> QED
    BY <2>1, <2>2, <2>3 DEF QuorumInv
<1> QED
  BY <1>6, <1>7

LEMMA QuorumStep == QuorumInv /\ [Next]_vars => QuorumInv'
<1> SUFFICES ASSUME QuorumInv, [Next]_vars PROVE QuorumInv'
  OBVIOUS
<1>0. QuorumTypes /\ Records \in Nat /\ DeliveredCounts
  BY QuorumNumbers DEF QuorumInv
\* The steps that hand nothing on and change no vote.
<1>1. ASSUME UNCHANGED << votes, remembered, emissions, forgotten >>, ~shut' => ~shut, QuorumTypes',
             \A m \in Nodes : \A l \in 1..Len(feed'[m]) :
               feed'[m][l] # Qs!Broken =>
                 \A t \in 1..feed'[m][l] :
                   \E o \in 1..Len(feed[m]) : feed[m][o] # Qs!Broken /\ t \in 1..feed[m][o]
      PROVE  QuorumInv'
  <2>1. HandedOn' = HandedOn
    BY <1>1 DEF HandedOn
  <2>2. DeliveredCounts'
    BY <1>0, <1>1, <2>1, CountsKept
  <2>3. BelowQuorum(votes)' /\ Qs!HandedOnce' /\ Qs!HandedInOrder'
    BY <1>1 DEF QuorumInv, BelowQuorum, Qs!QuorumSize, Qs!HandedOnce, Qs!HandedInOrder
  <2> QED
    BY <1>1, <2>1, <2>2, <2>3 DEF QuorumInv
<1>2. CASE UNCHANGED quorumState \/ Qs!RecordAppears
  <2>1. UNCHANGED << feed, votes, remembered, emissions, forgotten, shut >>
    BY <1>2 DEF quorumState, Qs!RecordAppears
  <2>2. horizonTip' \in 0..Records
    BY <1>0, <1>2 DEF quorumState, Qs!RecordAppears, QuorumTypes
  <2>3. QuorumTypes'
    BY <1>0, <2>1, <2>2 DEF QuorumTypes
  <2> QED
    BY <1>1, <2>1, <2>3
<1>3. ASSUME NEW n \in Nodes, Qs!Connect(n) PROVE QuorumInv'
  <2>1. /\ feed[n] \in Seq(0..(Records + 1)) /\ feed' = [feed EXCEPT ![n] = Append(feed[n], 0)]
        /\ 0 \in 0..(Records + 1) /\ Len(feed[n]) \in Nat
        /\ UNCHANGED << horizonTip, votes, remembered, emissions, forgotten, shut >>
    BY <1>0, <1>3 DEF Qs!Connect, QuorumTypes
  <2>2. /\ Append(feed[n], 0) \in Seq(0..(Records + 1)) /\ Len(Append(feed[n], 0)) = Len(feed[n]) + 1
        /\ \A l \in 1..Len(feed[n]) : Append(feed[n], 0)[l] = feed[n][l]
        /\ Append(feed[n], 0)[Len(feed[n]) + 1] = 0
    BY <2>1, AppendProperties
  <2>3. feed'[n] = Append(feed[n], 0) /\ \A m \in Nodes : m # n => feed'[m] = feed[m]
    BY <1>0, <2>1 DEF QuorumTypes
  <2>4. QuorumTypes'
    BY <1>0, <2>1, <2>2 DEF QuorumTypes
  <2>5. ASSUME NEW m \in Nodes, NEW l \in 1..Len(feed'[m]), feed'[m][l] # Qs!Broken, NEW t \in 1..feed'[m][l]
        PROVE  \E o \in 1..Len(feed[m]) : feed[m][o] # Qs!Broken /\ t \in 1..feed[m][o]
    <3>1. CASE m # n
      BY <2>3, <2>5, <3>1
    <3>2. CASE m = n /\ l \in 1..Len(feed[n])
      BY <2>2, <2>3, <2>5, <3>2
    <3>3. CASE m = n /\ l = Len(feed[n]) + 1
      BY <2>2, <2>3, <2>5, <3>3
    <3> QED
      BY <2>1, <2>2, <2>3, <3>1, <3>2, <3>3
  <2> QED
    BY <1>1, <2>1, <2>4, <2>5
<1>4. ASSUME NEW n \in Nodes, NEW k, Qs!StreamError(n, k) PROVE QuorumInv'
  <2>1. /\ k \in 1..Len(feed[n]) /\ feed[n] \in Seq(0..(Records + 1))
        /\ UNCHANGED << horizonTip, votes, remembered, emissions, forgotten, shut >>
    BY <1>0, <1>4 DEF Qs!StreamError, QuorumTypes
  <2>2. CASE UNCHANGED feed
    <3>1. QuorumTypes'
      BY <1>0, <2>1, <2>2 DEF QuorumTypes
    <3> QED
      BY <1>1, <2>1, <2>2, <3>1
  <2>3. CASE feed' = [feed EXCEPT ![n][k] = Qs!Broken]
    <3> DEFINE f == [feed[n] EXCEPT ![k] = Qs!Broken]
    <3>1. Qs!Broken \in 0..(Records + 1)
      BY <1>0 DEF Qs!Broken
    <3>2. f \in Seq(0..(Records + 1)) /\ Len(f) = Len(feed[n]) /\ f[k] = Qs!Broken
          /\ \A l \in 1..Len(feed[n]) : l # k => f[l] = feed[n][l]
      BY <2>1, <3>1
    <3>3. feed' = [feed EXCEPT ![n] = f]
      BY <1>0, <2>3 DEF QuorumTypes
    <3> HIDE DEF f
    <3>4. QuorumTypes' /\ feed'[n] = f /\ \A m \in Nodes : m # n => feed'[m] = feed[m]
      BY <1>0, <2>1, <3>2, <3>3 DEF QuorumTypes
    <3>5. ASSUME NEW m \in Nodes, NEW l \in 1..Len(feed'[m]), feed'[m][l] # Qs!Broken, NEW t \in 1..feed'[m][l]
          PROVE  \E o \in 1..Len(feed[m]) : feed[m][o] # Qs!Broken /\ t \in 1..feed[m][o]
      BY <3>2, <3>4, <3>5
    <3> QED
      BY <1>1, <2>1, <3>4, <3>5
  <2> QED
    BY <1>4, <2>2, <2>3 DEF Qs!StreamError
<1>5. CASE Qs!CloseStreams
  <2>1. /\ votes' = << >> /\ shut' = TRUE
        /\ UNCHANGED << horizonTip, feed, remembered, emissions, forgotten >>
    BY <1>5 DEF Qs!CloseStreams
  <2>2. HandedOn' = HandedOn /\ QuorumTypes' /\ DeliveredCounts'
    BY <1>0, <2>1 DEF HandedOn, QuorumTypes, DeliveredCounts
  <2>3. BallotInv(votes', HandedOn') /\ BelowQuorum(votes)'
    BY <2>1 DEF BallotInv, BelowQuorum
  <2>4. Qs!HandedOnce' /\ Qs!HandedInOrder'
    BY <2>1 DEF QuorumInv, Qs!HandedOnce, Qs!HandedInOrder
  <2> QED
    BY <2>1, <2>2, <2>3, <2>4 DEF QuorumInv
<1>6. ASSUME NEW s \in Qs!Streams, Qs!StreamError(s[1], s[2]) \/ Qs!Deliver(s[1], s[2]) PROVE QuorumInv'
  <2>1. s[1] \in Nodes
    BY DEF Qs!Streams
  <2> QED
    BY <1>4, <1>6, <2>1, DeliverKeeps
<1> QED
  BY <1>2, <1>3, <1>5, <1>6, FallbackKeeps, QuorumMoves DEF Qs!QuorumNext

\* The vote of several Horizon nodes hands records on once and in order; the
\* stream of a wallet keeps one connection and always a way to reconnect; and the
\* command line handles every payment below its checkpoint, again only after an
\* unsaved or chosen cursor or when the server replays more than the ids it remembers:
\* for any number of nodes, streams, records, reconnects and runs
\* (streamPaymentsMultiNode, startHorizonSSEStream and the CLI's resilient stream).
THEOREM StreamsAreSafe == Spec => []StreamsSafe
<1>1. QuorumInv /\ ConnectInv /\ CliInv => StreamsSafe
  BY CliInvSuffices DEF QuorumInv, ConnectInv, OneConnection, Sc!NoStrayConnection, StreamsSafe
<1> QED
  BY <1>1, QuorumFirst, QuorumStep, ConnectFirst, ConnectStep, CliFirst, CliStep, PTL DEF Spec

(***************************************************************************)
(* What a service's numbers have: a least one, and when they are bounded a *)
(* greatest; and the first few of a finite set of places.                  *)
(***************************************************************************)
LEMMA LeastExists ==
  ASSUME NEW S \in SUBSET Nat, S # {} PROVE \E x \in S : \A y \in S : x <= y
<1>1. PICK x \in S : \A y \in S : ~(<< y, x >> \in OpToRel(<, Nat))
  BY NatLessThanWellFounded, WFMin
<1>2. \A y \in S : ~(y < x)
  BY <1>1 DEF OpToRel
<1> QED
  BY <1>2

LEMMA GreatestExists ==
  ASSUME NEW S \in SUBSET Nat, S # {}, NEW n \in Nat, \A x \in S : x <= n
  PROVE  \E x \in S : \A y \in S : x >= y
<1> DEFINE T == { n - x : x \in S }
<1>1. T \in SUBSET Nat
  <2> SUFFICES ASSUME NEW x \in S PROVE n - x \in Nat
    OBVIOUS
  <2> QED
    OBVIOUS
<1>2. T # {}
  OBVIOUS
<1> HIDE DEF T
<1>3. PICK t \in T : \A u \in T : t <= u
  BY <1>1, <1>2, LeastExists
<1>4. PICK x \in S : t = n - x
  BY <1>3 DEF T
<1>5. \A y \in S : n - x <= n - y
  BY <1>3, <1>4 DEF T
<1> QED
  BY <1>5

\* What comes earlier among the wanted than a member of the page is on the page.
LEMMA PageIsPrefix ==
  ASSUME NEW S \in SUBSET Nat, IsFiniteSet(S), NEW n \in Nat, NEW i \in S, NEW j \in S,
         Cardinality({ k \in S : k < i }) < n, ~(Cardinality({ k \in S : k < j }) < n)
  PROVE  i < j
<1> SUFFICES ASSUME j <= i PROVE FALSE
  OBVIOUS
<1> DEFINE A == { k \in S : k < i }
           B == { k \in S : k < j }
<1>0. \A k \in S : k < j => k < i
  OBVIOUS
<1>1. B \subseteq A /\ A \subseteq S
  BY <1>0
<1>2. IsFiniteSet(A) /\ IsFiniteSet(B)
  BY <1>1, FS_Subset
<1>3. Cardinality(B) <= Cardinality(A) /\ Cardinality(A) \in Nat /\ Cardinality(B) \in Nat
  BY <1>1, <1>2, FS_Subset, FS_CardinalityType
<1> QED
  BY <1>3

(***************************************************************************)
(* The reminders of the multisig watcher                                   *)
(***************************************************************************)
LEMMA MultisigMoves == [Next]_vars => Mu!MultisigNext \/ UNCHANGED multisigState
  BY DEF Next, Frame, vars

\* What a pass holds at each await.
PassInv(p) ==
  /\ poll[p] \in { "idle", "find", "update", "notify", "record" }
  /\ poll[p] \notin { "notify", "record" } => told[p] = {}
  /\ poll[p] \in { "update", "notify", "record" } => heldList[p] = notified
  /\ poll[p] = "notify" => toNotify[p] \subseteq (Cosigners \ notified) \ told[p]

\* While passes neither overlap nor break, one is under way at most, and who was
\* reminded is in the row or in the hands of that pass.
AlonePass ==
  /\ \A p, q \in Passes : poll[p] # "idle" /\ poll[q] # "idle" => p = q
  /\ \A p \in Passes : PassInv(p)
  /\ \A s \in Cosigners : reminders[s] # 0 => s \in notified \/ \E p \in Passes : s \in told[p]
  /\ \A s \in Cosigners : reminders[s] <= 1

MultisigInv ==
  /\ disturbed \in BOOLEAN /\ reminders \in [Cosigners -> Nat]
  /\ DOMAIN poll = Passes /\ DOMAIN told = Passes /\ DOMAIN toNotify = Passes
  /\ DOMAIN heldList = Passes
  /\ ~disturbed => AlonePass

LEMMA MultisigFirst == Init => MultisigInv
<1> SUFFICES ASSUME Mu!MultisigInit PROVE MultisigInv
  BY DEF Init
<1> USE DEF Mu!MultisigInit
<1>1. \A p \in Passes : PassInv(p) /\ poll[p] = "idle"
  BY DEF PassInv
<1>2. reminders \in [Cosigners -> Nat] /\ \A s \in Cosigners : reminders[s] = 0
  OBVIOUS
<1>3. AlonePass
  BY <1>1, <1>2 DEF AlonePass
<1> QED
  BY <1>2, <1>3 DEF MultisigInv

LEMMA MultisigStep == MultisigInv /\ [Next]_vars => MultisigInv'
<1> SUFFICES ASSUME MultisigInv, [Next]_vars PROVE MultisigInv'
  OBVIOUS
<1> USE DEF Mu!rowVars, Mu!heldVars, Mu!PollGoto, Mu!EndPass
<1>1. CASE UNCHANGED multisigState
  BY <1>1 DEF multisigState, MultisigInv, AlonePass, PassInv
<1>2. ASSUME NEW S, Mu!Track(S) PROVE MultisigInv'
  BY <1>2 DEF Mu!Track, MultisigInv, AlonePass, PassInv
<1>3. ASSUME NEW p \in Passes, Mu!LoadPending(p) PROVE MultisigInv'
  BY <1>3 DEF Mu!LoadPending, MultisigInv, AlonePass, PassInv
<1>4. ASSUME NEW p \in Passes, Mu!FindNotified(p) PROVE MultisigInv'
  BY <1>4 DEF Mu!FindNotified, MultisigInv, AlonePass, PassInv
<1>5. ASSUME NEW p \in Passes, Mu!UpdateProgress(p) PROVE MultisigInv'
  BY <1>5 DEF Mu!UpdateProgress, MultisigInv, AlonePass, PassInv
<1>6. ASSUME NEW p \in Passes, Mu!Notify(p) PROVE MultisigInv'
  <2>0. DOMAIN poll = Passes /\ DOMAIN told = Passes /\ DOMAIN toNotify = Passes
        /\ reminders \in [Cosigners -> Nat] /\ disturbed \in BOOLEAN
    BY DEF MultisigInv
  <2>1. PICK s \in toNotify[p] :
          /\ toNotify' = [toNotify EXCEPT ![p] = @ \ {s}]
          /\ told' = [told EXCEPT ![p] = @ \cup {s}]
          /\ reminders' = [reminders EXCEPT ![s] = IF @ < 2 THEN @ + 1 ELSE @]
          /\ poll' = [poll EXCEPT ![p] = IF toNotify[p] = {s} THEN "record" ELSE "notify"]
    BY <1>6 DEF Mu!Notify
  <2>2. /\ notified' = notified /\ heldList' = heldList /\ disturbed' = disturbed /\ poll[p] = "notify"
    BY <1>6 DEF Mu!Notify
  <2>3. reminders' \in [Cosigners -> Nat]
    <3>1. \A t \in Cosigners : reminders'[t] \in Nat
      BY <2>0, <2>1
    <3> QED
      BY <2>0, <2>1, <3>1
  <2>4. ASSUME ~disturbed PROVE AlonePass'
    <3>0. AlonePass
      BY <2>4 DEF MultisigInv
    <3>1. /\ s \in Cosigners \ notified /\ s \notin told[p] /\ \A q \in Passes \ {p} : poll[q] = "idle"
          /\ heldList[p] = notified
      BY <2>1, <2>2, <3>0 DEF AlonePass, PassInv
    <3>2. \A q \in Passes \ {p} : told[q] = {}
      BY <3>0, <3>1 DEF AlonePass, PassInv
    <3>3. reminders[s] = 0
      BY <3>0, <3>1, <3>2 DEF AlonePass
    <3>4. \A t \in Cosigners : reminders'[t] = IF t = s THEN 1 ELSE reminders[t]
      BY <2>0, <2>1, <3>1, <3>3
    <3>5. \A q \in Passes : PassInv(q)'
      BY <2>0, <2>1, <2>2, <3>0, <3>1 DEF AlonePass, PassInv
    <3>6. \A q, r \in Passes : poll'[q] # "idle" /\ poll'[r] # "idle" => q = r
      BY <2>0, <2>1, <3>1
    <3>7. \A t \in Cosigners : reminders'[t] # 0 => t \in notified' \/ \E q \in Passes : t \in told'[q]
      BY <2>0, <2>1, <2>2, <3>0, <3>4 DEF AlonePass
    <3> QED
      BY <3>0, <3>4, <3>5, <3>6, <3>7 DEF AlonePass
  <2> QED
    BY <1>6, <2>0, <2>1, <2>2, <2>3, <2>4 DEF MultisigInv
<1>7. ASSUME NEW p \in Passes, Mu!RecordNotified(p) PROVE MultisigInv'
  BY <1>7 DEF Mu!RecordNotified, MultisigInv, AlonePass, PassInv
<1>8. ASSUME NEW p \in Passes, Mu!PassBreaks(p) PROVE MultisigInv'
  BY <1>8 DEF Mu!PassBreaks, MultisigInv, AlonePass, PassInv
<1> QED
  BY <1>1, <1>2, <1>3, <1>4, <1>5, <1>6, <1>7, <1>8, MultisigMoves DEF Mu!MultisigNext, Mu!PollStep

(***************************************************************************)
(* The index of Soroban topics                                             *)
(***************************************************************************)
LEMMA SorobanMoves == [Next]_vars => So!SorobanNext \/ UNCHANGED sorobanState
  BY DEF Next, Frame, vars

\* The decodable events of these ledgers are stored, or their ledger was cut.
Indexed(lo, hi) ==
  \A i \in 1..Len(Log) :
    Log[i].ok /\ lo <= Log[i].ledger /\ Log[i].ledger <= hi =>
      << Log[i].ledger, Log[i].hash >> \in rows \/ Log[i].ledger \in cut

\* A pass that continues the checkpoint has stored what lies before its next page.
PassTypes ==
  /\ start \in 1..(Tip + 1) /\ from \in Nat /\ start <= from
  /\ reached \in 0..Tip /\ start <= reached + 1 /\ reached < from
  /\ end \in 1..Tip
  /\ cursor # Tip + 1 => start = cursor + 1
SorobanInv ==
  /\ latest \in 1..Tip /\ cursor \in 0..(Tip + 1) /\ first \in Nat
  /\ pass \in { "idle", "page", "cursor" }
  /\ pass # "idle" => PassTypes /\ Indexed(start, from - 1)
  /\ cursor # Tip + 1 => Indexed(first, cursor)

LEMMA SorobanFirst == Init => SorobanInv
  BY SorobanOK DEF Init, So!SorobanInit, So!NoCursor, SorobanInv

LEMMA LogFacts ==
  /\ Len(Log) \in Nat /\ DOMAIN Log = 1..Len(Log) /\ Tip \in Nat /\ PageSize \in Nat
  /\ \A i \in 1..Len(Log) : Log[i].ledger \in 1..Tip
<1>1. Len(Log) \in Nat /\ DOMAIN Log = 1..Len(Log) /\ Tip \in Nat /\ PageSize \in Nat
  BY SorobanOK
<1>2. \A i \in 1..Len(Log) : Log[i] \in [ledger : 1..Tip, hash : STRING, ok : BOOLEAN]
  BY SorobanOK, ElementOfSeq
<1> QED
  BY <1>1, <1>2

\* Max is a bound that is met, in a set of ledgers.
LEMMA MaxLedger ==
  ASSUME NEW S \in SUBSET Nat, S # {}, NEW n \in Nat, \A x \in S : x <= n
  PROVE  So!Max(S) \in S /\ \A x \in S : x <= So!Max(S)
<1>1. \E x \in S : \A y \in S : x >= y
  BY GreatestExists
<1>2. So!Max(S) \in S /\ \A y \in S : So!Max(S) >= y
  BY <1>1 DEF So!Max
<1> QED
  BY <1>2

\* Storing a page leaves nothing out up to its last ledger.
LEMMA PageIndexed ==
  ASSUME SorobanInv, So!IndexPage
  PROVE  SorobanInv'
<1> DEFINE good == { i \in So!Page : Log[i].ok }
           newest == So!Max(So!LedgersOf(So!Page))
<1>0. /\ pass = "page" /\ So!Page # {} /\ PassTypes /\ Indexed(start, from - 1)
      /\ latest' = latest /\ cursor' = cursor /\ end' = end /\ start' = start /\ first' = first
      /\ rows' = rows \cup { << Log[i].ledger, Log[i].hash >> : i \in good }
      /\ reached' = So!Max({reached} \cup So!LedgersOf(good))
      /\ from' = newest + 1 /\ pass' \in { "page", "cursor" }
      /\ cut \subseteq cut'
      /\ newest \in So!LedgersOf(So!Wanted \ So!Page) => newest \in cut'
  BY DEF So!IndexPage, SorobanInv
<1>1. So!Wanted \subseteq 1..Len(Log) /\ So!Page \subseteq So!Wanted
      /\ \A i \in 1..Len(Log) : i \in So!Wanted <=> from <= Log[i].ledger /\ Log[i].ledger <= end
  BY LogFacts, <1>0 DEF So!Wanted, So!Page, PassTypes
<1>2. \A i \in So!Page : from <= Log[i].ledger /\ Log[i].ledger <= end /\ Log[i].ledger \in 1..Tip
  BY <1>1, LogFacts
<1>3. newest \in So!LedgersOf(So!Page) /\ \A i \in So!Page : Log[i].ledger <= newest
  <2>1. So!LedgersOf(So!Page) \in SUBSET Nat /\ So!LedgersOf(So!Page) # {}
        /\ \A x \in So!LedgersOf(So!Page) : x <= Tip
    BY <1>0, <1>2, LogFacts DEF So!LedgersOf
  <2>2. newest \in So!LedgersOf(So!Page) /\ \A x \in So!LedgersOf(So!Page) : x <= newest
    BY <2>1, LogFacts, MaxLedger
  <2> QED
    BY <2>2 DEF So!LedgersOf
<1>4. newest \in 1..Tip /\ from <= newest /\ newest <= end
  BY <1>2, <1>3 DEF So!LedgersOf
<1>5. /\ reached' \in {reached} \cup So!LedgersOf(good) /\ reached <= reached'
  <2>1. {reached} \cup So!LedgersOf(good) \in SUBSET Nat
        /\ \A x \in {reached} \cup So!LedgersOf(good) : x <= Tip
    BY <1>0, <1>2, LogFacts DEF So!LedgersOf, PassTypes
  <2> QED
    BY <1>0, <2>1, LogFacts, MaxLedger
<1> HIDE DEF good, newest
<1>6. reached' \in 0..Tip /\ reached' <= newest /\ start <= reached' + 1
  <2>1. reached \in 0..Tip /\ reached < from /\ start <= reached + 1 /\ start \in Nat /\ from \in Nat /\ Tip \in Nat
    BY <1>0, LogFacts DEF PassTypes
  <2>2. CASE reached' = reached
    BY <1>4, <2>1, <2>2
  <2>3. CASE reached' \in So!LedgersOf(good)
    <3>1. PICK i \in good : reached' = Log[i].ledger
      BY <2>3 DEF So!LedgersOf
    <3>2. reached' \in 1..Tip /\ reached' <= newest
      BY <1>2, <1>3, <3>1 DEF good
    <3>3. reached' \in Nat /\ reached \in Nat /\ start \in Nat /\ start <= reached + 1
      BY <2>1, <3>2
    <3>4. start <= reached' + 1
      <4>1. reached <= reached'
        BY <1>5
      <4>2. \A a, b, c \in Nat : c <= a + 1 /\ a <= b => c <= b + 1
        OBVIOUS
      <4> QED
        BY <3>3, <4>1, <4>2
    <3>5. reached' \in 0..Tip
      BY <2>1, <3>2
    <3> QED
      BY <3>2, <3>4, <3>5
  <2> QED
    BY <1>5, <2>2, <2>3
<1>7. \A i \in So!Wanted \ So!Page : newest <= Log[i].ledger
  <2> SUFFICES ASSUME NEW i \in So!Wanted \ So!Page PROVE newest <= Log[i].ledger
    OBVIOUS
  <2>1. PICK j \in So!Page : newest = Log[j].ledger
    BY <1>3 DEF So!LedgersOf
  <2>2. /\ So!Cardinality({ k \in So!Wanted : k < j }) < PageSize
        /\ ~(So!Cardinality({ k \in So!Wanted : k < i }) < PageSize)
    BY DEF So!Page
  <2>3. So!Wanted \in SUBSET Nat /\ IsFiniteSet(So!Wanted) /\ i \in So!Wanted /\ j \in So!Wanted
    <3>1. IsFiniteSet(1..Len(Log))
      BY LogFacts, FS_Interval
    <3>2. IsFiniteSet(So!Wanted)
      BY <1>1, <3>1, FS_Subset
    <3>3. 1..Len(Log) \subseteq Nat
      BY LogFacts
    <3> QED
      BY <1>1, <3>2, <3>3
  <2>4. /\ Cardinality({ k \in So!Wanted : k < j }) < PageSize
        /\ ~(Cardinality({ k \in So!Wanted : k < i }) < PageSize)
    BY <2>2 DEF So!Cardinality, Cardinality
  <2>5. j < i
    BY <2>3, <2>4, LogFacts, PageIsPrefix
  <2>6. Log[j].ledger <= Log[i].ledger
    <3>1. i \in 1..Len(Log) /\ j \in 1..Len(Log)
      BY <1>1, <2>3
    <3> QED
      BY <2>5, <3>1, LogFacts, SorobanOK
  <2> QED
    BY <2>1, <2>6
<1>8. Indexed(start, from - 1)' /\ (cursor # Tip + 1 => Indexed(first, cursor)')
  <2>1. ASSUME NEW i \in 1..Len(Log), Log[i].ok, start <= Log[i].ledger, Log[i].ledger <= newest
        PROVE  << Log[i].ledger, Log[i].hash >> \in rows' \/ Log[i].ledger \in cut'
    <3>0. Log[i].ledger \in Nat /\ from \in Nat
      BY <1>0, LogFacts DEF PassTypes
    <3>1. CASE Log[i].ledger <= from - 1
      BY <1>0, <2>1, <3>1 DEF Indexed
    <3>2. CASE i \in So!Page
      BY <1>0, <2>1, <3>2 DEF good
    <3>3. CASE from <= Log[i].ledger /\ i \notin So!Page
      <4>1. i \in So!Wanted
        BY <1>0, <1>1, <1>4, <2>1, <3>0, <3>3 DEF PassTypes
      <4>2. Log[i].ledger = newest
        BY <1>4, <1>7, <2>1, <3>0, <3>3, <4>1
      <4> QED
        BY <1>0, <3>3, <4>1, <4>2 DEF So!LedgersOf
    <3> QED
      BY <3>0, <3>1, <3>2, <3>3
  <2>2. cursor # Tip + 1 => Indexed(first, cursor)'
    BY <1>0 DEF SorobanInv, Indexed
  <2> QED
    BY <1>0, <1>4, <2>1, <2>2 DEF Indexed
<1>9. PassTypes'
  BY <1>0, <1>4, <1>6 DEF PassTypes
<1> QED
  BY <1>0, <1>8, <1>9 DEF SorobanInv

LEMMA SorobanStep == SorobanInv /\ [Next]_vars => SorobanInv'
<1> SUFFICES ASSUME SorobanInv, [Next]_vars PROVE SorobanInv'
  OBVIOUS
<1> USE SorobanOK DEF So!NoCursor
<1>1. CASE UNCHANGED sorobanState
  BY <1>1 DEF sorobanState, SorobanInv, PassTypes, Indexed
<1>2. CASE So!LedgerCloses
  BY <1>2 DEF So!LedgerCloses, SorobanInv, PassTypes, Indexed
<1>3. ASSUME NEW seen \in 1..latest, So!StartPass(seen) PROVE SorobanInv'
  <2>1. So!StartLedger(seen) \in 1..(Tip + 1) /\ (cursor # Tip + 1 => So!StartLedger(seen) = cursor + 1)
    <3>1. CASE cursor # Tip + 1
      <4>1. So!StartLedger(seen) = cursor + 1
        BY <3>1 DEF So!StartLedger
      <4>2. cursor \in 0..Tip
        BY <3>1 DEF SorobanInv
      <4> QED
        BY <4>1, <4>2
    <3>2. CASE cursor = Tip + 1
      <4>1. So!StartLedger(seen) = IF seen > BackfillWindow THEN seen - BackfillWindow + 1 ELSE 1
        BY <3>2 DEF So!StartLedger
      <4>2. seen \in 1..Tip
        BY DEF SorobanInv
      <4> QED
        BY <3>2, <4>1, <4>2
    <3> QED
      BY <3>1, <3>2
  <2>2. /\ start' = So!StartLedger(seen) /\ from' = start' /\ reached' = start' - 1 /\ end' = seen
        /\ pass' = "page" /\ UNCHANGED << latest, cursor, rows, first, cut >>
    BY <1>3 DEF So!StartPass
  <2>3. PassTypes'
    BY <2>1, <2>2 DEF SorobanInv, PassTypes
  <2>4. Indexed(start', from' - 1)
    BY <2>1, <2>2, LogFacts DEF Indexed
  <2>5. Indexed(start, from - 1)' /\ (cursor # Tip + 1 => Indexed(first, cursor)')
    BY <2>2, <2>4 DEF SorobanInv, Indexed
  <2> QED
    BY <2>2, <2>3, <2>5 DEF SorobanInv
<1>4. CASE So!EndOfPages \/ So!PassFails
  BY <1>4 DEF So!EndOfPages, So!PassFails, SorobanInv, PassTypes, Indexed
<1>5. CASE So!SetCursor
  <2>1. /\ PassTypes /\ Indexed(start, from - 1) /\ cursor' = reached /\ pass' = "idle"
        /\ first' = (IF cursor = Tip + 1 THEN start ELSE first)
        /\ rows' = rows /\ cut' = cut /\ latest' = latest
    BY <1>5 DEF So!SetCursor, SorobanInv
  <2>2. Indexed(start, reached)
    BY <2>1, LogFacts DEF PassTypes, Indexed
  <2>3. Indexed(first', reached)
    BY <2>1, <2>2, LogFacts DEF SorobanInv, PassTypes, Indexed
  <2> QED
    BY <2>1, <2>3 DEF SorobanInv, PassTypes, Indexed
<1> QED
  BY <1>1, <1>2, <1>3, <1>4, <1>5, PageIndexed, SorobanMoves DEF So!SorobanNext

LEMMA SorobanSuffices == SorobanInv => So!CheckpointCovers
  BY LogFacts DEF SorobanInv, Indexed, So!CheckpointCovers, So!NoCursor

(***************************************************************************)
(* The watchers of contract events                                         *)
(***************************************************************************)
LEMMA EventsMove == [Next]_vars => Ew!EventWatchersNext \/ UNCHANGED eventsState
  BY DEF Next, Frame, vars

Ids == 1..Len(Watched)
AlertType == Ids \X {1, 2}

WatchTypes ==
  /\ watcher \in { "allowance", "staking" } /\ closed \in Nat
  /\ snapshots \subseteq AlertType /\ detected \subseteq AlertType
  /\ polling \in [Polls -> { "idle", "fetch", "create", "notify" }]
  /\ firstLedger \in [Polls -> Nat] /\ todo \in [Polls -> SUBSET AlertType]
  /\ DOMAIN asOf = Polls
  /\ tally \in [Ids -> Nat] /\ noticed \in [AlertType -> Nat] /\ overlapping \in BOOLEAN
  /\ \A p \in Polls : polling[p] \in { "idle", "fetch" } <=> todo[p] = {}

\* A row decides who notifies: the alert that created a row was told, has failed, or
\* is in the hands of one poll.
NoticeInv ==
  /\ \A a \in AlertType : noticed[a] <= 1 /\ (noticed[a] = 1 => a \in snapshots)
  /\ \A p \in Polls : polling[p] = "notify" =>
       Ew!NextAlert(p) \in snapshots /\ noticed[Ew!NextAlert(p)] = 0
  /\ \A p, q \in Polls :
       polling[p] = "notify" /\ polling[q] = "notify" /\ Ew!NextAlert(p) = Ew!NextAlert(q) => p = q
  /\ \A a \in snapshots : noticed[a] = 1 \/ a \in missed
                          \/ \E p \in Polls : polling[p] = "notify" /\ Ew!NextAlert(p) = a

\* Nothing notable lies below a row, below the start of a poll or below one of its
\* alerts that is not told, missed, eclipsed or still to do; nor is any alert that a
\* poll had to do.
Told(a) == noticed[a] = 1 \/ a \in missed \/ Ew!Eclipsed(a) \/ \E p \in Polls : a \in todo[p]
Notable(e) == watcher = "staking" \/ Watched[e].high
ToldUpTo(l) == \A e \in Ids : Notable(e) /\ Watched[e].ledger <= l => Told(<< e, 1 >>)
TellInv ==
  /\ \A s \in snapshots : ToldUpTo(Watched[s[1]].ledger)
  /\ \A p \in Polls : polling[p] # "idle" => \A e \in Ids :
       Notable(e) /\ Watched[e].ledger < firstLedger[p] => Told(<< e, 1 >>)
  /\ \A p \in Polls : \A a \in todo[p] : ToldUpTo(Watched[a[1]].ledger)
  /\ \A a \in detected : Told(a)

\* While polls do not overlap, what a poll is about to fetch has no row of its watcher.
Counted(e) == Ew!Taken(e) \/ << e, 1 >> \in missed \/ \E p \in Polls : << e, 1 >> \in todo[p]
CountInv ==
  ~overlapping =>
    /\ \A p, q \in Polls : polling[p] # "idle" /\ polling[q] # "idle" => p = q
    /\ \A p \in Polls : polling[p] = "fetch" => \A s \in snapshots : Watched[s[1]].ledger < firstLedger[p]
    /\ \A e \in Ids : tally[e] # 0 => Counted(e)
    /\ \A e \in Ids : tally[e] > 1 => << e, 1 >> \in missed \/ Ew!RowOf(e) \in foreign

WatchInv == WatchTypes /\ NoticeInv /\ TellInv /\ CountInv

LEMMA WatchedFacts ==
  /\ Len(Watched) \in Nat /\ Ids \subseteq Nat /\ EventPage \in Nat /\ Lookback \in Nat
  /\ \A e \in Ids : Watched[e].ledger \in Nat
  /\ \A d, e \in Ids : d <= e => Watched[d].ledger <= Watched[e].ledger
  /\ Ew!EventIds = Ids /\ Ew!EventAlerts = AlertType
<1>1. Len(Watched) \in Nat /\ EventPage \in Nat /\ Lookback \in Nat
  BY WatchedOK
<1>2. \A e \in Ids : Watched[e] \in [ledger : Nat, paid : STRING, high : BOOLEAN, until : Nat]
  BY WatchedOK, ElementOfSeq DEF Ids
<1> QED
  BY <1>1, <1>2, WatchedOK DEF Ids, Ew!EventIds, AlertType, Ew!EventAlerts

\* The earliest of some alerts is one of them.
LEMMA EarliestIn ==
  ASSUME NEW S \in SUBSET AlertType, S # {} PROVE Ew!Earliest(S) \in S /\ Ew!Earliest(S)[1] \in Ids
<1> DEFINE E == { a[1] : a \in S }
<1>1. \A a \in S : a[1] \in Ids /\ a[1] \in Nat /\ a[2] \in {1, 2}
  BY WatchedFacts DEF AlertType
<1>2. PICK e \in E : \A d \in E : e <= d
  <2>1. E \in SUBSET Nat /\ E # {}
    BY <1>1
  <2> QED
    BY <2>1, LeastExists
<1>3. \E a \in S : a[1] = e /\ \A b \in S : b[1] = e => a[2] <= b[2]
  <2>1. CASE \E a \in S : a[1] = e /\ a[2] = 1
    BY <1>1, <2>1
  <2>2. CASE ~\E a \in S : a[1] = e /\ a[2] = 1
    BY <1>1, <1>2, <2>2
  <2> QED
    BY <2>1, <2>2
<1>4. PICK a \in S : a[1] = e /\ \A b \in S : b[1] = e => a[2] <= b[2]
  BY <1>3
<1>5. \A b \in S : a[1] < b[1] \/ (a[1] = b[1] /\ a[2] <= b[2])
  <2> SUFFICES ASSUME NEW b \in S PROVE a[1] < b[1] \/ (a[1] = b[1] /\ a[2] <= b[2])
    OBVIOUS
  <2>1. e <= b[1] /\ e \in Nat /\ b[1] \in Nat
    BY <1>1, <1>2
  <2> QED
    BY <1>4, <2>1
<1>6. Ew!Earliest(S) \in S
  BY <1>5 DEF Ew!Earliest
<1> QED
  BY <1>1, <1>6

LEMMA MaxWatched ==
  ASSUME NEW S \in SUBSET Ids, S # {}
  PROVE  \E s \in S : Ew!Max(Ew!Ledgers(S)) = Watched[s].ledger
                      /\ \A e \in S : Watched[e].ledger <= Watched[s].ledger
<1> DEFINE L == Ew!Ledgers(S)
<1>1. PICK last \in S : \A e \in S : last >= e
  <2>1. S \in SUBSET Nat /\ Len(Watched) \in Nat /\ \A e \in S : e <= Len(Watched)
    BY WatchedFacts DEF Ids
  <2> QED
    BY <2>1, GreatestExists
<1>2. \A e \in S : Watched[e].ledger <= Watched[last].ledger /\ Watched[e].ledger \in Nat
  BY <1>1, WatchedFacts
<1>3. Watched[last].ledger \in L /\ \A x \in L : Watched[last].ledger >= x /\ x \in Nat
  BY <1>2 DEF Ew!Ledgers
<1>4. Ew!Max(L) \in L /\ \A x \in L : Ew!Max(L) >= x
  BY <1>3 DEF Ew!Max
<1> HIDE DEF L
<1>5. Ew!Max(L) = Watched[last].ledger
  BY <1>3, <1>4
<1> QED
  BY <1>2, <1>5 DEF L

LEMMA WatchFirst == Init => WatchInv
<1> SUFFICES ASSUME Ew!EventWatchersInit PROVE WatchInv
  BY DEF Init
<1> USE WatchedFacts DEF Ew!EventWatchersInit
<1>1. WatchTypes
  BY DEF WatchTypes
<1>2. NoticeInv
  BY DEF NoticeInv
<1>3. TellInv
  BY DEF TellInv
<1>4. CountInv
  BY DEF CountInv
<1> QED
  BY <1>1, <1>2, <1>3, <1>4 DEF WatchInv

\* Rows are not deleted: what is taken or eclipsed stays so.
LEMMA RowsStay ==
  ASSUME snapshots \subseteq snapshots', foreign \subseteq foreign'
  PROVE  /\ \A a : Ew!Eclipsed(a) => Ew!Eclipsed(a)'
         /\ \A e : Ew!Taken(e) => Ew!Taken(e)'
<1>1. \A d \in Ew!Stored : d \in Ew!Stored'
  BY DEF Ew!Stored
<1> QED
  BY <1>1 DEF Ew!Eclipsed, Ew!Taken

\* The start of a poll is above every row, and the first lookback counts what it
\* leaves out as missed.
LEMMA StartFacts ==
  ASSUME WatchTypes
  PROVE  /\ Ew!StartLedgerOf(closed) \in Nat
         /\ \A s \in snapshots : Watched[s[1]].ledger < Ew!StartLedgerOf(closed)
         /\ snapshots # {} => \E s \in snapshots : Ew!StartLedgerOf(closed) = Watched[s[1]].ledger + 1
<1>1. CASE snapshots = {}
  BY <1>1, WatchedFacts DEF WatchTypes, Ew!StartLedgerOf
<1>2. CASE snapshots # {}
  <2>0. Ew!Stored \in SUBSET Ids /\ Ew!Stored # {} /\ \A s \in snapshots : s[1] \in Ew!Stored
    BY <1>2 DEF WatchTypes, AlertType, Ew!Stored
  <2>1. PICK d \in Ew!Stored : /\ Ew!Max(Ew!Ledgers(Ew!Stored)) = Watched[d].ledger
                               /\ \A e \in Ew!Stored : Watched[e].ledger <= Watched[d].ledger
    BY <2>0, MaxWatched
  <2>2. Ew!StartLedgerOf(closed) = Watched[d].ledger + 1
    BY <1>2, <2>1 DEF Ew!StartLedgerOf
  <2>3. \A e \in Ew!Stored : Watched[e].ledger \in Nat
    BY <2>0, WatchedFacts
  <2>4. \E s \in snapshots : s[1] = d
    BY <2>1 DEF Ew!Stored
  <2> QED
    BY <2>0, <2>1, <2>2, <2>3, <2>4
<1> QED
  BY <1>1, <1>2

\* An alert that is done leaves the other alerts and polls as they were.
LEMMA DoneEffect ==
  ASSUME WatchTypes, NEW p \in Polls, polling[p] \in { "create", "notify" }, Ew!AlertDone(p)
  PROVE  /\ Ew!NextAlert(p) \in todo[p] /\ Ew!NextAlert(p) \in AlertType
         /\ todo' \in [Polls -> SUBSET AlertType]
         /\ polling' \in [Polls -> { "idle", "fetch", "create", "notify" }]
         /\ \A q \in Polls : polling'[q] \in { "idle", "fetch" } <=> todo'[q] = {}
         /\ polling'[p] \in { "idle", "create" } /\ todo'[p] \subseteq todo[p]
         /\ \A q \in Polls \ {p} : todo'[q] = todo[q] /\ polling'[q] = polling[q]
         /\ \A x \in todo[p] : x = Ew!NextAlert(p) \/ x \in todo'[p]
<1> DEFINE a == Ew!NextAlert(p)
<1>1. a \in todo[p] /\ a \in AlertType
  BY EarliestIn DEF WatchTypes, Ew!NextAlert
<1>2. /\ todo' = [todo EXCEPT ![p] = @ \ {a}]
      /\ polling' = [polling EXCEPT ![p] = IF todo[p] = {a} THEN "idle" ELSE "create"]
  BY DEF Ew!AlertDone
<1> HIDE DEF a
<1>3. /\ todo'[p] = todo[p] \ {a} /\ polling'[p] = (IF todo[p] = {a} THEN "idle" ELSE "create")
      /\ \A q \in Polls \ {p} : todo'[q] = todo[q] /\ polling'[q] = polling[q]
  BY <1>2 DEF WatchTypes
<1>4. todo' \in [Polls -> SUBSET AlertType] /\ polling' \in [Polls -> { "idle", "fetch", "create", "notify" }]
  BY <1>2 DEF WatchTypes
<1>5. \A q \in Polls : polling'[q] \in { "idle", "fetch" } <=> todo'[q] = {}
  BY <1>1, <1>3 DEF WatchTypes
<1> QED
  BY <1>1, <1>3, <1>4, <1>5 DEF a

\* The polls that do not move keep their next alert.
LEMMA OthersKeep ==
  ASSUME NEW q, todo'[q] = todo[q]
  PROVE  Ew!NextAlert(q)' = Ew!NextAlert(q)
  BY DEF Ew!NextAlert

\* A poll begins above the rows.
LEMMA BeginKeepsWatch ==
  ASSUME WatchInv, NEW p \in Polls, Ew!BeginPoll(p) PROVE WatchInv'
<1> DEFINE l == Ew!StartLedgerOf(closed)
<1>0. WatchTypes /\ NoticeInv /\ TellInv /\ CountInv
  BY DEF WatchInv
<1>1. /\ l \in Nat /\ \A s \in snapshots : Watched[s[1]].ledger < l
      /\ snapshots # {} => \E s \in snapshots : l = Watched[s[1]].ledger + 1
  BY <1>0, StartFacts
<1>2. /\ polling[p] = "idle" /\ polling' = [polling EXCEPT ![p] = "fetch"]
      /\ firstLedger' = [firstLedger EXCEPT ![p] = l] /\ asOf' = [asOf EXCEPT ![p] = closed]
      /\ overlapping' = (overlapping \/ \E q \in Polls : polling[q] # "idle")
      /\ missed' = missed \cup { a \in AlertType : snapshots = {} /\ Watched[a[1]].ledger < l }
      /\ UNCHANGED << watcher, closed, snapshots, foreign, todo, tally, noticed, detected >>
  BY WatchedFacts DEF Ew!BeginPoll
<1> HIDE DEF l
<1>3. \A q \in Polls : Ew!NextAlert(q)' = Ew!NextAlert(q)
  BY <1>2, OthersKeep
<1>a. /\ \A a : Ew!Eclipsed(a) => Ew!Eclipsed(a)'
      /\ \A e : Ew!Taken(e) => Ew!Taken(e)'
  BY <1>2, RowsStay
<1>4. WatchTypes'
  BY <1>0, <1>1, <1>2 DEF WatchTypes
<1>5. \A q \in Polls : polling'[q] = IF q = p THEN "fetch" ELSE polling[q]
  BY <1>0, <1>2 DEF WatchTypes
<1>6. NoticeInv'
  BY <1>0, <1>2, <1>3, <1>5 DEF NoticeInv
<1>7. \A a : Told(a) => Told(a)'
  BY <1>2, <1>a DEF Told
<1>8. \A e \in Ids : Notable(e)' = Notable(e)
  BY <1>2 DEF Notable
<1>9. \A e \in Ids : Notable(e) /\ Watched[e].ledger < l => Told(<< e, 1 >>)'
  <2> SUFFICES ASSUME NEW e \in Ids, Notable(e), Watched[e].ledger < l PROVE Told(<< e, 1 >>)'
    OBVIOUS
  <2>1. CASE snapshots = {}
    <3>1. << e, 1 >> \in AlertType /\ << e, 1 >>[1] = e
      BY DEF AlertType
    <3>2. << e, 1 >> \in missed'
      BY <1>2, <2>1, <3>1
    <3> QED
      BY <3>2 DEF Told
  <2>2. CASE snapshots # {}
    <3>1. PICK s \in snapshots : l = Watched[s[1]].ledger + 1
      BY <1>1, <2>2
    <3>2. s[1] \in Ids
      BY <1>0, <3>1 DEF WatchTypes, AlertType
    <3>3. Watched[e].ledger \in Nat /\ Watched[s[1]].ledger \in Nat
      BY <3>2, WatchedFacts
    <3>4. Watched[e].ledger <= Watched[s[1]].ledger
      BY <3>1, <3>3
    <3> QED
      BY <1>0, <1>7, <3>1, <3>4 DEF TellInv, ToldUpTo
  <2> QED
    BY <2>1, <2>2
<1>10. \A q \in Polls : firstLedger'[q] = IF q = p THEN l ELSE firstLedger[q]
  BY <1>0, <1>2 DEF WatchTypes
<1>11. TellInv'
  <2>1. \A s \in snapshots' : ToldUpTo(Watched[s[1]].ledger)'
    BY <1>0, <1>2, <1>7, <1>8 DEF TellInv, ToldUpTo
  <2>2. \A q \in Polls : polling'[q] # "idle" => \A e \in Ids :
          Notable(e)' /\ Watched[e].ledger < firstLedger'[q] => Told(<< e, 1 >>)'
    BY <1>0, <1>5, <1>7, <1>8, <1>9, <1>10 DEF TellInv
  <2>3. \A q \in Polls : \A a \in todo'[q] : ToldUpTo(Watched[a[1]].ledger)'
    BY <1>0, <1>2, <1>7, <1>8 DEF TellInv, ToldUpTo
  <2>4. \A a \in detected' : Told(a)'
    BY <1>0, <1>2, <1>7 DEF TellInv
  <2> QED
    BY <2>1, <2>2, <2>3, <2>4 DEF TellInv
<1>12. CountInv'
  <2> SUFFICES ASSUME ~overlapping'
               PROVE  /\ \A q, r \in Polls : polling'[q] # "idle" /\ polling'[r] # "idle" => q = r
                      /\ \A q \in Polls : polling'[q] = "fetch" => \A s \in snapshots' : Watched[s[1]].ledger < firstLedger'[q]
                      /\ \A e \in Ids : tally'[e] # 0 => Counted(e)'
                      /\ \A e \in Ids : tally'[e] > 1 => << e, 1 >> \in missed' \/ Ew!RowOf(e) \in foreign'
    BY DEF CountInv
  <2>1. ~overlapping /\ \A q \in Polls : polling[q] = "idle"
    BY <1>2
  <2>2. \A e \in Ids : tally'[e] # 0 => Counted(e)'
    BY <1>0, <1>2, <1>a, <2>1 DEF CountInv, Counted
  <2> QED
    BY <1>0, <1>1, <1>2, <1>5, <1>10, <2>1, <2>2 DEF CountInv
<1> QED
  BY <1>4, <1>6, <1>11, <1>12 DEF WatchInv

\* Up to the last ledger of a page, what is not on the page was cut off.
LEMMA PageCovers ==
  ASSUME WatchTypes, NEW p \in Polls, NEW d \in Ew!PageOf(p), NEW e \in Ids \ Ew!PageOf(p),
         firstLedger[p] <= Watched[e].ledger, Watched[e].ledger <= Watched[d].ledger
  PROVE  e \in Ew!CutOff(p)
<1> DEFINE F == Ew!Fetched(p)
           G == Ew!PageOf(p)
<1>0. firstLedger[p] \in Nat /\ closed \in Nat
  BY DEF WatchTypes
<1>1. F \subseteq Ids /\ G \subseteq F /\ \A x \in F : firstLedger[p] <= Watched[x].ledger /\ Watched[x].ledger <= closed
  BY WatchedFacts DEF Ew!Fetched, Ew!PageOf
<1>2. Watched[e].ledger \in Nat /\ Watched[d].ledger \in Nat /\ d \in Ids
  BY <1>1, WatchedFacts
<1>3. e \in F
  <2>1. Watched[e].ledger <= closed
    BY <1>0, <1>1, <1>2
  <2> QED
    BY <1>0, <1>2, <2>1, WatchedFacts DEF Ew!Fetched
<1>4. F \in SUBSET Nat /\ IsFiniteSet(F)
  <2>1. IsFiniteSet(Ids)
    BY WatchedFacts, FS_Interval DEF Ids
  <2> QED
    BY <1>1, <2>1, WatchedFacts, FS_Subset
<1>5. PICK last \in G : /\ Ew!Max(Ew!Ledgers(G)) = Watched[last].ledger
                        /\ \A x \in G : Watched[x].ledger <= Watched[last].ledger
  <2>1. G \in SUBSET Ids /\ G # {}
    BY <1>1
  <2> QED
    BY <2>1, MaxWatched
<1>6. last < e
  <2>1. /\ Ew!Cardinality({ k \in F : k < last }) < EventPage
        /\ ~(Ew!Cardinality({ k \in F : k < e }) < EventPage)
    BY <1>3, <1>5 DEF Ew!PageOf
  <2>2. /\ Cardinality({ k \in F : k < last }) < EventPage
        /\ ~(Cardinality({ k \in F : k < e }) < EventPage)
    BY <2>1 DEF Ew!Cardinality, Cardinality
  <2>3. last \in F
    BY <1>1, <1>5
  <2> HIDE DEF F
  <2> QED
    BY <1>3, <1>4, <2>2, <2>3, WatchedFacts, PageIsPrefix
<1>7. Watched[last].ledger <= Watched[e].ledger /\ Watched[last].ledger \in Nat
  <2>1. last \in Ids /\ e \in Ids /\ last <= e
    <3>1. last \in Ids /\ e \in Ids
      BY <1>1, <1>5
    <3>2. last \in Nat /\ e \in Nat
      BY <3>1, WatchedFacts
    <3> QED
      BY <1>6, <3>1, <3>2
  <2> QED
    BY <2>1, WatchedFacts
<1>8. Watched[e].ledger = Ew!Max(Ew!Ledgers(G))
  <2>1. Watched[d].ledger <= Watched[last].ledger
    BY <1>5
  <2>2. \A x, y, z \in Nat : x <= y /\ y <= z /\ z <= x => x = z
    OBVIOUS
  <2>3. Watched[e].ledger = Watched[last].ledger
    BY <1>2, <1>7, <2>1, <2>2
  <2> QED
    BY <1>5, <2>3
<1> QED
  BY <1>8, WatchedFacts DEF Ew!CutOff

\* The alerts of a page are of its events, and every notable one has its alert.
LEMMA AlertsFacts ==
  ASSUME WatchTypes, NEW page \in SUBSET Ids, NEW now_
  PROVE  /\ Ew!AlertsOfPage(page, now_) \in SUBSET AlertType
         /\ \A a \in Ew!AlertsOfPage(page, now_) : a[1] \in page
         /\ \A e \in page : Notable(e) => << e, 1 >> \in Ew!AlertsOfPage(page, now_)
<1>1. \A e \in page : Ew!AllowanceAlerts(e, now_) \subseteq { << e, 1 >>, << e, 2 >> }
  BY DEF Ew!AllowanceAlerts
<1>2. \A e \in page : Watched[e].high => << e, 1 >> \in Ew!AllowanceAlerts(e, now_)
  BY DEF Ew!AllowanceAlerts, Ew!EvaluateNewApproval
<1>3. \A a \in Ew!AlertsOfPage(page, now_) : \E e \in page : a = << e, 1 >> \/ a = << e, 2 >>
  BY <1>1 DEF Ew!AlertsOfPage
<1>4. \A e \in page : Notable(e) => << e, 1 >> \in Ew!AlertsOfPage(page, now_)
  BY <1>2 DEF Ew!AlertsOfPage, Notable, WatchTypes
<1> QED
  BY <1>3, <1>4 DEF AlertType

\* A page turns into alerts: of its notable events and those below none is left out.
LEMMA FetchKeepsWatch ==
  ASSUME WatchInv, NEW p \in Polls, Ew!FetchEvents(p) PROVE WatchInv'
<1> DEFINE page == Ew!PageOf(p)
           alerts == Ew!AlertsOfPage(page, asOf[p])
<1>0. WatchTypes /\ NoticeInv /\ TellInv /\ CountInv /\ polling[p] = "fetch" /\ todo[p] = {}
  BY DEF WatchInv, Ew!FetchEvents, WatchTypes
<1>1. UNCHANGED << watcher, closed, snapshots, foreign, asOf, firstLedger, noticed, overlapping >>
  BY DEF Ew!FetchEvents
<1>2. page \in SUBSET Ids /\ \A e \in page : firstLedger[p] <= Watched[e].ledger
  BY <1>0, WatchedFacts DEF Ew!PageOf, Ew!Fetched, WatchTypes
<1>3. /\ alerts \in SUBSET AlertType /\ \A a \in alerts : a[1] \in page
      /\ \A e \in page : Notable(e) => << e, 1 >> \in alerts
  BY <1>0, <1>2, AlertsFacts
<1>4. \A e \in Ids : Notable(e)' = Notable(e)
  BY <1>1 DEF Notable
<1>a. /\ \A a : Ew!Eclipsed(a) => Ew!Eclipsed(a)'
      /\ \A e : Ew!Taken(e) => Ew!Taken(e)'
  BY <1>1, RowsStay
<1> HIDE DEF page, alerts
<1>5. CASE /\ todo' = [todo EXCEPT ![p] = alerts]
           /\ polling' = [polling EXCEPT ![p] = IF todo'[p] = {} THEN "idle" ELSE "create"]
           /\ tally' = IF watcher = "staking"
                         THEN [e \in Ew!EventIds |-> IF e \in page THEN tally[e] + 1 ELSE tally[e]] ELSE tally
           /\ detected' = detected \cup todo'[p]
           /\ missed' = missed \cup (Ew!CutOff(p) \X {1, 2})
  <2>1. /\ todo'[p] = alerts /\ polling'[p] \in { "idle", "create" }
        /\ (polling'[p] = "idle" <=> alerts = {})
        /\ \A q \in Polls \ {p} : todo'[q] = todo[q] /\ polling'[q] = polling[q]
    BY <1>0, <1>5 DEF WatchTypes
  <2>2. tally' \in [Ids -> Nat] /\ \A e \in Ids :
          tally'[e] = tally[e] \/ (watcher = "staking" /\ e \in page /\ tally'[e] = tally[e] + 1)
    BY <1>0, <1>5, WatchedFacts DEF WatchTypes
  <2>3. WatchTypes'
    <3>1. todo' \in [Polls -> SUBSET AlertType] /\ polling' \in [Polls -> { "idle", "fetch", "create", "notify" }]
      BY <1>0, <1>3, <1>5 DEF WatchTypes
    <3>2. \A q \in Polls : polling'[q] \in { "idle", "fetch" } <=> todo'[q] = {}
      BY <1>0, <2>1 DEF WatchTypes
    <3>3. detected' \subseteq AlertType
      BY <1>0, <1>3, <1>5, <2>1 DEF WatchTypes
    <3> QED
      BY <1>0, <1>1, <2>2, <3>1, <3>2, <3>3 DEF WatchTypes
  <2>4. \A q \in Polls \ {p} : Ew!NextAlert(q)' = Ew!NextAlert(q)
    BY <2>1, OthersKeep
  <2>5. missed \subseteq missed'
    BY <1>5
  <2>6. NoticeInv'
    BY <1>0, <1>1, <2>1, <2>4, <2>5 DEF NoticeInv
  <2>7. \A a : Told(a) => Told(a)'
    BY <1>0, <1>1, <1>a, <2>1, <2>5 DEF Told
  <2>8. \A a \in alerts : Told(a)'
    BY <2>1 DEF Told
  <2>9. \A a \in alerts, e \in Ids : Notable(e) /\ Watched[e].ledger <= Watched[a[1]].ledger => Told(<< e, 1 >>)'
    <3> SUFFICES ASSUME NEW a \in alerts, NEW e \in Ids, Notable(e), Watched[e].ledger <= Watched[a[1]].ledger
                 PROVE  Told(<< e, 1 >>)'
      OBVIOUS
    <3>0. Watched[e].ledger \in Nat /\ firstLedger[p] \in Nat
      BY <1>0, WatchedFacts DEF WatchTypes
    <3>1. CASE Watched[e].ledger < firstLedger[p]
      BY <1>0, <2>7, <3>1 DEF TellInv
    <3>2. CASE e \in page
      BY <1>3, <2>8, <3>2
    <3>3. CASE firstLedger[p] <= Watched[e].ledger /\ e \notin page
      <4>1. e \in Ew!CutOff(p)
        BY <1>0, <1>3, <3>3, PageCovers DEF page
      <4>2. << e, 1 >> \in missed'
        BY <1>5, <4>1
      <4> QED
        BY <4>2 DEF Told
    <3> QED
      BY <3>0, <3>1, <3>2, <3>3
  <2>10. TellInv'
    <3>1. \A s \in snapshots' : ToldUpTo(Watched[s[1]].ledger)'
      BY <1>0, <1>1, <1>4, <2>7 DEF TellInv, ToldUpTo
    <3>2. \A q \in Polls : polling'[q] # "idle" => \A e \in Ids :
            Notable(e)' /\ Watched[e].ledger < firstLedger'[q] => Told(<< e, 1 >>)'
      BY <1>0, <1>1, <1>4, <2>1, <2>7 DEF TellInv
    <3>3. \A q \in Polls : \A a \in todo'[q] : ToldUpTo(Watched[a[1]].ledger)'
      BY <1>0, <1>4, <2>1, <2>7, <2>9 DEF TellInv, ToldUpTo
    <3>4. \A a \in detected' : Told(a)'
      BY <1>0, <1>5, <2>1, <2>7, <2>8 DEF TellInv
    <3> QED
      BY <3>1, <3>2, <3>3, <3>4 DEF TellInv
  <2>11. CountInv'
    <3> SUFFICES ASSUME ~overlapping'
                 PROVE  /\ \A q, r \in Polls : polling'[q] # "idle" /\ polling'[r] # "idle" => q = r
                        /\ \A q \in Polls : polling'[q] = "fetch" => \A s \in snapshots' : Watched[s[1]].ledger < firstLedger'[q]
                        /\ \A e \in Ids : tally'[e] # 0 => Counted(e)'
                        /\ \A e \in Ids : tally'[e] > 1 => << e, 1 >> \in missed' \/ Ew!RowOf(e) \in foreign'
      BY DEF CountInv
    <3>1. ~overlapping /\ \A q \in Polls \ {p} : polling[q] = "idle" /\ todo[q] = {}
      BY <1>0, <1>1 DEF CountInv, WatchTypes
    <3>2. \A q \in Polls : todo[q] = {}
      BY <1>0, <3>1
    <3>3. \A e \in page : \A d \in Ew!Stored : Ew!RowOf(d) # Ew!RowOf(e)
      <4>1. \A d \in Ew!Stored : Watched[d].ledger < firstLedger[p] /\ Watched[d].ledger \in Nat
        <5>1. \A s \in snapshots : Watched[s[1]].ledger < firstLedger[p] /\ s[1] \in Ids
          BY <1>0, <3>1 DEF CountInv, WatchTypes, AlertType
        <5> QED
          BY <5>1, WatchedFacts DEF Ew!Stored
      <4>2. firstLedger[p] \in Nat /\ \A e \in page : Watched[e].ledger \in Nat
        BY <1>0, <1>2, WatchedFacts DEF WatchTypes
      <4>3. \A e \in page : \A d \in Ew!Stored : Watched[d].ledger # Watched[e].ledger
        BY <1>2, <4>1, <4>2
      <4> QED
        BY <4>3 DEF Ew!RowOf
    <3>4. \A e \in Ids : tally[e] # 0 => Ew!Taken(e) \/ << e, 1 >> \in missed
      BY <1>0, <3>1, <3>2 DEF CountInv, Counted
    <3>5. ASSUME NEW e \in Ids, tally'[e] # 0 PROVE Counted(e)'
      <4>1. CASE tally'[e] = tally[e]
        BY <1>a, <2>5, <3>4, <3>5, <4>1 DEF Counted
      <4>2. CASE watcher = "staking" /\ e \in page
        BY <1>3, <2>1, <4>2 DEF Notable, Counted
      <4> QED
        BY <2>2, <4>1, <4>2
    <3>6. ASSUME NEW e \in Ids, tally'[e] > 1 PROVE << e, 1 >> \in missed' \/ Ew!RowOf(e) \in foreign'
      <4>1. CASE tally'[e] = tally[e]
        BY <1>0, <1>1, <2>5, <3>1, <3>6, <4>1 DEF CountInv
      <4>2. CASE e \in page /\ tally'[e] = tally[e] + 1
        <5>1. tally[e] # 0
          BY <1>0, <3>6, <4>2 DEF WatchTypes
        <5> QED
          BY <1>1, <2>5, <3>3, <3>4, <4>2, <5>1 DEF Ew!Taken
      <4> QED
        BY <2>2, <4>1, <4>2
    <3>7. \A q, r \in Polls : polling'[q] # "idle" /\ polling'[r] # "idle" => q = r
      BY <2>1, <3>1
    <3>8. \A q \in Polls : polling'[q] # "fetch"
      BY <2>1, <3>1
    <3> QED
      BY <3>5, <3>6, <3>7, <3>8
  <2> QED
    BY <2>3, <2>6, <2>10, <2>11 DEF WatchInv
<1>6. CASE polling' = [polling EXCEPT ![p] = "idle"] /\ UNCHANGED << todo, tally, detected, missed >>
  <2>1. polling'[p] = "idle" /\ \A q \in Polls \ {p} : polling'[q] = polling[q]
    BY <1>0, <1>6 DEF WatchTypes
  <2>2. WatchTypes'
    BY <1>0, <1>1, <1>6, <2>1 DEF WatchTypes
  <2>3. \A q \in Polls : Ew!NextAlert(q)' = Ew!NextAlert(q)
    BY <1>6, OthersKeep
  <2>4. NoticeInv'
    BY <1>0, <1>1, <1>6, <2>1, <2>3 DEF NoticeInv
  <2>5. \A a : Told(a) => Told(a)'
    BY <1>1, <1>6, <1>a DEF Told
  <2>6. TellInv'
    BY <1>0, <1>1, <1>4, <1>6, <2>1, <2>5 DEF TellInv, ToldUpTo
  <2>7. CountInv'
    BY <1>0, <1>1, <1>6, <1>a, <2>1 DEF CountInv, Counted
  <2> QED
    BY <2>2, <2>4, <2>6, <2>7 DEF WatchInv
<1> QED
  BY <1>5, <1>6 DEF Ew!FetchEvents, page, alerts

\* A row is created by one poll, which then has the alert in its hands; of a row that
\* is there another alert is told, or this one by the poll that created it.
LEMMA CreateKeepsWatch ==
  ASSUME WatchInv, NEW p \in Polls, Ew!CreateRow(p) PROVE WatchInv'
<1> DEFINE h == Ew!NextAlert(p)
<1>0. WatchTypes /\ NoticeInv /\ TellInv /\ CountInv /\ polling[p] = "create" /\ todo[p] # {}
  BY DEF WatchInv, Ew!CreateRow, WatchTypes
<1>1. UNCHANGED << watcher, closed, foreign, asOf, firstLedger, tally, noticed, detected, overlapping >>
  BY DEF Ew!CreateRow
<1>2. \A e \in Ids : Notable(e)' = Notable(e)
  BY <1>1 DEF Notable
<1>3. h \in AlertType /\ h \in todo[p] /\ h[1] \in Ids
  BY <1>0, EarliestIn DEF WatchTypes, Ew!NextAlert
<1> HIDE DEF h
<1>4. CASE /\ ~Ew!Taken(h[1]) /\ snapshots' = snapshots \cup {h}
           /\ polling' = [polling EXCEPT ![p] = "notify"]
           /\ UNCHANGED << todo, missed >>
  <2>0. h \notin snapshots
    BY <1>4 DEF Ew!Taken, Ew!Stored
  <2>1. polling'[p] = "notify" /\ \A q \in Polls \ {p} : polling'[q] = polling[q]
    BY <1>0, <1>4 DEF WatchTypes
  <2>2. WatchTypes'
    BY <1>0, <1>1, <1>3, <1>4, <2>1 DEF WatchTypes
  <2>3. \A q \in Polls : Ew!NextAlert(q)' = Ew!NextAlert(q)
    BY <1>4, OthersKeep
  <2>a. /\ \A a : Ew!Eclipsed(a) => Ew!Eclipsed(a)'
        /\ \A e : Ew!Taken(e) => Ew!Taken(e)'
    BY <1>1, <1>4, RowsStay
  <2>4. NoticeInv'
    <3>1. noticed[h] = 0
      BY <1>0, <1>3, <2>0 DEF NoticeInv, WatchTypes
    <3>2. \A q \in Polls : polling'[q] = "notify" =>
            Ew!NextAlert(q)' \in snapshots' /\ noticed'[Ew!NextAlert(q)'] = 0
      BY <1>0, <1>1, <1>4, <2>1, <2>3, <3>1 DEF NoticeInv, h
    <3>3. \A q, r \in Polls : polling'[q] = "notify" /\ polling'[r] = "notify"
            /\ Ew!NextAlert(q)' = Ew!NextAlert(r)' => q = r
      BY <1>0, <2>0, <2>1, <2>3 DEF NoticeInv, h
    <3>4. \A a \in snapshots' : noticed'[a] = 1 \/ a \in missed'
            \/ \E q \in Polls : polling'[q] = "notify" /\ Ew!NextAlert(q)' = a
      BY <1>0, <1>1, <1>4, <2>1, <2>3 DEF NoticeInv, h
    <3>5. \A a \in AlertType : noticed'[a] <= 1 /\ (noticed'[a] = 1 => a \in snapshots')
      BY <1>0, <1>1, <1>4 DEF NoticeInv
    <3> QED
      BY <3>2, <3>3, <3>4, <3>5 DEF NoticeInv
  <2>5. \A a : Told(a) => Told(a)'
    BY <1>1, <1>4, <2>a DEF Told
  <2>6. TellInv'
    <3>1. \A s \in snapshots' : ToldUpTo(Watched[s[1]].ledger)'
      BY <1>0, <1>2, <1>3, <1>4, <2>5 DEF TellInv, ToldUpTo
    <3>2. \A q \in Polls : polling'[q] # "idle" => \A e \in Ids :
            Notable(e)' /\ Watched[e].ledger < firstLedger'[q] => Told(<< e, 1 >>)'
      BY <1>0, <1>1, <1>2, <2>1, <2>5 DEF TellInv
    <3>3. \A q \in Polls : \A a \in todo'[q] : ToldUpTo(Watched[a[1]].ledger)'
      BY <1>0, <1>2, <1>4, <2>5 DEF TellInv, ToldUpTo
    <3>4. \A a \in detected' : Told(a)'
      BY <1>0, <1>1, <2>5 DEF TellInv
    <3> QED
      BY <3>1, <3>2, <3>3, <3>4 DEF TellInv
  <2>7. CountInv'
    <3>1. ASSUME ~overlapping PROVE \A q \in Polls : polling'[q] # "fetch"
      BY <1>0, <2>1, <3>1 DEF CountInv
    <3>2. \A e : Counted(e) => Counted(e)'
      BY <1>4, <2>a DEF Counted
    <3> QED
      BY <1>0, <1>1, <1>4, <2>1, <3>1, <3>2 DEF CountInv
  <2> QED
    BY <2>2, <2>4, <2>6, <2>7 DEF WatchInv
<1>5. CASE /\ missed' = IF Ew!Taken(h[1]) THEN missed ELSE missed \cup {h}
           /\ Ew!AlertDone(p) /\ UNCHANGED snapshots
  <2>1. /\ todo' \in [Polls -> SUBSET AlertType]
        /\ polling' \in [Polls -> { "idle", "fetch", "create", "notify" }]
        /\ \A q \in Polls : polling'[q] \in { "idle", "fetch" } <=> todo'[q] = {}
        /\ polling'[p] \in { "idle", "create" } /\ todo'[p] \subseteq todo[p]
        /\ \A q \in Polls \ {p} : todo'[q] = todo[q] /\ polling'[q] = polling[q]
        /\ \A x \in todo[p] : x = h \/ x \in todo'[p]
    BY <1>0, <1>5, DoneEffect DEF h
  <2>2. WatchTypes'
    BY <1>0, <1>1, <1>5, <2>1 DEF WatchTypes
  <2>3. \A q \in Polls \ {p} : Ew!NextAlert(q)' = Ew!NextAlert(q)
    BY <2>1, OthersKeep
  <2>a. /\ \A a : Ew!Eclipsed(a) => Ew!Eclipsed(a)'
        /\ \A e : Ew!Taken(e) => Ew!Taken(e)'
    BY <1>1, <1>5, RowsStay
  <2>b. missed \subseteq missed'
    BY <1>5
  <2>4. NoticeInv'
    BY <1>0, <1>1, <1>5, <2>1, <2>3, <2>b DEF NoticeInv
  <2>5. ASSUME NEW g, g = h PROVE Told(g)'
    <3>1. CASE ~Ew!Taken(g[1])
      BY <1>5, <2>5, <3>1 DEF Told
    <3>2. CASE Ew!Eclipsed(g)
      BY <2>a, <3>2 DEF Told
    <3>3. CASE Ew!Taken(g[1]) /\ ~Ew!Eclipsed(g)
      <4>1. g \in snapshots
        BY <3>3 DEF Ew!Taken, Ew!Stored, Ew!Eclipsed
      <4>2. CASE noticed[g] = 1 \/ g \in missed
        BY <1>1, <2>b, <4>2 DEF Told
      <4>3. ASSUME NEW q \in Polls, polling[q] = "notify", Ew!NextAlert(q) = g PROVE Told(g)'
        <5>1. q # p /\ todo[q] # {}
          BY <1>0, <4>3 DEF WatchTypes
        <5>2. g \in todo[q]
          BY <1>0, <4>3, <5>1, EarliestIn DEF WatchTypes, Ew!NextAlert
        <5>3. g \in todo'[q]
          BY <2>1, <5>1, <5>2
        <5> QED
          BY <5>3 DEF Told
      <4> QED
        BY <1>0, <4>1, <4>2, <4>3 DEF NoticeInv
    <3> QED
      BY <3>1, <3>2, <3>3
  <2>7. \A a : Told(a) => Told(a)'
    <3> SUFFICES ASSUME NEW a, Told(a), a # h PROVE Told(a)'
      BY <2>5
    <3> QED
      BY <1>1, <2>1, <2>a, <2>b DEF Told
  <2>8. TellInv'
    <3>1. \A s \in snapshots' : ToldUpTo(Watched[s[1]].ledger)'
      BY <1>0, <1>2, <1>5, <2>7 DEF TellInv, ToldUpTo
    <3>2. \A q \in Polls : polling'[q] # "idle" => \A e \in Ids :
            Notable(e)' /\ Watched[e].ledger < firstLedger'[q] => Told(<< e, 1 >>)'
      BY <1>0, <1>1, <1>2, <2>1, <2>7 DEF TellInv
    <3>3. \A q \in Polls : \A a \in todo'[q] : ToldUpTo(Watched[a[1]].ledger)'
      BY <1>0, <1>2, <2>1, <2>7 DEF TellInv, ToldUpTo
    <3>4. \A a \in detected' : Told(a)'
      BY <1>0, <1>1, <2>7 DEF TellInv
    <3> QED
      BY <3>1, <3>2, <3>3, <3>4 DEF TellInv
  <2>9. CountInv'
    <3> SUFFICES ASSUME ~overlapping'
                 PROVE  /\ \A q, r \in Polls : polling'[q] # "idle" /\ polling'[r] # "idle" => q = r
                        /\ \A q \in Polls : polling'[q] = "fetch" => \A s \in snapshots' : Watched[s[1]].ledger < firstLedger'[q]
                        /\ \A e \in Ids : tally'[e] # 0 => Counted(e)'
                        /\ \A e \in Ids : tally'[e] > 1 => << e, 1 >> \in missed' \/ Ew!RowOf(e) \in foreign'
      BY DEF CountInv
    <3>1. \A q \in Polls \ {p} : polling'[q] = "idle"
      BY <1>0, <1>1, <2>1 DEF CountInv
    <3>2. ASSUME NEW e \in Ids, Counted(e) PROVE Counted(e)'
      <4>1. CASE << e, 1 >> = h
        <5>1. h[1] = e
          BY <4>1
        <5> QED
          BY <1>5, <2>a, <4>1, <5>1 DEF Counted
      <4>2. CASE << e, 1 >> # h
        BY <2>1, <2>a, <2>b, <3>2, <4>2 DEF Counted
      <4> QED
        BY <4>1, <4>2
    <3>3. \A e \in Ids : tally'[e] > 1 => << e, 1 >> \in missed' \/ Ew!RowOf(e) \in foreign'
      BY <1>0, <1>1, <2>b DEF CountInv
    <3>4. \A q, r \in Polls : polling'[q] # "idle" /\ polling'[r] # "idle" => q = r
      BY <3>1
    <3>5. \A q \in Polls : polling'[q] # "fetch"
      BY <2>1, <3>1
    <3>6. \A e \in Ids : tally'[e] # 0 => Counted(e)'
      BY <1>0, <1>1, <3>2 DEF CountInv
    <3> QED
      BY <3>3, <3>4, <3>5, <3>6
  <2> QED
    BY <2>2, <2>4, <2>8, <2>9 DEF WatchInv
<1> QED
  BY <1>4, <1>5 DEF Ew!CreateRow, h

\* The notice is the first of its alert.
LEMMA NotifyKeepsWatch ==
  ASSUME WatchInv, NEW p \in Polls, Ew!NotifyEvent(p) PROVE WatchInv'
<1> DEFINE h == Ew!NextAlert(p)
<1>0. WatchTypes /\ NoticeInv /\ TellInv /\ CountInv /\ polling[p] = "notify" /\ todo[p] # {}
  BY DEF WatchInv, Ew!NotifyEvent, WatchTypes
<1>1. /\ UNCHANGED << watcher, closed, snapshots, foreign, asOf, firstLedger, tally, detected, missed, overlapping >>
      /\ Ew!AlertDone(p) /\ noticed' = [noticed EXCEPT ![h] = @ + 1]
  BY DEF Ew!NotifyEvent
<1>2. \A e \in Ids : Notable(e)' = Notable(e)
  BY <1>1 DEF Notable
<1>3. /\ h \in AlertType /\ h \in todo[p]
      /\ todo' \in [Polls -> SUBSET AlertType]
      /\ polling' \in [Polls -> { "idle", "fetch", "create", "notify" }]
      /\ \A q \in Polls : polling'[q] \in { "idle", "fetch" } <=> todo'[q] = {}
      /\ polling'[p] \in { "idle", "create" } /\ todo'[p] \subseteq todo[p]
      /\ \A q \in Polls \ {p} : todo'[q] = todo[q] /\ polling'[q] = polling[q]
      /\ \A x \in todo[p] : x = h \/ x \in todo'[p]
  BY <1>0, <1>1, DoneEffect
<1>4. h \in snapshots /\ noticed[h] = 0 /\ \A q \in Polls \ {p} : polling[q] = "notify" => Ew!NextAlert(q) # h
  BY <1>0 DEF NoticeInv
<1> HIDE DEF h
<1>5. noticed' \in [AlertType -> Nat] /\ noticed'[h] = 1 /\ \A a \in AlertType \ {h} : noticed'[a] = noticed[a]
  BY <1>0, <1>1, <1>3, <1>4 DEF WatchTypes
<1>6. WatchTypes'
  BY <1>0, <1>1, <1>3, <1>5 DEF WatchTypes
<1>7. \A q \in Polls \ {p} : Ew!NextAlert(q)' = Ew!NextAlert(q)
  BY <1>3, OthersKeep
<1>a. /\ \A a : Ew!Eclipsed(a) => Ew!Eclipsed(a)'
      /\ \A e : Ew!Taken(e) => Ew!Taken(e)'
  BY <1>1, RowsStay
<1>8. NoticeInv'
  <2>1. \A a \in AlertType : noticed'[a] <= 1 /\ (noticed'[a] = 1 => a \in snapshots')
    BY <1>0, <1>1, <1>4, <1>5 DEF NoticeInv
  <2>2. \A q \in Polls : polling'[q] = "notify" =>
          Ew!NextAlert(q)' \in snapshots' /\ noticed'[Ew!NextAlert(q)'] = 0
    <3> SUFFICES ASSUME NEW q \in Polls, polling'[q] = "notify"
                 PROVE  Ew!NextAlert(q)' \in snapshots' /\ noticed'[Ew!NextAlert(q)'] = 0
      OBVIOUS
    <3>1. q # p /\ polling[q] = "notify" /\ Ew!NextAlert(q)' = Ew!NextAlert(q)
      BY <1>3, <1>7
    <3>2. Ew!NextAlert(q) \in snapshots /\ noticed[Ew!NextAlert(q)] = 0 /\ Ew!NextAlert(q) # h
      BY <1>0, <1>4, <3>1 DEF NoticeInv
    <3>3. Ew!NextAlert(q) \in AlertType \ {h}
      BY <1>0, <3>2 DEF WatchTypes
    <3> QED
      BY <1>1, <1>5, <3>1, <3>2, <3>3
  <2>3. \A q, r \in Polls : polling'[q] = "notify" /\ polling'[r] = "notify"
          /\ Ew!NextAlert(q)' = Ew!NextAlert(r)' => q = r
    BY <1>0, <1>3, <1>7 DEF NoticeInv
  <2>4. \A a \in snapshots' : noticed'[a] = 1 \/ a \in missed'
          \/ \E q \in Polls : polling'[q] = "notify" /\ Ew!NextAlert(q)' = a
    <3> SUFFICES ASSUME NEW a \in snapshots, a # h
                 PROVE  noticed'[a] = 1 \/ a \in missed'
                        \/ \E q \in Polls : polling'[q] = "notify" /\ Ew!NextAlert(q)' = a
      BY <1>1, <1>5
    <3>1. a \in AlertType \ {h}
      BY <1>0 DEF WatchTypes
    <3>2. CASE noticed[a] = 1 \/ a \in missed
      BY <1>1, <1>5, <3>1, <3>2
    <3>3. ASSUME NEW q \in Polls, polling[q] = "notify", Ew!NextAlert(q) = a
          PROVE  polling'[q] = "notify" /\ Ew!NextAlert(q)' = a
      BY <1>3, <1>7, <3>3 DEF h
    <3> QED
      BY <1>0, <3>2, <3>3 DEF NoticeInv
  <2> QED
    BY <2>1, <2>2, <2>3, <2>4 DEF NoticeInv
<1>9. \A a \in AlertType : Told(a) => Told(a)'
  <2> SUFFICES ASSUME NEW a \in AlertType, Told(a) PROVE Told(a)'
    OBVIOUS
  <2>1. CASE a = h
    BY <1>5, <2>1 DEF Told
  <2>2. CASE a # h
    BY <1>1, <1>3, <1>5, <1>a, <2>2 DEF Told
  <2> QED
    BY <2>1, <2>2
<1>b. \A e \in Ids : << e, 1 >> \in AlertType
  BY DEF AlertType
<1>10. TellInv'
  <2>1. \A s \in snapshots' : ToldUpTo(Watched[s[1]].ledger)'
    BY <1>0, <1>1, <1>2, <1>9, <1>b DEF TellInv, ToldUpTo
  <2>2. \A q \in Polls : polling'[q] # "idle" => \A e \in Ids :
          Notable(e)' /\ Watched[e].ledger < firstLedger'[q] => Told(<< e, 1 >>)'
    BY <1>0, <1>1, <1>2, <1>3, <1>9, <1>b DEF TellInv
  <2>3. \A q \in Polls : \A a \in todo'[q] : ToldUpTo(Watched[a[1]].ledger)'
    BY <1>0, <1>2, <1>3, <1>9, <1>b DEF TellInv, ToldUpTo
  <2>4. \A a \in detected' : Told(a)'
    BY <1>0, <1>1, <1>9 DEF TellInv, WatchTypes
  <2> QED
    BY <2>1, <2>2, <2>3, <2>4 DEF TellInv
<1>11. CountInv'
  <2> SUFFICES ASSUME ~overlapping'
               PROVE  /\ \A q, r \in Polls : polling'[q] # "idle" /\ polling'[r] # "idle" => q = r
                      /\ \A q \in Polls : polling'[q] = "fetch" => \A s \in snapshots' : Watched[s[1]].ledger < firstLedger'[q]
                      /\ \A e \in Ids : tally'[e] # 0 => Counted(e)'
                      /\ \A e \in Ids : tally'[e] > 1 => << e, 1 >> \in missed' \/ Ew!RowOf(e) \in foreign'
    BY DEF CountInv
  <2>1. \A q \in Polls \ {p} : polling'[q] = "idle"
    BY <1>0, <1>1, <1>3 DEF CountInv
  <2>2. ASSUME NEW e \in Ids, Counted(e) PROVE Counted(e)'
    <3>1. CASE << e, 1 >> = h
      <4>1. h[1] = e
        BY <3>1
      <4>2. Ew!Taken(e)
        BY <1>4, <4>1 DEF Ew!Taken, Ew!Stored
      <4> QED
        BY <1>a, <4>2 DEF Counted
    <3>2. CASE << e, 1 >> # h
      BY <1>1, <1>3, <1>a, <2>2, <3>2 DEF Counted
    <3> QED
      BY <3>1, <3>2
  <2>3. \A e \in Ids : tally'[e] > 1 => << e, 1 >> \in missed' \/ Ew!RowOf(e) \in foreign'
    BY <1>0, <1>1 DEF CountInv
  <2>4. \A q, r \in Polls : polling'[q] # "idle" /\ polling'[r] # "idle" => q = r
    BY <2>1
  <2>5. \A q \in Polls : polling'[q] # "fetch"
    BY <1>3, <2>1
  <2>6. \A e \in Ids : tally'[e] # 0 => Counted(e)'
    BY <1>0, <1>1, <2>2 DEF CountInv
  <2> QED
    BY <2>3, <2>4, <2>5, <2>6
<1> QED
  BY <1>6, <1>8, <1>10, <1>11 DEF WatchInv

\* What a poll gives up is missed, and the others keep theirs.
LEMMA GivingUpKeepsWatch ==
  ASSUME WatchInv, NEW Q \in SUBSET Polls,
         polling' = [q \in Polls |-> IF q \in Q THEN "idle" ELSE polling[q]],
         todo' = [q \in Polls |-> IF q \in Q THEN {} ELSE todo[q]],
         missed' = missed \cup UNION { todo[q] : q \in Q },
         tally' \in [Ids -> Nat], \A e \in Ids : tally'[e] = 0 \/ tally'[e] = tally[e],
         UNCHANGED << watcher, closed, snapshots, foreign, asOf, firstLedger, noticed, detected, overlapping >>
  PROVE  WatchInv'
<1>0. WatchTypes /\ NoticeInv /\ TellInv /\ CountInv
  BY DEF WatchInv
<1>1. /\ \A q \in Q : polling'[q] = "idle" /\ todo'[q] = {}
      /\ \A q \in Polls \ Q : polling'[q] = polling[q] /\ todo'[q] = todo[q]
  OBVIOUS
<1>2. \A q \in Polls \ Q : Ew!NextAlert(q)' = Ew!NextAlert(q)
  BY <1>1, OthersKeep
<1>3. missed \subseteq missed' /\ \A q \in Q : todo[q] \subseteq missed'
  OBVIOUS
<1>a. /\ \A a : Ew!Eclipsed(a) => Ew!Eclipsed(a)'
      /\ \A e : Ew!Taken(e) => Ew!Taken(e)'
  BY RowsStay
<1>4. WatchTypes'
  BY <1>0, <1>1 DEF WatchTypes
<1>5. \A q \in Polls : polling[q] = "notify" => Ew!NextAlert(q) \in todo[q]
  BY <1>0, EarliestIn DEF WatchTypes, Ew!NextAlert
<1>6. NoticeInv'
  <2>1. \A a \in snapshots' : noticed'[a] = 1 \/ a \in missed'
          \/ \E q \in Polls : polling'[q] = "notify" /\ Ew!NextAlert(q)' = a
    <3> SUFFICES ASSUME NEW a \in snapshots PROVE noticed[a] = 1 \/ a \in missed'
                   \/ \E q \in Polls : polling'[q] = "notify" /\ Ew!NextAlert(q)' = a
      OBVIOUS
    <3>1. CASE noticed[a] = 1 \/ a \in missed
      BY <3>1
    <3>2. ASSUME NEW q \in Polls, polling[q] = "notify", Ew!NextAlert(q) = a
          PROVE  a \in missed' \/ (polling'[q] = "notify" /\ Ew!NextAlert(q)' = a)
      BY <1>1, <1>2, <1>3, <1>5, <3>2
    <3> QED
      BY <1>0, <3>1, <3>2 DEF NoticeInv
  <2>2. \A q \in Polls : polling'[q] = "notify" => q \notin Q
    BY <1>1
  <2> QED
    BY <1>0, <1>1, <1>2, <2>1, <2>2 DEF NoticeInv
<1>b. \A a : (\E q \in Polls : a \in todo[q]) => a \in missed' \/ \E q \in Polls : a \in todo'[q]
  BY <1>1, <1>3
<1>7. \A a : Told(a) => Told(a)'
  BY <1>3, <1>a, <1>b DEF Told
<1>8. \A e \in Ids : Notable(e)' = Notable(e)
  BY DEF Notable
<1>9. TellInv'
  <2>1. \A s \in snapshots' : ToldUpTo(Watched[s[1]].ledger)'
    BY <1>0, <1>7, <1>8 DEF TellInv, ToldUpTo
  <2>2. \A q \in Polls : polling'[q] # "idle" => \A e \in Ids :
          Notable(e)' /\ Watched[e].ledger < firstLedger'[q] => Told(<< e, 1 >>)'
    BY <1>0, <1>1, <1>7, <1>8 DEF TellInv
  <2>3. \A q \in Polls : \A a \in todo'[q] : ToldUpTo(Watched[a[1]].ledger)'
    BY <1>0, <1>1, <1>7, <1>8 DEF TellInv, ToldUpTo
  <2>4. \A a \in detected' : Told(a)'
    BY <1>0, <1>7 DEF TellInv
  <2> QED
    BY <2>1, <2>2, <2>3, <2>4 DEF TellInv
<1>10. CountInv'
  <2> SUFFICES ASSUME ~overlapping
               PROVE  /\ \A q, r \in Polls : polling'[q] # "idle" /\ polling'[r] # "idle" => q = r
                      /\ \A q \in Polls : polling'[q] = "fetch" => \A s \in snapshots' : Watched[s[1]].ledger < firstLedger'[q]
                      /\ \A e \in Ids : tally'[e] # 0 => Counted(e)'
                      /\ \A e \in Ids : tally'[e] > 1 => << e, 1 >> \in missed' \/ Ew!RowOf(e) \in foreign'
    BY DEF CountInv
  <2>1. \A q, r \in Polls : polling'[q] # "idle" /\ polling'[r] # "idle" => q = r
    BY <1>0, <1>1 DEF CountInv
  <2>2. \A q \in Polls : polling'[q] = "fetch" => \A s \in snapshots' : Watched[s[1]].ledger < firstLedger'[q]
    BY <1>0, <1>1 DEF CountInv
  <2>3. \A e : Counted(e) => Counted(e)'
    BY <1>3, <1>a, <1>b DEF Counted
  <2>4. \A e \in Ids : tally'[e] # 0 => Counted(e)'
    BY <1>0, <2>3 DEF CountInv
  <2>5. \A e \in Ids : tally'[e] > 1 => << e, 1 >> \in missed' \/ Ew!RowOf(e) \in foreign'
    BY <1>0, <1>3 DEF CountInv
  <2> QED
    BY <2>1, <2>2, <2>4, <2>5
<1> QED
  BY <1>4, <1>6, <1>9, <1>10 DEF WatchInv

LEMMA WatchStep == WatchInv /\ [Next]_vars => WatchInv'
<1> SUFFICES ASSUME WatchInv, [Next]_vars PROVE WatchInv'
  OBVIOUS
<1>0. WatchTypes
  BY DEF WatchInv
<1>1. CASE Ew!LedgerIsClosed \/ (\E e \in Foreign : Ew!OtherRow(e)) \/ UNCHANGED eventsState
  <2>1. /\ UNCHANGED << watcher, snapshots, polling, asOf, firstLedger, todo, tally, noticed, detected, missed, overlapping >>
        /\ closed' \in Nat /\ foreign \subseteq foreign'
    BY <1>0, <1>1 DEF Ew!LedgerIsClosed, Ew!OtherRow, eventsState, WatchTypes
  <2>2. \A q : Ew!NextAlert(q)' = Ew!NextAlert(q)
    BY <2>1 DEF Ew!NextAlert
  <2>a. /\ \A a : Ew!Eclipsed(a) => Ew!Eclipsed(a)'
        /\ \A e : Ew!Taken(e) => Ew!Taken(e)'
    BY <2>1, RowsStay
  <2>3. /\ \A a : Told(a) => Told(a)'
        /\ \A e : Notable(e)' = Notable(e)
        /\ \A e : Counted(e) => Counted(e)'
    BY <2>1, <2>a DEF Told, Notable, Counted
  <2>4. WatchTypes' /\ NoticeInv'
    BY <2>1, <2>2 DEF WatchInv, WatchTypes, NoticeInv
  <2>5. TellInv'
    BY <2>1, <2>3 DEF WatchInv, TellInv, ToldUpTo
  <2>6. CountInv'
    BY <2>1, <2>3 DEF WatchInv, CountInv
  <2> QED
    BY <2>4, <2>5, <2>6 DEF WatchInv
<1>2. CASE Ew!WatcherRestarts
  <2>1. polling' = [q \in Polls |-> IF q \in Polls THEN "idle" ELSE polling[q]]
    BY <1>2 DEF Ew!WatcherRestarts
  <2>2. todo' = [q \in Polls |-> IF q \in Polls THEN {} ELSE todo[q]]
    BY <1>2 DEF Ew!WatcherRestarts
  <2>3. /\ missed' = missed \cup UNION { todo[q] : q \in Polls }
        /\ tally' \in [Ids -> Nat] /\ \A e \in Ids : tally'[e] = 0
        /\ UNCHANGED << watcher, closed, snapshots, foreign, asOf, firstLedger, noticed, detected, overlapping >>
    BY <1>2, WatchedFacts DEF Ew!WatcherRestarts
  <2> QED
    BY <2>1, <2>2, <2>3, GivingUpKeepsWatch
<1>3. ASSUME NEW p \in Polls, Ew!NotifyThrows(p) PROVE WatchInv'
  <2>1. polling' = [q \in Polls |-> IF q \in {p} THEN "idle" ELSE polling[q]]
    BY <1>0, <1>3 DEF Ew!NotifyThrows, WatchTypes
  <2>2. todo' = [q \in Polls |-> IF q \in {p} THEN {} ELSE todo[q]]
    BY <1>0, <1>3 DEF Ew!NotifyThrows, WatchTypes
  <2>3. missed' = missed \cup UNION { todo[q] : q \in {p} }
    BY <1>3 DEF Ew!NotifyThrows
  <2>4. /\ tally' \in [Ids -> Nat] /\ \A e \in Ids : tally'[e] = tally[e]
        /\ UNCHANGED << watcher, closed, snapshots, foreign, asOf, firstLedger, noticed, detected, overlapping >>
    BY <1>0, <1>3 DEF Ew!NotifyThrows, WatchTypes
  <2>5. {p} \in SUBSET Polls
    OBVIOUS
  <2> QED
    BY <2>1, <2>2, <2>3, <2>4, <2>5, GivingUpKeepsWatch
<1> QED
  BY <1>1, <1>2, <1>3, BeginKeepsWatch, FetchKeepsWatch, CreateKeepsWatch, NotifyKeepsWatch, EventsMove
  DEF Ew!EventWatchersNext

LEMMA WatchSuffices == WatchInv => Ew!EventToldOnce /\ Ew!PassedIsTold /\ Ew!CountedOnce
<1> SUFFICES ASSUME WatchInv PROVE Ew!EventToldOnce /\ Ew!PassedIsTold /\ Ew!CountedOnce
  OBVIOUS
<1>1. Ew!EventToldOnce
  BY WatchedFacts DEF WatchInv, NoticeInv, Ew!EventToldOnce
<1>2. Ew!CountedOnce
  BY WatchedFacts DEF WatchInv, CountInv, Ew!CountedOnce
<1>3. ASSUME NEW e \in Ids, snapshots # {}, Watched[e].ledger <= Ew!Max(Ew!Ledgers(Ew!Stored)), Notable(e)
      PROVE  Told(<< e, 1 >>)
  <2>0. Ew!Stored \in SUBSET Ids /\ Ew!Stored # {}
    BY <1>3 DEF WatchInv, WatchTypes, AlertType, Ew!Stored
  <2>1. PICK d \in Ew!Stored : Ew!Max(Ew!Ledgers(Ew!Stored)) = Watched[d].ledger
    BY <2>0, MaxWatched
  <2>2. PICK s \in snapshots : s[1] = d
    BY <2>1 DEF Ew!Stored
  <2> QED
    BY <1>3, <2>1, <2>2 DEF WatchInv, TellInv, ToldUpTo
<1>4. ASSUME NEW a \in AlertType,
             \/ a \in detected
             \/ /\ a[2] = 1 /\ Notable(a[1])
                /\ snapshots # {} /\ Watched[a[1]].ledger <= Ew!Max(Ew!Ledgers(Ew!Stored))
      PROVE  Told(a)
  <2>1. CASE a \in detected
    BY <2>1 DEF WatchInv, TellInv
  <2>2. CASE a \notin detected
    <3>1. a[1] \in Ids /\ a = << a[1], 1 >>
      BY <1>4, <2>2 DEF AlertType
    <3> QED
      BY <1>3, <1>4, <2>2, <3>1
  <2> QED
    BY <2>1, <2>2
<1>5. Ew!PassedIsTold
  BY <1>4, WatchedFacts DEF Ew!PassedIsTold, Told, Notable
<1> QED
  BY <1>1, <1>2, <1>5

\* Below the checkpoint of the Soroban index every event is stored; a contract event
\* alert is notified at most once, none below the newest row is forgotten, a reward is
\* counted once; and a signer is reminded once: but for what a full page cut off, a row
\* or notice that failed, an equal row of another alert or worker, and polls that
\* overlapped, for any log, page size and number of polls
\* (indexSorobanTopicsForContract, processAllowanceContract,
\* processStakingRewardContract and processPendingTransaction).
THEOREM WatchersAreSafe == Spec => []WatchersSafe
<1>1. MultisigInv => Mu!ReminderOnce
  BY DEF MultisigInv, AlonePass, Mu!ReminderOnce
<1>2. SorobanInv /\ WatchInv /\ MultisigInv => WatchersSafe
  BY <1>1, SorobanSuffices, WatchSuffices DEF WatchersSafe
<1> QED
  BY <1>2, SorobanFirst, SorobanStep, WatchFirst, WatchStep, MultisigFirst, MultisigStep, PTL DEF Spec

(***************************************************************************)
(* The daily root: what the tree's recursive functions compute.  Each is    *)
(* shown to exist, and to satisfy its equation, by the least place at which *)
(* it would fail.                                                           *)
(***************************************************************************)
LayersUpTo(leaves, n, g) ==
  g = [k \in 0..n |-> IF k <= 1 THEN leaves ELSE Dr!NextLayer(g[k - 1])]

LEMMA LayersUpToExist == ASSUME NEW leaves, NEW m \in Nat PROVE \E g : LayersUpTo(leaves, m, g)
<1> DEFINE Bad == { n \in Nat : ~\E g : LayersUpTo(leaves, n, g) }
<1>1. SUFFICES ASSUME Bad # {} PROVE FALSE
  OBVIOUS
<1>2. PICK n \in Bad : \A x \in Bad : n <= x
  <2>1. Bad \in SUBSET Nat
    OBVIOUS
  <2> HIDE DEF Bad
  <2> QED
    BY <1>1, <2>1, LeastExists
<1>3. n \in Nat /\ ~\E g : LayersUpTo(leaves, n, g)
  BY <1>2
<1>4. CASE n <= 1
  <2> DEFINE g == [k \in 0..n |-> leaves]
  <2>1. g = [k \in 0..n |-> IF k <= 1 THEN leaves ELSE Dr!NextLayer(g[k - 1])]
    BY <1>3, <1>4
  <2> QED
    BY <1>3, <2>1 DEF LayersUpTo
<1>5. CASE n > 1
  <2>1. n - 1 \in Nat /\ n - 1 \notin Bad
    BY <1>2, <1>3, <1>5
  <2>2. PICK g : LayersUpTo(leaves, n - 1, g)
    BY <2>1
  <2> DEFINE h == [k \in 0..n |-> IF k = n THEN Dr!NextLayer(g[n - 1]) ELSE g[k]]
  <2>3. \A k \in 0..(n - 1) : g[k] = IF k <= 1 THEN leaves ELSE Dr!NextLayer(g[k - 1])
    BY <2>2 DEF LayersUpTo
  <2>4. \A k \in 0..n : h[k] = IF k <= 1 THEN leaves ELSE Dr!NextLayer(h[k - 1])
    BY <1>3, <1>5, <2>3
  <2>5. h = [k \in 0..n |-> IF k <= 1 THEN leaves ELSE Dr!NextLayer(h[k - 1])]
    BY <2>4
  <2> QED
    BY <1>3, <2>5 DEF LayersUpTo
<1> QED
  BY <1>3, <1>4, <1>5

LEMMA LayersUpToAgree ==
  ASSUME NEW leaves, NEW m \in Nat, NEW n \in Nat, m <= n, NEW g, NEW h,
         LayersUpTo(leaves, m, g), LayersUpTo(leaves, n, h)
  PROVE  \A k \in 0..m : g[k] = h[k]
<1> DEFINE Bad == { k \in 0..m : g[k] # h[k] }
<1>1. SUFFICES ASSUME Bad # {} PROVE FALSE
  OBVIOUS
<1>2. PICK k \in Bad : \A x \in Bad : k <= x
  <2>1. Bad \in SUBSET Nat
    OBVIOUS
  <2> HIDE DEF Bad
  <2> QED
    BY <1>1, <2>1, LeastExists
<1>3. /\ g[k] = IF k <= 1 THEN leaves ELSE Dr!NextLayer(g[k - 1])
      /\ h[k] = IF k <= 1 THEN leaves ELSE Dr!NextLayer(h[k - 1])
  BY <1>2 DEF LayersUpTo
<1>4. k > 1 /\ k - 1 \in 0..m
  BY <1>2, <1>3
<1>5. k - 1 \notin Bad
  BY <1>2, <1>4
<1> QED
  BY <1>2, <1>3, <1>4, <1>5

LEMMA LayeringRec ==
  ASSUME NEW leaves
  PROVE  Dr!Layering(leaves) =
           [k \in Nat |-> IF k <= 1 THEN leaves ELSE Dr!NextLayer(Dr!Layering(leaves)[k - 1])]
<1> DEFINE upTo(n) == CHOOSE g : LayersUpTo(leaves, n, g)
           f == [k \in Nat |-> upTo(k)[k]]
<1>1. \A n \in Nat : LayersUpTo(leaves, n, upTo(n))
  BY LayersUpToExist
<1> HIDE DEF upTo
<1>2. \A k \in Nat : f[k] = IF k <= 1 THEN leaves ELSE Dr!NextLayer(f[k - 1])
  <2> SUFFICES ASSUME NEW k \in Nat
               PROVE  f[k] = IF k <= 1 THEN leaves ELSE Dr!NextLayer(f[k - 1])
    OBVIOUS
  <2>1. upTo(k)[k] = IF k <= 1 THEN leaves ELSE Dr!NextLayer(upTo(k)[k - 1])
    <3>1. upTo(k) = [j \in 0..k |-> IF j <= 1 THEN leaves ELSE Dr!NextLayer(upTo(k)[j - 1])]
      BY <1>1 DEF LayersUpTo
    <3> HIDE DEF f
    <3> DEFINE p == upTo(k)
    <3>2. p = [j \in 0..k |-> IF j <= 1 THEN leaves ELSE Dr!NextLayer(p[j - 1])]
      BY <3>1
    <3> HIDE DEF p
    <3>3. p[k] = IF k <= 1 THEN leaves ELSE Dr!NextLayer(p[k - 1])
      BY <3>2
    <3> QED
      BY <3>3 DEF p
  <2>2. k > 1 => upTo(k)[k - 1] = upTo(k - 1)[k - 1]
    <3> SUFFICES ASSUME k > 1 PROVE upTo(k)[k - 1] = upTo(k - 1)[k - 1]
      OBVIOUS
    <3>1. k - 1 \in Nat /\ k - 1 <= k /\ k - 1 \in 0..(k - 1)
      OBVIOUS
    <3>2. LayersUpTo(leaves, k, upTo(k)) /\ LayersUpTo(leaves, k - 1, upTo(k - 1))
      BY <1>1, <3>1
    <3> QED
      BY <3>1, <3>2, LayersUpToAgree
  <2>3. CASE k <= 1
    BY <2>1, <2>3
  <2>4. CASE k > 1
    <3>1. k - 1 \in Nat
      BY <2>4
    <3>2. f[k] = upTo(k)[k] /\ f[k - 1] = upTo(k - 1)[k - 1]
      BY <3>1
    <3> HIDE DEF f
    <3> QED
      BY <2>1, <2>2, <2>4, <3>2
  <2> QED
    BY <2>3, <2>4
<1>3. f = [k \in Nat |-> IF k <= 1 THEN leaves ELSE Dr!NextLayer(f[k - 1])]
  BY <1>2
<1> HIDE DEF f
<1> QED
  BY <1>3, Zenon DEF Dr!Layering
PlacesUpTo(leaf, n, g) ==
  g = [k \in 0..n |-> IF k <= 1 THEN leaf ELSE (g[k - 1] + 1) \div 2]

LEMMA PlacesUpToExist == ASSUME NEW leaf, NEW m \in Nat PROVE \E g : PlacesUpTo(leaf, m, g)
<1> DEFINE Bad == { n \in Nat : ~\E g : PlacesUpTo(leaf, n, g) }
<1>1. SUFFICES ASSUME Bad # {} PROVE FALSE
  OBVIOUS
<1>2. PICK n \in Bad : \A x \in Bad : n <= x
  <2>1. Bad \in SUBSET Nat
    OBVIOUS
  <2> HIDE DEF Bad
  <2> QED
    BY <1>1, <2>1, LeastExists
<1>3. n \in Nat /\ ~\E g : PlacesUpTo(leaf, n, g)
  BY <1>2
<1>4. CASE n <= 1
  <2> DEFINE g == [k \in 0..n |-> leaf]
  <2>1. g = [k \in 0..n |-> IF k <= 1 THEN leaf ELSE (g[k - 1] + 1) \div 2]
    BY <1>3, <1>4
  <2> QED
    BY <1>3, <2>1 DEF PlacesUpTo
<1>5. CASE n > 1
  <2>1. n - 1 \in Nat /\ n - 1 \notin Bad
    BY <1>2, <1>3, <1>5
  <2>2. PICK g : PlacesUpTo(leaf, n - 1, g)
    BY <2>1
  <2> DEFINE h == [k \in 0..n |-> IF k = n THEN (g[n - 1] + 1) \div 2 ELSE g[k]]
  <2>3. \A k \in 0..(n - 1) : g[k] = IF k <= 1 THEN leaf ELSE (g[k - 1] + 1) \div 2
    BY <2>2 DEF PlacesUpTo
  <2>4. \A k \in 0..n : h[k] = IF k <= 1 THEN leaf ELSE (h[k - 1] + 1) \div 2
    BY <1>3, <1>5, <2>3
  <2>5. h = [k \in 0..n |-> IF k <= 1 THEN leaf ELSE (h[k - 1] + 1) \div 2]
    BY <2>4
  <2> QED
    BY <1>3, <2>5 DEF PlacesUpTo
<1> QED
  BY <1>3, <1>4, <1>5

LEMMA PlacesUpToAgree ==
  ASSUME NEW leaf, NEW m \in Nat, NEW n \in Nat, m <= n, NEW g, NEW h,
         PlacesUpTo(leaf, m, g), PlacesUpTo(leaf, n, h)
  PROVE  \A k \in 0..m : g[k] = h[k]
<1> DEFINE Bad == { k \in 0..m : g[k] # h[k] }
<1>1. SUFFICES ASSUME Bad # {} PROVE FALSE
  OBVIOUS
<1>2. PICK k \in Bad : \A x \in Bad : k <= x
  <2>1. Bad \in SUBSET Nat
    OBVIOUS
  <2> HIDE DEF Bad
  <2> QED
    BY <1>1, <2>1, LeastExists
<1>3. /\ g[k] = IF k <= 1 THEN leaf ELSE (g[k - 1] + 1) \div 2
      /\ h[k] = IF k <= 1 THEN leaf ELSE (h[k - 1] + 1) \div 2
  BY <1>2 DEF PlacesUpTo
<1>4. k > 1 /\ k - 1 \in 0..m
  BY <1>2, <1>3
<1>5. k - 1 \notin Bad
  BY <1>2, <1>4
<1> QED
  BY <1>2, <1>3, <1>4, <1>5

LEMMA PlacesRec ==
  ASSUME NEW leaf
  PROVE  Dr!Places(leaf) =
           [k \in Nat |-> IF k <= 1 THEN leaf ELSE (Dr!Places(leaf)[k - 1] + 1) \div 2]
<1> DEFINE upTo(n) == CHOOSE g : PlacesUpTo(leaf, n, g)
           f == [k \in Nat |-> upTo(k)[k]]
<1>1. \A n \in Nat : PlacesUpTo(leaf, n, upTo(n))
  BY PlacesUpToExist
<1> HIDE DEF upTo
<1>2. \A k \in Nat : f[k] = IF k <= 1 THEN leaf ELSE (f[k - 1] + 1) \div 2
  <2> SUFFICES ASSUME NEW k \in Nat
               PROVE  f[k] = IF k <= 1 THEN leaf ELSE (f[k - 1] + 1) \div 2
    OBVIOUS
  <2>1. upTo(k)[k] = IF k <= 1 THEN leaf ELSE (upTo(k)[k - 1] + 1) \div 2
    <3>1. upTo(k) = [j \in 0..k |-> IF j <= 1 THEN leaf ELSE (upTo(k)[j - 1] + 1) \div 2]
      BY <1>1 DEF PlacesUpTo
    <3> HIDE DEF f
    <3> DEFINE p == upTo(k)
    <3>2. p = [j \in 0..k |-> IF j <= 1 THEN leaf ELSE (p[j - 1] + 1) \div 2]
      BY <3>1
    <3> HIDE DEF p
    <3>3. p[k] = IF k <= 1 THEN leaf ELSE (p[k - 1] + 1) \div 2
      BY <3>2
    <3> QED
      BY <3>3 DEF p
  <2>2. k > 1 => upTo(k)[k - 1] = upTo(k - 1)[k - 1]
    <3> SUFFICES ASSUME k > 1 PROVE upTo(k)[k - 1] = upTo(k - 1)[k - 1]
      OBVIOUS
    <3>1. k - 1 \in Nat /\ k - 1 <= k /\ k - 1 \in 0..(k - 1)
      OBVIOUS
    <3>2. PlacesUpTo(leaf, k, upTo(k)) /\ PlacesUpTo(leaf, k - 1, upTo(k - 1))
      BY <1>1, <3>1
    <3> QED
      BY <3>1, <3>2, PlacesUpToAgree
  <2>3. CASE k <= 1
    BY <2>1, <2>3
  <2>4. CASE k > 1
    <3>1. k - 1 \in Nat
      BY <2>4
    <3>2. f[k] = upTo(k)[k] /\ f[k - 1] = upTo(k - 1)[k - 1]
      BY <3>1
    <3> HIDE DEF f
    <3> QED
      BY <2>1, <2>2, <2>4, <3>2
  <2> QED
    BY <2>3, <2>4
<1>3. f = [k \in Nat |-> IF k <= 1 THEN leaf ELSE (f[k - 1] + 1) \div 2]
  BY <1>2
<1> HIDE DEF f
<1> QED
  BY <1>3, Zenon DEF Dr!Places
\* A row of nodes: as many as its length says.
IsRow(s) == Len(s) \in Nat \ {0} /\ s = [i \in 1..Len(s) |-> s[i]]

LEMMA LengthOf ==
  ASSUME NEW n \in Nat, NEW s, s = [i \in 1..n |-> s[i]]
  PROVE  Len(s) = n
<1> DEFINE S == { s[i] : i \in 1..n }
<1>1. s \in [1..n -> S]
  OBVIOUS
<1>2. s \in Seq(S)
  BY <1>1, SeqDef
<1>3. DOMAIN s = 1..n /\ DOMAIN s = 1..Len(s) /\ Len(s) \in Nat
  BY <1>1, <1>2, LenProperties
<1> QED
  BY <1>3

LEMMA RowOfLength ==
  ASSUME NEW n \in Nat \ {0}, NEW s, s = [i \in 1..n |-> s[i]]
  PROVE  Len(s) = n /\ IsRow(s)
  BY LengthOf DEF IsRow

LEMMA NextRow ==
  ASSUME NEW s, IsRow(s)
  PROVE  /\ IsRow(Dr!NextLayer(s)) /\ Len(Dr!NextLayer(s)) = (Len(s) + 1) \div 2
         /\ \A p \in 1..((Len(s) + 1) \div 2) :
              Dr!NextLayer(s)[p] = Dr!HashNode(s[2 * p - 1], IF 2 * p <= Len(s) THEN s[2 * p] ELSE s[2 * p - 1])
<1> DEFINE n == (Len(s) + 1) \div 2
           t == Dr!NextLayer(s)
<1>1. n \in Nat \ {0}
  BY DEF IsRow
<1>2. t = [p \in 1..n |-> Dr!HashNode(s[2 * p - 1], IF 2 * p <= Len(s) THEN s[2 * p] ELSE s[2 * p - 1])]
  BY DEF Dr!NextLayer
<1>3. \A p \in 1..n : t[p] = Dr!HashNode(s[2 * p - 1], IF 2 * p <= Len(s) THEN s[2 * p] ELSE s[2 * p - 1])
  BY <1>2
<1>4. t = [p \in 1..n |-> t[p]]
  BY <1>2
<1> HIDE DEF t, n
<1>5. Len(t) = n /\ IsRow(t)
  BY <1>1, <1>4, RowOfLength
<1> QED
  BY <1>3, <1>5 DEF t, n

LEMMA Halving ==
  ASSUME NEW a \in Nat \ {0}, NEW k \in Nat, NEW n \in Nat, a = 1 \/ a + (k - 1) <= n + 1
  PROVE  (a + 1) \div 2 = 1 \/ ((a + 1) \div 2) + k <= n + 1
<1>1. CASE a <= 2
  BY <1>1
<1>2. CASE a > 2
  <2>1. (a + 1) \div 2 <= a - 1
    BY <1>2
  <2> QED
    BY <1>2, <2>1
<1> QED
  BY <1>1, <1>2

\* Each layer is a row, half as long as the one below it.
LEMMA LayersShrink ==
  ASSUME NEW leaves, IsRow(leaves)
  PROVE  /\ Dr!Layering(leaves)[1] = leaves
         /\ \A k \in Nat \ {0} :
              /\ IsRow(Dr!Layering(leaves)[k])
              /\ Dr!Layering(leaves)[k + 1] = Dr!NextLayer(Dr!Layering(leaves)[k])
              /\ Len(Dr!Layering(leaves)[k]) = 1 \/ Len(Dr!Layering(leaves)[k]) + k <= Len(leaves) + 1
<1> DEFINE L == Dr!Layering(leaves)
           Good(k) == IsRow(L[k]) /\ (Len(L[k]) = 1 \/ Len(L[k]) + k <= Len(leaves) + 1)
           Bad == { k \in Nat \ {0} : ~Good(k) }
<1>0. L = [k \in Nat |-> IF k <= 1 THEN leaves ELSE Dr!NextLayer(L[k - 1])]
  BY LayeringRec
<1> HIDE DEF L
<1>1. L[1] = leaves
  BY <1>0
<1>2. \A k \in Nat \ {0} : L[k + 1] = Dr!NextLayer(L[k])
  <2> SUFFICES ASSUME NEW k \in Nat \ {0} PROVE L[k + 1] = Dr!NextLayer(L[k])
    OBVIOUS
  <2>1. k + 1 \in Nat /\ ~(k + 1 <= 1) /\ (k + 1) - 1 = k
    OBVIOUS
  <2>2. L[k + 1] = IF k + 1 <= 1 THEN leaves ELSE Dr!NextLayer(L[(k + 1) - 1])
    BY <1>0, <2>1
  <2> QED
    BY <2>1, <2>2
<1>3. Bad = {}
  <2>1. SUFFICES ASSUME Bad # {} PROVE FALSE
    OBVIOUS
  <2>2. PICK k \in Bad : \A x \in Bad : k <= x
    <3>1. Bad \in SUBSET Nat
      OBVIOUS
    <3> HIDE DEF Bad
    <3> QED
      BY <2>1, <3>1, LeastExists
  <2>3. k \in Nat \ {0} /\ ~Good(k)
    BY <2>2
  <2>4. k # 1
    BY <1>1, <2>3 DEF IsRow
  <2>5. k - 1 \in Nat \ {0} /\ Good(k - 1)
    BY <2>2, <2>3, <2>4
  <2>6. L[k] = Dr!NextLayer(L[k - 1])
    BY <1>2, <2>5, <2>3
  <2>7. IsRow(L[k]) /\ Len(L[k]) = (Len(L[k - 1]) + 1) \div 2
    BY <2>5, <2>6, NextRow
  <2>8. Len(L[k - 1]) \in Nat \ {0} /\ Len(leaves) \in Nat
    BY <2>5 DEF IsRow
  <2>9. (Len(L[k - 1]) = 1 \/ Len(L[k - 1]) + (k - 1) <= Len(leaves) + 1) /\ IsRow(L[k])
    BY <2>5, <2>7
  <2> HIDE DEF Bad
  <2>10. Len(L[k]) = 1 \/ Len(L[k]) + k <= Len(leaves) + 1
    BY <2>3, <2>7, <2>8, <2>9, Halving
  <2> QED
    BY <2>3, <2>9, <2>10
<1>4. \A k \in Nat \ {0} : Good(k)
  BY <1>3
<1> HIDE DEF Bad
<1> QED
  BY <1>1, <1>2, <1>4 DEF L

\* The tree is the layers up to the first with a single node.
Tree(leaves, h) ==
  /\ h \in Nat \ {0}
  /\ Dr!Layers(leaves) = [k \in 1..h |-> Dr!Layering(leaves)[k]]
  /\ Len(Dr!Layers(leaves)) = h
  /\ Len(Dr!Layering(leaves)[h]) = 1

LEMMA TreeExists == ASSUME NEW leaves, IsRow(leaves) PROVE \E h : Tree(leaves, h)
<1> DEFINE L == Dr!Layering(leaves)
           n == Len(leaves)
           One == { k \in Nat \ {0} : Len(L[k]) = 1 }
<1>1. /\ L[1] = leaves /\ n \in Nat \ {0}
      /\ \A k \in Nat \ {0} : /\ IsRow(L[k]) /\ L[k + 1] = Dr!NextLayer(L[k])
                              /\ Len(L[k]) = 1 \/ Len(L[k]) + k <= n + 1
  BY LayersShrink DEF IsRow
<1>2. \A k \in Nat \ {0} : Len(L[k]) \in Nat \ {0}
  BY <1>1 DEF IsRow
<1>s. \A k \in Nat \ {0} : Len(L[k + 1]) = (Len(L[k]) + 1) \div 2
  BY <1>1, NextRow
<1>d. Dr!Layers(leaves) = [k \in { j \in 1..n : j > 1 => Len(L[j - 1]) > 1 } |-> L[k]]
  BY DEF Dr!Layers
<1> HIDE DEF L, n
<1>3. n \in One
  <2>1. Len(L[n]) \in Nat \ {0} /\ (Len(L[n]) = 1 \/ Len(L[n]) + n <= n + 1)
    BY <1>1, <1>2
  <2>2. ASSUME NEW a \in Nat \ {0}, a = 1 \/ a + n <= n + 1 PROVE a = 1
    BY <1>1, <2>2
  <2>3. Len(L[n]) = 1
    BY <2>1, <2>2
  <2> QED
    BY <1>1, <2>3
<1>4. PICK h \in One : \A x \in One : h <= x
  <2>1. One \in SUBSET Nat /\ One # {}
    BY <1>3
  <2> HIDE DEF One
  <2> QED
    BY <2>1, LeastExists
<1>5. h \in Nat \ {0} /\ Len(L[h]) = 1 /\ h <= n
  BY <1>3, <1>4
<1>6. \A k \in 1..(h - 1) : Len(L[k]) > 1
  <2> SUFFICES ASSUME NEW k \in 1..(h - 1) PROVE Len(L[k]) > 1
    OBVIOUS
  <2>1. k \in Nat \ {0} /\ k \notin One
    BY <1>4, <1>5
  <2>2. Len(L[k]) \in Nat \ {0} /\ Len(L[k]) # 1
    BY <1>2, <2>1
  <2> HIDE DEF One
  <2>3. ASSUME NEW a \in Nat \ {0}, a # 1 PROVE a > 1
    BY <2>3
  <2> QED
    BY <2>2, <2>3
<1>7. \A k \in Nat : k >= h => Len(L[k]) = 1
  <2> DEFINE Bad == { k \in Nat : k >= h /\ Len(L[k]) # 1 }
  <2>1. SUFFICES ASSUME Bad # {} PROVE FALSE
    OBVIOUS
  <2>2. PICK k \in Bad : \A x \in Bad : k <= x
    <3>1. Bad \in SUBSET Nat
      OBVIOUS
    <3> HIDE DEF Bad
    <3> QED
      BY <2>1, <3>1, LeastExists
  <2>3. k \in Nat /\ k > h /\ Len(L[k]) # 1
    BY <1>5, <2>2
  <2>4. k - 1 \in Nat \ {0} /\ Len(L[k - 1]) = 1
    BY <1>5, <2>2, <2>3
  <2>5. Len(L[(k - 1) + 1]) = (Len(L[k - 1]) + 1) \div 2
    BY <1>s, <2>4
  <2>6. (k - 1) + 1 = k
    BY <2>3
  <2> QED
    BY <2>3, <2>4, <2>5, <2>6
<1>8. { j \in 1..n : j > 1 => Len(L[j - 1]) > 1 } = 1..h
  <2>1. ASSUME NEW j \in 1..h PROVE j \in 1..n /\ (j > 1 => Len(L[j - 1]) > 1)
    BY <1>1, <1>5, <1>6
  <2>2. ASSUME NEW j \in 1..n, j > 1 => Len(L[j - 1]) > 1 PROVE j \in 1..h
    <3>1. CASE j = 1
      BY <1>5, <3>1
    <3>2. CASE j > 1
      <4>1. j - 1 \in Nat \ {0} /\ Len(L[j - 1]) > 1
        BY <2>2, <3>2, <1>1
      <4>3. ~(Len(L[j - 1]) = 1)
        <5>1. Len(L[j - 1]) \in Nat
          BY <1>2, <4>1
        <5>2. ASSUME NEW a \in Nat, a > 1 PROVE a # 1
          BY <5>2
        <5> QED
          BY <4>1, <5>1, <5>2
      <4>2. ~(j - 1 >= h)
        BY <1>7, <4>1, <4>3
      <4> QED
        BY <1>1, <1>5, <3>2, <4>2
    <3> QED
      BY <1>1, <3>1, <3>2
  <2> QED
    BY <2>1, <2>2
<1>9. Dr!Layers(leaves) = [k \in 1..h |-> L[k]]
  BY <1>d, <1>8
<1>10. Len(Dr!Layers(leaves)) = h
  <2> DEFINE T == Dr!Layers(leaves)
  <2>1. T = [k \in 1..h |-> T[k]]
    BY <1>9
  <2> HIDE DEF T
  <2>2. Len(T) = h
    BY <1>5, <2>1, RowOfLength
  <2> QED
    BY <2>2 DEF T
<1> QED
  BY <1>5, <1>9, <1>10 DEF Tree, L

\* A leaf's place in each layer is one of its nodes.
LEMMA PlacesInLayers ==
  ASSUME NEW leaves, IsRow(leaves), NEW i \in 1..Len(leaves)
  PROVE  /\ Dr!Places(i)[1] = i
         /\ \A k \in Nat \ {0} : /\ Dr!Places(i)[k] \in 1..Len(Dr!Layering(leaves)[k])
                                 /\ Dr!Places(i)[k + 1] = (Dr!Places(i)[k] + 1) \div 2
<1> DEFINE L == Dr!Layering(leaves)
           P == Dr!Places(i)
           Bad == { k \in Nat \ {0} : ~(P[k] \in 1..Len(L[k])) }
<1>0. P = [k \in Nat |-> IF k <= 1 THEN i ELSE (P[k - 1] + 1) \div 2]
  BY PlacesRec
<1>1. /\ L[1] = leaves
      /\ \A k \in Nat \ {0} : IsRow(L[k]) /\ L[k + 1] = Dr!NextLayer(L[k])
  BY LayersShrink
<1> HIDE DEF L, P
<1>2. P[1] = i
  BY <1>0
<1>3. \A k \in Nat \ {0} : P[k + 1] = (P[k] + 1) \div 2
  <2> SUFFICES ASSUME NEW k \in Nat \ {0} PROVE P[k + 1] = (P[k] + 1) \div 2
    OBVIOUS
  <2>1. k + 1 \in Nat /\ ~(k + 1 <= 1) /\ (k + 1) - 1 = k
    OBVIOUS
  <2>2. P[k + 1] = IF k + 1 <= 1 THEN i ELSE (P[(k + 1) - 1] + 1) \div 2
    BY <1>0, <2>1
  <2> QED
    BY <2>1, <2>2
<1>4. Bad = {}
  <2>1. SUFFICES ASSUME Bad # {} PROVE FALSE
    OBVIOUS
  <2>2. PICK k \in Bad : \A x \in Bad : k <= x
    <3>1. Bad \in SUBSET Nat
      OBVIOUS
    <3> HIDE DEF Bad
    <3> QED
      BY <2>1, <3>1, LeastExists
  <2>3. k \in Nat \ {0} /\ ~(P[k] \in 1..Len(L[k])) /\ k # 1
    BY <1>1, <1>2, <2>2
  <2>4. k - 1 \in Nat \ {0} /\ P[k - 1] \in 1..Len(L[k - 1]) /\ (k - 1) + 1 = k
    BY <2>2, <2>3
  <2>5. P[k] = (P[k - 1] + 1) \div 2
    BY <1>3, <2>4
  <2>6. Len(L[k]) = (Len(L[k - 1]) + 1) \div 2 /\ Len(L[k - 1]) \in Nat
    <3>1. IsRow(L[k - 1]) /\ L[k] = Dr!NextLayer(L[k - 1])
      BY <1>1, <2>4
    <3> QED
      BY <3>1, NextRow DEF IsRow
  <2> HIDE DEF Bad
  <2>7. ASSUME NEW a \in Nat, NEW p \in 1..a PROVE (p + 1) \div 2 \in 1..((a + 1) \div 2)
    OBVIOUS
  <2> QED
    BY <2>3, <2>4, <2>5, <2>6, <2>7
<1> QED
  BY <1>2, <1>3, <1>4 DEF L, P

\* The node above a node is the hash of it and its sibling, each on its side.
LEMMA NodeAbove ==
  ASSUME NEW s, IsRow(s), NEW p \in 1..Len(s)
  PROVE  Dr!NextLayer(s)[(p + 1) \div 2] =
           IF p % 2 = 0 THEN Dr!HashNode(s[Dr!Sibling(s, p)], s[p])
           ELSE Dr!HashNode(s[p], s[Dr!Sibling(s, p)])
<1> DEFINE n == Len(s)
           q == (p + 1) \div 2
<1>1. n \in Nat \ {0} /\ p \in 1..n
  BY DEF IsRow
<1>2. Dr!Sibling(s, p) = IF p % 2 = 0 THEN p - 1 ELSE IF p + 1 <= n THEN p + 1 ELSE p
  BY DEF Dr!Sibling
<1>3. \A r \in 1..((n + 1) \div 2) :
        Dr!NextLayer(s)[r] = Dr!HashNode(s[2 * r - 1], IF 2 * r <= n THEN s[2 * r] ELSE s[2 * r - 1])
  BY NextRow
<1> HIDE DEF n
<1>4. q \in 1..((n + 1) \div 2)
  BY <1>1
<1>5. Dr!NextLayer(s)[q] = Dr!HashNode(s[2 * q - 1], IF 2 * q <= n THEN s[2 * q] ELSE s[2 * q - 1])
  <2> HIDE DEF q
  <2> QED
    BY <1>3, <1>4
<1>6. CASE p % 2 = 0
  <2>1. 2 * q = p /\ 2 * q - 1 = p - 1 /\ 2 * q <= n
    BY <1>1, <1>6
  <2> HIDE DEF q
  <2>2. Dr!NextLayer(s)[q] = Dr!HashNode(s[p - 1], s[p])
    BY <1>5, <2>1
  <2> QED
    BY <1>2, <1>6, <2>2 DEF q
<1>7. CASE p % 2 # 0
  <2>1. 2 * q - 1 = p /\ 2 * q = p + 1
    BY <1>1, <1>7
  <2> HIDE DEF q
  <2>2. Dr!NextLayer(s)[q] = Dr!HashNode(s[p], IF p + 1 <= n THEN s[p + 1] ELSE s[p])
    BY <1>5, <2>1
  <2>3. s[Dr!Sibling(s, p)] = IF p + 1 <= n THEN s[p + 1] ELSE s[p]
    BY <1>2, <1>7
  <2> QED
    BY <1>7, <2>2, <2>3 DEF q
<1> QED
  BY <1>6, <1>7

\* A leaf's own proof leads to the root, whatever its place and their number.
LEMMA ProofReachesRoot ==
  ASSUME NEW leaves, IsRow(leaves), NEW i \in 1..Len(leaves)
  PROVE  Dr!ComputeMerkleRoot(leaves[i], Dr!ProofPath(Dr!Layers(leaves), i)) = Dr!RootOf(Dr!Layers(leaves))
<1>0. PICK h : Tree(leaves, h)
  BY TreeExists
<1> DEFINE L == Dr!Layering(leaves)
           T == Dr!Layers(leaves)
           P == Dr!Places(i)
           path == Dr!ProofPath(T, i)
           leaf == leaves[i]
           U == Dr!Upwards(leaf, path)
           g == [k \in 0..(h - 1) |-> L[k + 1][P[k + 1]]]
<1>1. h \in Nat \ {0} /\ T = [k \in 1..h |-> L[k]] /\ Len(T) = h /\ Len(L[h]) = 1
  BY <1>0 DEF Tree
<1>2. L[1] = leaves /\ \A k \in Nat \ {0} : IsRow(L[k]) /\ L[k + 1] = Dr!NextLayer(L[k])
  BY LayersShrink
<1>3. P[1] = i /\ \A k \in Nat \ {0} : P[k] \in 1..Len(L[k]) /\ P[k + 1] = (P[k] + 1) \div 2
  BY PlacesInLayers
<1>4. path = [k \in 1..(Len(T) - 1) |-> [hash |-> T[k][Dr!Sibling(T[k], P[k])], left |-> P[k] % 2 = 0]]
  BY DEF Dr!ProofPath
<1> HIDE DEF L, T, P
<1>5. \A k \in 1..(h - 1) : path[k].hash = L[k][Dr!Sibling(L[k], P[k])] /\ path[k].left = (P[k] % 2 = 0)
  <2> SUFFICES ASSUME NEW k \in 1..(h - 1)
               PROVE  path[k].hash = L[k][Dr!Sibling(L[k], P[k])] /\ path[k].left = (P[k] % 2 = 0)
    OBVIOUS
  <2>1. T[k] = L[k]
    BY <1>1
  <2>2. path[k] = [hash |-> T[k][Dr!Sibling(T[k], P[k])], left |-> P[k] % 2 = 0]
    BY <1>1, <1>4
  <2> HIDE DEF path
  <2> QED
    BY <2>1, <2>2
<1>6. Len(path) = h - 1
  <2>1. path = [k \in 1..(h - 1) |-> path[k]]
    BY <1>1, <1>4
  <2>2. h - 1 \in Nat
    BY <1>1
  <2> HIDE DEF path
  <2> QED
    BY <2>1, <2>2, LengthOf
<1>u. (\E f : f = [k \in 0..Len(path) |->
                   IF k = 0 THEN leaf
                   ELSE IF path[k].left THEN Dr!HashNode(path[k].hash, f[k - 1]) ELSE Dr!HashNode(f[k - 1], path[k].hash)])
      => U = [k \in 0..Len(path) |->
                   IF k = 0 THEN leaf
                   ELSE IF path[k].left THEN Dr!HashNode(path[k].hash, U[k - 1]) ELSE Dr!HashNode(U[k - 1], path[k].hash)]
  <2> HIDE DEF path, leaf
  <2> QED
    BY Zenon DEF Dr!Upwards
<1>r. Dr!ComputeMerkleRoot(leaf, path) = U[Len(path)]
  BY DEF Dr!ComputeMerkleRoot
<1> HIDE DEF path, U
<1>7. \A k \in 0..(h - 1) :
        g[k] = IF k = 0 THEN leaf
               ELSE IF path[k].left THEN Dr!HashNode(path[k].hash, g[k - 1]) ELSE Dr!HashNode(g[k - 1], path[k].hash)
  <2> SUFFICES ASSUME NEW k \in 0..(h - 1)
               PROVE  g[k] = IF k = 0 THEN leaf
                             ELSE IF path[k].left THEN Dr!HashNode(path[k].hash, g[k - 1])
                                  ELSE Dr!HashNode(g[k - 1], path[k].hash)
    OBVIOUS
  <2>1. CASE k = 0
    <3>1. g[k] = L[k + 1][P[k + 1]] /\ k + 1 = 1
      BY <2>1
    <3>2. g[k] = leaf
      BY <1>2, <1>3, <3>1
    <3> HIDE DEF g, leaf
    <3> QED
      BY <2>1, <3>2
  <2>2. CASE k # 0
    <3>1. k \in Nat \ {0} /\ k \in 1..(h - 1) /\ k - 1 \in 0..(h - 1) /\ (k - 1) + 1 = k
      BY <1>1, <2>2
    <3>2. g[k] = L[k + 1][P[k + 1]] /\ g[k - 1] = L[k][P[k]]
      BY <3>1
    <3>3. IsRow(L[k]) /\ P[k] \in 1..Len(L[k]) /\ L[k + 1] = Dr!NextLayer(L[k]) /\ P[k + 1] = (P[k] + 1) \div 2
      BY <1>2, <1>3, <3>1
    <3>4. L[k + 1][P[k + 1]] = IF P[k] % 2 = 0 THEN Dr!HashNode(L[k][Dr!Sibling(L[k], P[k])], L[k][P[k]])
                               ELSE Dr!HashNode(L[k][P[k]], L[k][Dr!Sibling(L[k], P[k])])
      BY <3>3, NodeAbove
    <3>5. path[k].hash = L[k][Dr!Sibling(L[k], P[k])] /\ path[k].left = (P[k] % 2 = 0)
      BY <1>5, <3>1
    <3> HIDE DEF g
    <3> QED
      BY <2>2, <3>2, <3>4, <3>5
  <2> QED
    BY <2>1, <2>2
<1>8. g = [k \in 0..Len(path) |->
             IF k = 0 THEN leaf
             ELSE IF path[k].left THEN Dr!HashNode(path[k].hash, g[k - 1]) ELSE Dr!HashNode(g[k - 1], path[k].hash)]
  BY <1>6, <1>7
<1>g. g[h - 1] = L[h][P[h]]
  <2>1. h - 1 \in 0..(h - 1) /\ (h - 1) + 1 = h
    BY <1>1
  <2> QED
    BY <2>1
<1> HIDE DEF g, leaf
<1>9. U = [k \in 0..Len(path) |->
             IF k = 0 THEN leaf
             ELSE IF path[k].left THEN Dr!HashNode(path[k].hash, U[k - 1]) ELSE Dr!HashNode(U[k - 1], path[k].hash)]
  BY <1>u, <1>8, Zenon
<1>10. \A k \in 0..(h - 1) : U[k] = g[k]
  <2> DEFINE Bad == { k \in 0..(h - 1) : U[k] # g[k] }
  <2>1. SUFFICES ASSUME Bad # {} PROVE FALSE
    OBVIOUS
  <2>2. PICK k \in Bad : \A x \in Bad : k <= x
    <3>1. Bad \in SUBSET Nat
      OBVIOUS
    <3> HIDE DEF Bad
    <3> QED
      BY <2>1, <3>1, LeastExists
  <2>3. k \in 0..(h - 1) /\ U[k] # g[k]
    BY <2>2
  <2>4. U[k] = IF k = 0 THEN leaf
               ELSE IF path[k].left THEN Dr!HashNode(path[k].hash, U[k - 1]) ELSE Dr!HashNode(U[k - 1], path[k].hash)
    BY <1>6, <1>9, <2>3
  <2>5. g[k] = IF k = 0 THEN leaf
               ELSE IF path[k].left THEN Dr!HashNode(path[k].hash, g[k - 1]) ELSE Dr!HashNode(g[k - 1], path[k].hash)
    BY <1>7, <2>3
  <2>6. k # 0
    BY <2>3, <2>4, <2>5
  <2>7. k - 1 \in 0..(h - 1) /\ k - 1 < k
    BY <1>1, <2>3, <2>6
  <2>8. U[k - 1] = g[k - 1]
    BY <2>2, <2>3, <2>7
  <2> HIDE DEF Bad
  <2> QED
    BY <2>3, <2>4, <2>5, <2>8
<1>11. P[h] = 1
  <2>1. P[h] \in 1..Len(L[h])
    BY <1>1, <1>3
  <2> QED
    BY <1>1, <2>1
<1>12. U[h - 1] = L[h][1]
  BY <1>1, <1>10, <1>11, <1>g
<1>13. Dr!RootOf(T) = L[h][1]
  BY <1>1 DEF Dr!RootOf
<1> QED
  BY <1>6, <1>12, <1>13, <1>r DEF T, path, leaf

\* From a layer the one below it can be read off, given its length.
LEMMA NextLayerInjective ==
  ASSUME NEW s, NEW t, IsRow(s), IsRow(t), Len(s) = Len(t), Dr!NextLayer(s) = Dr!NextLayer(t)
  PROVE  s = t
<1> DEFINE n == Len(s)
<1>1. n \in Nat \ {0} /\ s = [i \in 1..n |-> s[i]] /\ t = [i \in 1..n |-> t[i]]
  BY DEF IsRow
<1>2. \A r \in 1..((n + 1) \div 2) :
        /\ Dr!NextLayer(s)[r] = Dr!HashNode(s[2 * r - 1], IF 2 * r <= n THEN s[2 * r] ELSE s[2 * r - 1])
        /\ Dr!NextLayer(s)[r] = Dr!HashNode(t[2 * r - 1], IF 2 * r <= n THEN t[2 * r] ELSE t[2 * r - 1])
  BY NextRow
<1> HIDE DEF n
<1>3. ASSUME NEW a, NEW b, NEW c, NEW d, Dr!HashNode(a, b) = Dr!HashNode(c, d) PROVE a = c /\ b = d
  BY <1>3 DEF Dr!HashNode
<1>4. ASSUME NEW i \in 1..n PROVE s[i] = t[i]
  <2> DEFINE r == (i + 1) \div 2
  <2>1. r \in 1..((n + 1) \div 2) /\ (i = 2 * r - 1 \/ (i = 2 * r /\ 2 * r <= n))
    <3>1. r \in 1..((n + 1) \div 2)
      BY <1>1
    <3>2. 2 * r = i + 1 \/ 2 * r = i
      BY <1>1
    <3>3. i \in Nat /\ r \in Nat /\ i <= n
      BY <1>1
    <3> HIDE DEF r
    <3>4. i = 2 * r - 1 \/ (i = 2 * r /\ 2 * r <= n)
      BY <1>1, <3>2, <3>3
    <3> QED
      BY <3>1, <3>4
  <2> HIDE DEF r
  <2>2. /\ s[2 * r - 1] = t[2 * r - 1]
        /\ (IF 2 * r <= n THEN s[2 * r] ELSE s[2 * r - 1]) = (IF 2 * r <= n THEN t[2 * r] ELSE t[2 * r - 1])
    BY <1>2, <1>3, <2>1
  <2>3. CASE i = 2 * r - 1
    BY <2>2, <2>3
  <2>4. CASE i = 2 * r /\ 2 * r <= n
    BY <2>2, <2>4
  <2> QED
    BY <2>1, <2>3, <2>4
<1> QED
  BY <1>1, <1>4

\* As many leaves with the same root are the same leaves.
LEMMA RootsIdentifyLeaves ==
  ASSUME NEW a, NEW b, IsRow(a), IsRow(b), Len(a) = Len(b),
         Dr!RootOf(Dr!Layers(a)) = Dr!RootOf(Dr!Layers(b))
  PROVE  a = b
<1> DEFINE A == Dr!Layering(a)
           B == Dr!Layering(b)
<1>1. /\ A[1] = a /\ \A k \in Nat \ {0} : IsRow(A[k]) /\ A[k + 1] = Dr!NextLayer(A[k])
      /\ B[1] = b /\ \A k \in Nat \ {0} : IsRow(B[k]) /\ B[k + 1] = Dr!NextLayer(B[k])
  BY LayersShrink
<1>h. PICK h : Tree(a, h)
  BY TreeExists
<1>j. PICK j : Tree(b, j)
  BY TreeExists
<1>2. /\ h \in Nat \ {0} /\ Dr!Layers(a) = [k \in 1..h |-> A[k]] /\ Len(Dr!Layers(a)) = h /\ Len(A[h]) = 1
      /\ j \in Nat \ {0} /\ Dr!Layers(b) = [k \in 1..j |-> B[k]] /\ Len(Dr!Layers(b)) = j /\ Len(B[j]) = 1
  BY <1>h, <1>j DEF Tree
<1>d. /\ Dr!Layers(a) = [k \in { m \in 1..Len(a) : m > 1 => Len(A[m - 1]) > 1 } |-> A[k]]
      /\ Dr!Layers(b) = [k \in { m \in 1..Len(b) : m > 1 => Len(B[m - 1]) > 1 } |-> B[k]]
  BY DEF Dr!Layers
<1> HIDE DEF A, B
<1>3. \A k \in Nat \ {0} : Len(A[k]) = Len(B[k])
  <2> DEFINE Bad == { k \in Nat \ {0} : Len(A[k]) # Len(B[k]) }
  <2>1. SUFFICES ASSUME Bad # {} PROVE FALSE
    OBVIOUS
  <2>2. PICK k \in Bad : \A x \in Bad : k <= x
    <3>1. Bad \in SUBSET Nat
      OBVIOUS
    <3> HIDE DEF Bad
    <3> QED
      BY <2>1, <3>1, LeastExists
  <2>3. k \in Nat \ {0} /\ k # 1 /\ Len(A[k]) # Len(B[k])
    BY <1>1, <2>2
  <2>4. k - 1 \in Nat \ {0} /\ (k - 1) + 1 = k /\ Len(A[k - 1]) = Len(B[k - 1])
    BY <2>2, <2>3
  <2>5. /\ IsRow(A[k - 1]) /\ A[k] = Dr!NextLayer(A[k - 1])
        /\ IsRow(B[k - 1]) /\ B[k] = Dr!NextLayer(B[k - 1])
    BY <1>1, <2>4
  <2>6. Len(A[k]) = (Len(A[k - 1]) + 1) \div 2 /\ Len(B[k]) = (Len(B[k - 1]) + 1) \div 2
    BY <2>5, NextRow
  <2> HIDE DEF Bad
  <2> QED
    BY <2>3, <2>4, <2>6
<1>4. h = j
  <2>1. { m \in 1..Len(a) : m > 1 => Len(A[m - 1]) > 1 } = { m \in 1..Len(b) : m > 1 => Len(B[m - 1]) > 1 }
    <3>1. \A m \in 1..Len(a) : m > 1 => Len(A[m - 1]) = Len(B[m - 1])
      <4>1. \A m \in 1..Len(a) : m > 1 => m - 1 \in Nat \ {0}
        BY DEF IsRow
      <4> QED
        BY <1>3, <4>1
    <3> QED
      BY <3>1
  <2>2. DOMAIN Dr!Layers(a) = DOMAIN Dr!Layers(b)
    BY <1>d, <2>1
  <2>3. DOMAIN Dr!Layers(a) = 1..h /\ DOMAIN Dr!Layers(b) = 1..j
    BY <1>2
  <2>4. 1..h = 1..j
    BY <2>2, <2>3
  <2> QED
    BY <1>2, <2>4
<1>5. A[h] = B[h]
  <2>1. A[h][1] = B[h][1]
    <3>1. Dr!RootOf(Dr!Layers(a)) = A[h][1] /\ Dr!RootOf(Dr!Layers(b)) = B[h][1]
      BY <1>2, <1>4 DEF Dr!RootOf
    <3> QED
      BY <3>1
  <2>2. A[h] = [k \in 1..1 |-> A[h][k]] /\ B[h] = [k \in 1..1 |-> B[h][k]]
    <3>1. IsRow(A[h]) /\ IsRow(B[h]) /\ Len(A[h]) = 1 /\ Len(B[h]) = 1
      BY <1>1, <1>2, <1>4
    <3> QED
      BY <3>1 DEF IsRow
  <2> DEFINE x == A[h]
             y == B[h]
  <2>3. x = [k \in 1..1 |-> x[k]] /\ y = [k \in 1..1 |-> y[k]] /\ x[1] = y[1]
    BY <2>1, <2>2
  <2> HIDE DEF x, y
  <2>4. x = y
    BY <2>3
  <2> QED
    BY <2>4 DEF x, y
<1>6. A[1] = B[1]
  <2> DEFINE Same == { k \in Nat \ {0} : A[k] = B[k] }
  <2>1. Same \in SUBSET Nat /\ h \in Same
    BY <1>2, <1>5
  <2>2. PICK k \in Same : \A x \in Same : k <= x
    <3> HIDE DEF Same
    <3> QED
      BY <2>1, LeastExists
  <2>3. SUFFICES ASSUME k # 1 PROVE FALSE
    BY <2>2
  <2>4. k \in Nat \ {0} /\ k - 1 \in Nat \ {0} /\ (k - 1) + 1 = k /\ A[k] = B[k]
    BY <2>2, <2>3
  <2>5. k - 1 \notin Same
    BY <2>2, <2>4
  <2>6. A[k - 1] # B[k - 1]
    BY <2>4, <2>5
  <2> HIDE DEF Same
  <2>7. /\ IsRow(A[k - 1]) /\ A[k] = Dr!NextLayer(A[k - 1])
        /\ IsRow(B[k - 1]) /\ B[k] = Dr!NextLayer(B[k - 1])
        /\ Len(A[k - 1]) = Len(B[k - 1])
    BY <1>1, <1>3, <2>4
  <2> QED
    BY <2>4, <2>6, <2>7, NextLayerInjective
<1> QED
  BY <1>1, <1>6

\* The tree's leaves are the hashes of the rows.
Hashed(list) == [i \in 1..Len(list) |-> Dr!HashLeaf(list[i])]

LEMMA HashedRows ==
  ASSUME NEW list \in Seq(Payloads), list # << >>
  PROVE  /\ IsRow(Hashed(list)) /\ Len(Hashed(list)) = Len(list)
         /\ \A i \in 1..Len(list) : Hashed(list)[i] = Dr!HashLeaf(list[i])
         /\ Dr!BuildMerkleTree(list) = Dr!Layers(Hashed(list))
<1> DEFINE s == Hashed(list)
<1>1. Len(list) \in Nat \ {0}
  OBVIOUS
<1>2. s = [i \in 1..Len(list) |-> s[i]] /\ \A i \in 1..Len(list) : s[i] = Dr!HashLeaf(list[i])
  BY DEF Hashed
<1>3. Dr!BuildMerkleTree(list) = Dr!Layers(s)
  BY DEF Dr!BuildMerkleTree, Hashed
<1> HIDE DEF s
<1>4. Len(s) = Len(list) /\ IsRow(s)
  BY <1>1, <1>2, RowOfLength
<1> QED
  BY <1>2, <1>3, <1>4 DEF s

\* The root is of as many rows as the day has, which come in no more once it is over.
RootInv ==
  /\ dayRows \in Seq(Payloads)
  /\ dailyRoot # Dr!NoRoot =>
       /\ dayOver /\ rolledUp \in Seq(Payloads) /\ rolledUp # << >> /\ Len(rolledUp) = Len(dayRows)
       /\ dailyRoot = Dr!RootOf(Dr!BuildMerkleTree(rolledUp))

LEMMA RootMoves == [Next]_vars => Dr!DailyRootNext \/ UNCHANGED rootState
  BY DEF Next, Frame, vars

LEMMA RootFirst == Init => RootInv
  BY DEF Init, Dr!DailyRootInit, RootInv

LEMMA RootStep == RootInv /\ [Next]_vars => RootInv'
<1> SUFFICES ASSUME RootInv, [Next]_vars PROVE RootInv'
  OBVIOUS
<1>1. CASE UNCHANGED rootState
  BY <1>1 DEF rootState, RootInv
<1>2. CASE Dr!DayEnds
  BY <1>2 DEF Dr!DayEnds, RootInv
<1>3. CASE Dr!ComputeDailyMerkleRoot
  BY <1>3 DEF Dr!ComputeDailyMerkleRoot, RootInv
<1>4. ASSUME NEW x \in Payloads, Dr!ChecksumAdded(x) PROVE RootInv'
  BY <1>4 DEF Dr!ChecksumAdded, RootInv
<1>5. ASSUME NEW x \in Payloads, NEW i \in 1..Len(dayRows), Dr!RowEdited(i, x) PROVE RootInv'
  <2>1. dayRows' \in Seq(Payloads) /\ Len(dayRows') = Len(dayRows)
    BY <1>5 DEF Dr!RowEdited, RootInv
  <2> QED
    BY <1>5, <2>1 DEF Dr!RowEdited, RootInv
<1> QED
  BY <1>1, <1>2, <1>3, <1>4, <1>5, RootMoves DEF Dr!DailyRootNext

\* What verifyPaymentInDailyRoot answers: whether the root is that of the day's rows.
LEMMA VerifiesByRoot ==
  ASSUME RootInv, dailyRoot # Dr!NoRoot, NEW i \in 1..Len(dayRows)
  PROVE  Dr!VerifyPaymentInDailyRoot(i) <=> dailyRoot = Dr!RootOf(Dr!BuildMerkleTree(dayRows))
<1>1. dayRows \in Seq(Payloads) /\ dayRows # << >>
  BY DEF RootInv
<1> DEFINE leaves == Hashed(dayRows)
<1>2. /\ IsRow(leaves) /\ i \in 1..Len(leaves)
      /\ leaves[i] = Dr!HashLeaf(dayRows[i]) /\ Dr!BuildMerkleTree(dayRows) = Dr!Layers(leaves)
  BY <1>1, HashedRows
<1> HIDE DEF leaves
<1>3. Dr!ComputeMerkleRoot(leaves[i], Dr!ProofPath(Dr!Layers(leaves), i)) = Dr!RootOf(Dr!Layers(leaves))
  BY <1>2, ProofReachesRoot
<1> QED
  BY <1>2, <1>3 DEF Dr!VerifyPaymentInDailyRoot

LEMMA RootSuffices == RootInv => Dr!UntouchedVerifies /\ Dr!EditedFails
<1> SUFFICES ASSUME RootInv PROVE Dr!UntouchedVerifies /\ Dr!EditedFails
  OBVIOUS
<1>1. Dr!UntouchedVerifies
  BY VerifiesByRoot DEF RootInv, Dr!UntouchedVerifies
<1>2. Dr!EditedFails
  <2> SUFFICES ASSUME dailyRoot # Dr!NoRoot, dayRows # rolledUp, NEW i \in 1..Len(dayRows),
                      Dr!VerifyPaymentInDailyRoot(i)
               PROVE  FALSE
    BY DEF Dr!EditedFails
  <2>1. /\ dayRows \in Seq(Payloads) /\ dayRows # << >>
        /\ rolledUp \in Seq(Payloads) /\ rolledUp # << >> /\ Len(rolledUp) = Len(dayRows)
    BY DEF RootInv
  <2>2. Dr!RootOf(Dr!BuildMerkleTree(dayRows)) = Dr!RootOf(Dr!BuildMerkleTree(rolledUp))
    BY VerifiesByRoot DEF RootInv
  <2>3. Hashed(dayRows) = Hashed(rolledUp)
    BY <2>1, <2>2, HashedRows, RootsIdentifyLeaves
  <2>4. \A k \in 1..Len(dayRows) : Dr!HashLeaf(dayRows[k]) = Dr!HashLeaf(rolledUp[k])
    BY <2>1, <2>3, HashedRows
  <2>5. \A k \in 1..Len(dayRows) : dayRows[k] = rolledUp[k]
    BY <2>4 DEF Dr!HashLeaf
  <2> QED
    BY <2>1, <2>5
<1> QED
  BY <1>1, <1>2

\* The chain never forks and an append without a database error gives up only when
\* overtaken at every attempt; and for any number of rows, at any place, a day's payments
\* verify against its root exactly while no stored checksum differs from those of its
\* last roll-up (checksumChain.service.ts, merkle.ts).
THEOREM AuditIsSafe == Spec => []AuditSafe
<1>1. Spec => []RootInv
  BY RootFirst, RootStep, PTL DEF Spec
<1>2. RootInv => Dr!UntouchedVerifies /\ Dr!EditedFails
  BY RootSuffices
<1>3. Ch!ChainNeverForks /\ Ch!GapNeedsRivals /\ Dr!UntouchedVerifies /\ Dr!EditedFails => AuditSafe
  BY DEF AuditSafe
<1> QED
  BY <1>1, <1>2, <1>3, ChainIsSafe, PTL
=============================================================================
