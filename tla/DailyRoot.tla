------------------------------ MODULE DailyRoot ------------------------------
(***************************************************************************)
(* The daily Merkle root over the payment checksums                         *)
(* (services/checksumChain.service.ts, packages/shared/src/merkle.ts) and   *)
(* the proof that a payment is in it.  Hashes are free terms: two are equal *)
(* only when what was hashed is.                                            *)
(***************************************************************************)
EXTENDS Naturals, Sequences

CONSTANTS
  Payloads,   \* payload hashes
  MaxLeaves,  \* bound: checksums of the day
  MaxEdits    \* bound: edits of stored rows (two can swap rows)

VARIABLES
  dayRows,    \* PaymentChecksum rows of the day by sequence, as payload hashes
  dayOver,    \* the day has passed
  dailyRoot,  \* the stored root, NoRoot before the roll-up
  rolledUp,   \* history: the rows at the last roll-up
  edits       \* history: edits so far

rootState == << dayRows, dayOver, dailyRoot, rolledUp, edits >>
NoRoot == << >>

HashLeaf(x) == << "leaf", x >>
HashNode_Unordered(l, r) == << "node", {l, r} >>
HashNode(l, r) == << "node", l, r >>

NextLayer_Promotes(layer) ==
  [i \in 1..((Len(layer) + 1) \div 2) |->
     IF 2 * i <= Len(layer) THEN HashNode(layer[2 * i - 1], layer[2 * i]) ELSE layer[2 * i - 1]]

\* Neighbours in pairs; an odd node at the end is paired with itself.
NextLayer(layer) ==
  [i \in 1..((Len(layer) + 1) \div 2) |->
     HashNode(layer[2 * i - 1], IF 2 * i <= Len(layer) THEN layer[2 * i] ELSE layer[2 * i - 1])]

\* Layer by layer, until one has a single node.
Layering(leaves) ==
  LET layer[k \in Nat] == IF k <= 1 THEN leaves ELSE NextLayer(layer[k - 1])
  IN  layer
Layers(leaves) ==
  LET layer == Layering(leaves)
  IN  [k \in { j \in 1..Len(leaves) : j > 1 => Len(layer[j - 1]) > 1 } |-> layer[k]]

BuildMerkleTree(leaves) == Layers([i \in 1..Len(leaves) |-> HashLeaf(leaves[i])])
RootOf(tree) == tree[Len(tree)][1]

\* generateMerkleProof: at each level the sibling, or the node itself when it has none.
Places(leaf) ==
  LET place[k \in Nat] == IF k <= 1 THEN leaf ELSE (place[k - 1] + 1) \div 2
  IN  place
Sibling(layer, i) == IF i % 2 = 0 THEN i - 1 ELSE IF i + 1 <= Len(layer) THEN i + 1 ELSE i
ProofPath(tree, leaf) ==
  LET place == Places(leaf)
  IN  [k \in 1..(Len(tree) - 1) |->
         [hash |-> tree[k][Sibling(tree[k], place[k])], left |-> place[k] % 2 = 0]]

\* computeMerkleRoot: the hash after each step of the path.
Upwards(leafHash, path) ==
  LET hash[k \in 0..Len(path)] ==
        IF k = 0 THEN leafHash
        ELSE IF path[k].left THEN HashNode(path[k].hash, hash[k - 1]) ELSE HashNode(hash[k - 1], path[k].hash)
  IN  hash
ComputeMerkleRoot(leafHash, path) == Upwards(leafHash, path)[Len(path)]

\* verifyPaymentInDailyRoot, for the payment of row i: a fresh proof from the
\* day's rows against the stored root.
VerifyPaymentInDailyRoot(i) ==
  /\ dailyRoot # NoRoot
  /\ ComputeMerkleRoot(HashLeaf(dayRows[i]), ProofPath(BuildMerkleTree(dayRows), i)) = dailyRoot

DailyRootInit == dayRows = << >> /\ dayOver = FALSE /\ dailyRoot = NoRoot /\ rolledUp = << >> /\ edits = 0

\* appendPaymentChecksum commits a row; a payment has one.
ChecksumAdded(x) ==
  /\ ~dayOver /\ Len(dayRows) < MaxLeaves
  /\ \A i \in 1..Len(dayRows) : dayRows[i] # x
  /\ dayRows' = Append(dayRows, x)
  /\ UNCHANGED << dayOver, dailyRoot, rolledUp, edits >>

DayEnds ==
  /\ ~dayOver
  /\ dayOver' = TRUE
  /\ UNCHANGED << dayRows, dailyRoot, rolledUp, edits >>

\* runDailyChecksumRootJob rolls the day before up; without rows there is no root.
\* A second run for the day, after an edit too, replaces the stored root.
ComputeDailyMerkleRoot ==
  /\ dayOver /\ dayRows # << >>
  /\ dailyRoot' = RootOf(BuildMerkleTree(dayRows))
  /\ rolledUp' = dayRows
  /\ UNCHANGED << dayRows, dayOver, edits >>

\* Somebody edits a stored row afterwards.
RowEdited(i, x) ==
  /\ dailyRoot # NoRoot /\ dayRows[i] # x /\ edits < MaxEdits
  /\ edits' = edits + 1
  /\ dayRows' = [dayRows EXCEPT ![i] = x]
  /\ UNCHANGED << dayOver, dailyRoot, rolledUp >>

DailyRootNext ==
  \/ DayEnds \/ ComputeDailyMerkleRoot
  \/ \E x \in Payloads : ChecksumAdded(x) \/ \E i \in 1..Len(dayRows) : RowEdited(i, x)

-----------------------------------------------------------------------------
(* Properties.                                                             *)

\* While the rows are those of the last roll-up, every payment of the day verifies,
\* whatever its place and the number of rows: a re-run after an edit blesses it.
UntouchedVerifies ==
  dailyRoot # NoRoot /\ dayRows = rolledUp =>
    \A i \in 1..Len(dayRows) : VerifyPaymentInDailyRoot(i)

\* Once any row differs from the last roll-up, swapped rows included, no payment of
\* the day verifies, the untouched ones neither, until the day is rolled up again.
EditedFails ==
  dailyRoot # NoRoot /\ dayRows # rolledUp =>
    \A i \in 1..Len(dayRows) : ~VerifyPaymentInDailyRoot(i)
=============================================================================
