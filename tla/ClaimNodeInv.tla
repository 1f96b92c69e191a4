---------------------------- MODULE ClaimNodeInv ----------------------------
(***************************************************************************)
(* Why the claim payments of a node stay within bounds: the inductive      *)
(* invariants behind the properties of ClaimNode.  They follow the block   *)
(* index through crashes and reorganisations, and one payment from the     *)
(* output that CheckClaims accepts, through the record that ConnectBlock   *)
(* writes, to the block index that survives a crash.                       *)
(***************************************************************************)
EXTENDS ClaimNode

\* The operation in progress connects a stored block on top of the tip.
Connecting == job.phase \in {"start", "vclaim", "vout", "finish", "record"} /\ ~job.just

\* How the variables fit together: a position of a loop is a position of what
\* it loops over, the payments of the job are to registered claims, claims are
\* loaded from the index, and a block that is not dirty is on disk.
ShapeInv ==
  /\ job.k >= 1
  /\ job.phase \in {"idle", "start"} => job.k = 1
  /\ job.phase \in {"claimset", "vclaim"} => job.k <= Len(job.body.vClaim)
  /\ job.phase \in {"idle", "claimset", "start", "vclaim"} => job.paid = EmptyMap
  /\ job.phase # "record" => job.todo = {}
  /\ job.phase = "record" => ~job.just
  /\ Connecting => job.block \in Ids
  /\ DOMAIN job.paid \subseteq DOMAIN claims
  /\ mode # "up" => job = Idle
  /\ pending \subseteq DOMAIN index
  /\ Len(disk.blocks) <= Len(blocks)
  /\ Ids \ dirty \subseteq 1 .. Len(disk.blocks)

TypeInv == TypeOK /\ ShapeInv

\* Every claim of m is one that IsValid accepts before anything is paid.
Sound(m) ==
  \A s \in DOMAIN m : IsValid([source |-> s, target |-> m[s].target, good |-> TRUE], 0, TRUE)

\* The registry against the claim index, also while the index is loaded.
LoadInv ==
  /\ mode = "up" => pending = {}
  /\ mode = "down" => claims = EmptyMap
  /\ mode # "down" => Reflects(index, claims, pending)
  /\ mode = "loading" => DOMAIN claims \subseteq DOMAIN index \ pending
  /\ OneToOne(index) /\ Sound(claims) /\ Sound(index)

\* The registry is one-to-one whatever operation filled it, and while the node
\* runs it holds every claim of the index on disk with the same target, the ones
\* marked seen there as seen.
RegistryInv == TypeInv /\ OneClaimPerTarget /\ LoadInv

-----------------------------------------------------------------------------
\* A job connects a child of the tip, the valid blocks are closed under parents,
\* in memory and on disk, and the block index on disk is a part of the one in
\* memory.
TreeInv ==
  /\ Connecting => blocks[job.block].prev = tip /\ blocks[job.block].body = job.body
  /\ tip \in valid \cup {0}
  /\ \A b \in valid : blocks[b].prev \in valid \cup {0}
  /\ valid \ dirty \subseteq disk.valid /\ disk.valid \subseteq valid
  /\ disk.tip \in disk.valid \cup {0}
  /\ \A b \in disk.valid : blocks[b].prev \in disk.valid \cup {0}
  /\ \A b \in 1 .. Len(disk.blocks) : disk.blocks[b] = blocks[b]

\* The positions that the first n outputs of a block queue: those of the last
\* OP_RETURN output, and none before the output loop has run.
QueueIs(body, n, q) ==
  LET outs == {j \in 1 .. n : body.vout[j].to = OpReturn}
  IN IF body.vClaim = <<>> \/ body.period # "early" \/ outs = {}
     THEN q = {}
     ELSE \E j \in outs : q = body.vout[j].queue /\ \A i \in outs : i <= j

\* No position is queued twice on the branch that ends in block b.
OnceUpTo(b) ==
  \A x, y \in BranchOf(Parent, b) : x # y => queued[x] \cap queued[y] = {}

\* What is queued is a function of the block's outputs, so that connecting a
\* block again writes what it wrote before, and a block is recorded only if its
\* positions are new to the branch.
JobQueue ==
  /\ job.phase \in {"idle", "claimset", "start", "vclaim"} => job.queue = {}
  /\ job.phase = "vout" =>
        job.body.vClaim # <<>> /\ job.k <= Len(job.body.vout) + 1 /\ QueueIs(job.body, job.k - 1, job.queue)
  /\ job.phase \in {"finish", "record"} => QueueIs(job.body, Len(job.body.vout), job.queue)
  /\ job.phase = "record" => queued[job.block] = job.queue /\ job.queue \cap QueuedUpTo(tip) = {}

BlockQueue ==
  /\ \A b \in valid : QueueIs(blocks[b].body, Len(blocks[b].body.vout), queued[b])
  /\ \A b \in valid \cup {0} : OnceUpTo(b)
  /\ \A b \in disk.valid : disk.queued[b] = queued[b]

QueueInv == JobQueue /\ BlockQueue

-----------------------------------------------------------------------------
\* Output j of the job's block has passed the output loop of CheckClaims.
Passed(j) ==
  /\ job.body.vClaim # <<>>
  /\ j \in DOMAIN job.body.vout
  /\ \/ job.phase = "vout" /\ j < job.k
     \/ job.phase \in {"finish", "record"}

\* The payment to source s is one of the outputs that passed, and takes its claim
\* over neither limit.
PaidRight(s) ==
  /\ \E j \in DOMAIN job.body.vout :
        Passed(j) /\ job.body.vout[j].to = claims[s].target /\ job.body.vout[j].value = job.paid[s]
  /\ ~Unchecked(s) => /\ GetTotalReceived(s, tip) + job.paid[s] <= GetEligible(s)
                      /\ GetTotalOutputs(s, tip) + 1 <= MAX_POSSIBLE_OUTPUTS

\* Output j goes to a claim that is paid for it and for no other output, or to no
\* script that could be the target of a claim.
BookedRight(j) ==
  job.body.vout[j].to \in Script =>
    /\ \E s \in DOMAIN job.paid :
          claims[s].target = job.body.vout[j].to /\ job.paid[s] = job.body.vout[j].value
    /\ \A i \in DOMAIN job.body.vout : Passed(i) /\ job.body.vout[i].to = job.body.vout[j].to => i = j

\* What the output loop established: the map of payments is exactly the outputs
\* that passed; and how much of it is recorded.
JobInv ==
  /\ \A s \in DOMAIN job.paid : PaidRight(s)
  /\ \A j \in DOMAIN job.body.vout : Passed(j) => BookedRight(j)
  /\ \A s \in DOMAIN job.paid \ job.todo : job.phase = "record" =>
        /\ s \in DOMAIN nClaims[job.block] /\ nClaims[job.block][s] = job.paid[s]
        /\ s \in DOMAIN index

\* Block b was recorded in full: nClaims names claims of the index only, and
\* holds what each output of the block pays, one output for a claim.
Recorded(b) ==
  /\ \A s \in DOMAIN nClaims[b] : s \in DOMAIN index
  /\ blocks[b].body.vClaim # <<>> =>
        \A j \in DOMAIN blocks[b].body.vout : blocks[b].body.vout[j].to \in Script =>
           /\ \E s \in DOMAIN nClaims[b] :
                 index[s].target = blocks[b].body.vout[j].to /\ nClaims[b][s] = blocks[b].body.vout[j].value
           /\ \A i \in DOMAIN blocks[b].body.vout :
                 blocks[b].body.vout[i].to = blocks[b].body.vout[j].to => i = j

\* Valid blocks are recorded; others are untouched, but for the one that is
\* being recorded.
BlockInv ==
  /\ \A b \in valid : Recorded(b)
  /\ \A b \in Ids \ valid :
        \A s \in DOMAIN nClaims[b] :
           job.phase = "record" /\ job.block = b /\ s \in DOMAIN job.paid \ job.todo

\* The block index on disk agrees with the one in memory on the payments of
\* valid blocks, and holds none of others.
DiskInv ==
  \A b \in 1 .. Len(disk.blocks) :
     /\ b \in disk.valid => disk.nClaims[b] = nClaims[b]
     /\ b \notin disk.valid => disk.nClaims[b] = EmptyMap

\* No valid block, on the active chain or on another branch, takes a claim over
\* what it may receive, or over the number of outputs it may receive it in.
TotalInv ==
  \A b \in valid \cup {0}, s \in Script :
     ~Unchecked(s) => /\ GetTotalReceived(s, b) <= GetEligible(s)
                      /\ GetTotalOutputs(s, b) <= MAX_POSSIBLE_OUTPUTS

PaymentInv == JobInv /\ BlockInv /\ DiskInv /\ TotalInv
=============================================================================
