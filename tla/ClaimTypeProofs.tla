-------------------------- MODULE ClaimTypeProofs --------------------------
(***************************************************************************)
(* What one step of a node does.  For every set of scripts, every snapshot,*)
(* every block and message, any number of blocks, crashes and restarts,    *)
(* and whether or not index writes fail, a step keeps the state well-typed *)
(* and well-shaped (TypeInv), the registry one-to-one and in agreement     *)
(* with the claim index (RegInv), and the block index on disk a part of    *)
(* the one in memory (TreeInv).                                            *)
(***************************************************************************)
EXTENDS ClaimNodeInv, TLAPS

-----------------------------------------------------------------------------
(* Maps. *)

\* The empty map is a map of every type.
LEMMA EmptyIsMap ==
  ASSUME NEW D, NEW R
  PROVE  IsMap(EmptyMap, D, R) /\ DOMAIN EmptyMap = {}
BY Zenon DEF IsMap, EmptyMap

\* The elements of a sequence.
LEMMA SeqElements ==
  ASSUME NEW S, NEW q \in Seq(S)
  PROVE  Len(q) \in Nat /\ DOMAIN q = 1 .. Len(q) /\ \A i \in 1 .. Len(q) : q[i] \in S
OBVIOUS

\* Parts of a block.
LEMMA BodyParts ==
  ASSUME NEW bd \in Body
  PROVE  /\ bd.vClaim \in Seq(CClaim) /\ bd.vout \in Seq(TxOut)
         /\ \A k \in 1 .. Len(bd.vClaim) : bd.vClaim[k] \in CClaim
         /\ \A k \in 1 .. Len(bd.vout) : bd.vout[k] \in TxOut
BY DEF Body

\* Parts of a claim and of a registry entry.
LEMMA ClaimParts ==
  /\ \A c \in CClaim : c.source \in Script /\ c.target \in Script
  /\ \A e \in Entry : e.target \in Script /\ e.seen \in BOOLEAN /\ e.total \in Nat
  /\ \A d \in Script, s \in BOOLEAN, n \in Nat : [target |-> d, seen |-> s, total |-> n] \in Entry
BY Zenon DEF CClaim, Entry

-----------------------------------------------------------------------------
(* Types. *)

\* The idle job is well-typed, and so are jobs that differ in harmless fields.
LEMMA IdleOK ==
  OnlyClaims(<<>>) \in Body /\ IsMap(EmptyMap, Script, Nat) /\ DOMAIN EmptyMap = {}
BY EmptyIsMap DEF OnlyClaims, Body

\* A step that leaves no operation in progress.
LEMMA IdleStep ==
  ASSUME job' = Idle, Len(blocks') \in Nat
  PROVE  /\ JobOK' /\ ~Connecting'
         /\ job'.phase = "idle" /\ job'.k = 1 /\ job'.paid = EmptyMap /\ DOMAIN job'.paid = {}
         /\ job'.queue = {} /\ job'.todo = {}
<1>1. /\ job'.phase = "idle" /\ job'.block = 0 /\ job'.just = FALSE /\ job'.body = OnlyClaims(<<>>)
      /\ job'.k = 1 /\ job'.paid = EmptyMap /\ job'.queue = {} /\ job'.todo = {}
  BY Zenon DEF Idle
<1>2. 0 \in 0 .. Len(blocks') /\ 1 \in Nat
  OBVIOUS
<1>3. ~Connecting'
  BY <1>1, Zenon DEF Connecting
<1>4. JobOK'
  BY <1>1, <1>2, IdleOK, Zenon DEF JobOK, Idle
<1> QED BY <1>1, <1>3, <1>4, IdleOK, Zenon

\* What GetTotalReceived computes are amounts.
TotalsOK == \A s \in Script, b \in 0 .. Len(blocks) : GetTotalReceived(s, b) \in Nat

\* The initial state is well-typed.
LEMMA TypeInit ==
  ASSUME Init
  PROVE  TypeInv
<1>1. IsMap(EmptyMap, Script, Entry)
  BY EmptyIsMap, Zenon
<1>2. TreeOK(<<>>, EmptyMap, EmptyMap, {}, {}, 0)
  BY DEF TreeOK, EmptyMap
<1>3. JobOK
  BY IdleOK DEF JobOK, Init, Idle
<1>4. ShapeInv
  BY IdleOK DEF ShapeInv, Init, Idle, Connecting, Ids
<1> QED BY <1>1, <1>2, <1>3, <1>4, Zenon DEF TypeInv, TypeOK, Init, Ids

\* What TypeInv says of the job.
LEMMA JobParts ==
  ASSUME TypeInv
  PROVE  /\ JobOK /\ ShapeInv /\ job.body \in Body /\ job.k \in Nat /\ job.k >= 1
         /\ IsMap(claims, Script, Entry) /\ IsMap(index, Script, Entry)
         /\ blocks \in Seq([prev : Nat, body : Body]) /\ Len(blocks) \in Nat
         /\ job.phase # "idle" => mode = "up"
<1>1. JobOK /\ ShapeInv /\ job.body \in Body /\ job.k \in Nat /\ job.k >= 1
  BY Zenon DEF TypeInv, TypeOK, JobOK, ShapeInv
<1>2. IsMap(claims, Script, Entry) /\ IsMap(index, Script, Entry)
  BY Zenon DEF TypeInv, TypeOK
<1>3. blocks \in Seq([prev : Nat, body : Body]) /\ Len(blocks) \in Nat
  BY DEF TypeInv, TypeOK, TreeOK
<1>4. job.phase # "idle" => mode = "up"
  BY <1>1 DEF ShapeInv, Idle
<1> QED BY <1>1, <1>2, <1>3, <1>4, Zenon

\* The fields that a job has when it begins.
NewJob(j) ==
  /\ j = [phase |-> j.phase, block |-> j.block, just |-> j.just, body |-> j.body,
          k |-> j.k, paid |-> j.paid, queue |-> j.queue, todo |-> j.todo]
  /\ j.k = 1 /\ j.paid = EmptyMap /\ j.queue = {} /\ j.todo = {}

\* What TypeInv says of the chain.
LEMMA ChainParts ==
  ASSUME TypeInv
  PROVE  /\ TreeOK(blocks, nClaims, queued, valid, failed, tip) /\ dirty \subseteq Ids
         /\ TreeOK(disk.blocks, disk.nClaims, disk.queued, disk.valid, disk.failed, disk.tip)
         /\ Len(blocks) \in Nat /\ Len(disk.blocks) \in Nat
         /\ DOMAIN nClaims = Ids /\ \A b \in Ids : IsMap(nClaims[b], Script, Nat)
         /\ queued \in [Ids -> SUBSET Nat]
         /\ valid \subseteq Ids /\ failed \subseteq Ids /\ tip \in 0 .. Len(blocks)
BY DEF TypeInv, TypeOK, TreeOK, Ids

\* A write that fails is never forgotten.
LEMMA WrittenStep ==
  ASSUME [Next]_vars
  PROVE  written' = written \/ written' = FALSE
<1>1. CASE UNCHANGED vars
  BY <1>1, Zenon DEF vars
<1>2. CASE Running
  <2>1. ASSUME NEW s, NEW e, AddClaim(s, e) PROVE written' = written \/ written' = FALSE
    BY <2>1, Zenon DEF AddClaim
  <2>2. ASSUME NEW c, ReceiveClaim(c) \/ QueueClaim(c) PROVE written' = written \/ written' = FALSE
    BY <2>1, <2>2, Zenon DEF ReceiveClaim, QueueClaim, Register
  <2>3. ASSUME NEW s, RecordClaim(s) PROVE written' = written \/ written' = FALSE
    BY <2>1, <2>3, Zenon DEF RecordClaim
  <2>4. ASSUME ApplyClaim PROVE written' = written \/ written' = FALSE
    BY <2>4, Zenon DEF ApplyClaim
  <2>5. ASSUME NEW x, NEW p, StartClaimSet(x) \/ AcceptBlock(p, x) \/ StartConnect(x) \/ StartTest(x)
        PROVE  written' = written
    BY <2>5, Zenon DEF StartClaimSet, AcceptBlock, StartConnect, StartTest
  <2>6. ASSUME Reject \/ CheckClaims \/ CheckVClaim \/ CheckVOut PROVE written' = written
    BY <2>6, Zenon DEF Reject, CheckClaims, CheckVClaim, CheckVOut
  <2>7. ASSUME VOutDone \/ FinishChecks \/ ConnectTip \/ DisconnectTip PROVE written' = written
    BY <2>7, Zenon DEF VOutDone, FinishChecks, ConnectTip, DisconnectTip
  <2> QED BY <1>2, <2>2, <2>3, <2>4, <2>5, <2>6, <2>7, Zenon DEF Running
<1>3. CASE Persistence
  BY <1>3, Zenon DEF Persistence, Flush, Crash, Restart, LoadClaim, LoadDone
<1> QED BY <1>1, <1>2, <1>3, Zenon DEF Next

\* Every step keeps the types.
LEMMA TypeNext == TypeInv /\ TotalsOK /\ [Next]_vars => TypeInv'
\* A job that stops, and leaves the rest of the state alone, is well-typed.
<1>TypeStop.
  ASSUME TypeInv, written' \in BOOLEAN, job' = Idle,
         IsMap(claims', Script, Entry), IsMap(index', Script, Entry),
         DOMAIN index \subseteq DOMAIN index',
         failed' \subseteq Ids, dirty' \subseteq Ids, dirty \subseteq dirty',
         UNCHANGED <<mode, blocks, nClaims, queued, valid, tip, disk, pending>>
  PROVE  TypeInv'
  <2> USE <1>TypeStop
  <2>0. Len(blocks') \in Nat
    BY DEF TypeInv, TypeOK, TreeOK
  <2>1. JobOK'
    BY <2>0, IdleStep, Zenon
  <2>2. TreeOK(blocks, nClaims, queued, valid, failed, tip)'
    BY Zenon DEF TypeInv, TypeOK, TreeOK, Ids
  <2>3. ShapeInv'
    <3>1. Ids' = Ids /\ pending \subseteq DOMAIN index /\ Len(disk.blocks) <= Len(blocks)
          /\ Ids \ dirty \subseteq 1 .. Len(disk.blocks)
      BY Zenon DEF TypeInv, ShapeInv, Ids
    <3> QED BY <2>0, <3>1, IdleStep DEF ShapeInv
  <2> QED BY <2>1, <2>2, <2>3, Zenon DEF TypeInv, TypeOK, Ids
\* Fail stops the job.
<1>TypeFail.
  ASSUME TypeInv, written' \in BOOLEAN, Fail, job.phase # "idle", job.phase # "claimset",
         IsMap(claims', Script, Entry),
         UNCHANGED <<mode, index, blocks, nClaims, queued, valid, tip, disk, pending>>
  PROVE  TypeInv'
  <2> USE <1>TypeFail
  <2>1. job' = Idle
    BY Zenon DEF Fail
  <2>2. failed \subseteq Ids /\ dirty \subseteq Ids /\ (~job.just => job.block \in Ids)
    BY Zenon DEF TypeInv, TypeOK, TreeOK, Ids, ShapeInv, Connecting, JobOK
  <2>3. failed' \subseteq Ids /\ dirty' \subseteq Ids /\ dirty \subseteq dirty'
    BY <2>2, Zenon DEF Fail
  <2>4. IsMap(index', Script, Entry)
    BY Zenon DEF TypeInv, TypeOK
  <2> QED BY <2>1, <2>3, <2>4, <1>TypeStop, Zenon
\* The job takes a step that leaves the chain alone.
<1>TypeMove.
  ASSUME TypeInv, written' \in BOOLEAN, mode = "up", JobOK',
         IsMap(claims', Script, Entry), IsMap(index', Script, Entry),
         DOMAIN index \subseteq DOMAIN index', DOMAIN job'.paid \subseteq DOMAIN claims',
         job'.k >= 1,
         job'.phase \in {"idle", "start"} => job'.k = 1,
         job'.phase \in {"claimset", "vclaim"} => job'.k <= Len(job'.body.vClaim),
         job'.phase \in {"idle", "claimset", "start", "vclaim"} => job'.paid = EmptyMap,
         job'.phase # "record" => job'.todo = {},
         job'.phase = "record" => ~job'.just,
         Connecting' => job'.block \in Ids,
         UNCHANGED <<mode, chain, disk, pending>>
  PROVE  TypeInv'
  <2> USE <1>TypeMove
  <2>1. ShapeInv'
    BY Zenon DEF ShapeInv, chain, Ids, TypeInv, Connecting
  <2>2. TreeOK(blocks, nClaims, queued, valid, failed, tip)'
    BY Zenon DEF TypeInv, TypeOK, chain
  <2> QED BY <2>1, <2>2, Zenon DEF TypeInv, TypeOK, chain, Ids
\* Registering a claim keeps registry and index typed.
<1>RegisterMaps.
  ASSUME TypeInv, NEW c \in CClaim, Register(c)
  PROVE  /\ IsMap(claims', Script, Entry) /\ IsMap(index', Script, Entry)
         /\ DOMAIN index \subseteq DOMAIN index' /\ DOMAIN claims \subseteq DOMAIN claims'
  <2> USE <1>RegisterMaps
  <2> DEFINE e == [target |-> c.target, seen |-> FALSE, total |-> 0]
  <2>1. c.source \in Script /\ e \in Entry
    BY ClaimParts, Zenon
  <2> HIDE DEF e
  <2>2. /\ IsMap(Put(claims, c.source, e), Script, Entry)
        /\ DOMAIN Put(claims, c.source, e) = DOMAIN claims \cup {c.source}
    <3>1. IsMap(claims, Script, Entry)
      BY Zenon DEF TypeInv, TypeOK
    <3> QED BY <2>1, <3>1, Zenon DEF IsMap, Put
  <2>4. /\ IsMap(Put(index, c.source, e), Script, Entry)
        /\ DOMAIN Put(index, c.source, e) = DOMAIN index \cup {c.source}
    <3>1. IsMap(index, Script, Entry)
      BY Zenon DEF TypeInv, TypeOK
    <3> QED BY <2>1, <3>1, Zenon DEF IsMap, Put
  <2>3. claims' = Put(claims, c.source, e) /\ (index' = Put(index, c.source, e) \/ index' = index)
    BY Zenon DEF Register, AddClaim, e
  <2> QED BY <2>2, <2>3, <2>4, Zenon DEF TypeInv, TypeOK
\* CLAIM messages and queueclaim calls keep the types.
<1>TypeReceive.
  ASSUME TypeInv, written' \in BOOLEAN, NEW c \in Gossip, ReceiveClaim(c) \/ QueueClaim(c)
  PROVE  TypeInv'
  <2> USE <1>TypeReceive
  <2>1. c \in CClaim
    BY NodeAssumption, Zenon
  <2>2. Register(c) /\ mode = "up" /\ job.phase = "idle" /\ UNCHANGED <<mode, chain, disk, job, pending>>
    BY Zenon DEF ReceiveClaim, QueueClaim, Free
  <2>3. /\ IsMap(claims', Script, Entry) /\ IsMap(index', Script, Entry)
        /\ DOMAIN index \subseteq DOMAIN index' /\ DOMAIN claims \subseteq DOMAIN claims'
    BY <2>1, <2>2, <1>RegisterMaps, Zenon
  <2>4. JobOK'
    BY <2>2, Zenon DEF JobOK, TypeInv, TypeOK, chain
  <2> QED BY <2>2, <2>3, <2>4, <1>TypeMove, Zenon DEF TypeInv, ShapeInv, Connecting
\* A job that begins is well-typed.
<1>TypeNewJob.
  ASSUME TypeInv, written' \in BOOLEAN, mode = "up", NewJob(job'),
         job'.phase \in {"claimset", "start"}, job'.block \in 0 .. Len(blocks),
         job'.just \in BOOLEAN, job'.body \in Body,
         job'.phase = "claimset" => Len(job'.body.vClaim) >= 1,
         job'.phase = "start" /\ ~job'.just => job'.block \in Ids,
         UNCHANGED <<mode, claims, index, chain, disk, pending>>
  PROVE  TypeInv'
  <2> USE <1>TypeNewJob
  <2>1. JobOK'
    BY IdleOK DEF NewJob, JobOK, chain
  <2>2. IsMap(claims', Script, Entry) /\ IsMap(index', Script, Entry)
    BY JobParts, Zenon
  <2> QED BY <2>1, <2>2, IdleOK, <1>TypeMove DEF Connecting, NewJob
\* Starting an operation keeps the types.
<1>TypeStart.
  ASSUME TypeInv, written' \in BOOLEAN,
         \/ \E cs \in ClaimSets : StartClaimSet(cs)
         \/ \E b \in Ids : StartConnect(b)
         \/ \E body \in Bodies : StartTest(body)
  PROVE  TypeInv'
  <2> USE <1>TypeStart
  <2>1. Len(blocks) \in Nat
    BY JobParts, Zenon
  <2>2. CASE \E cs \in ClaimSets : StartClaimSet(cs)
    <3>1. PICK cs \in ClaimSets : StartClaimSet(cs)
      BY <2>2, Zenon
    <3>2. cs \in Seq(CClaim) /\ Len(cs) >= 1
      BY NodeAssumption
    <3>4. OnlyClaims(cs) \in Body /\ OnlyClaims(cs).vClaim = cs
      BY <3>2 DEF Body, OnlyClaims
    <3>6. NewJob(job') /\ job'.phase = "claimset" /\ job'.block = 0 /\ job'.just \in BOOLEAN /\ ~job'.just
          /\ job'.body = OnlyClaims(cs)
      BY <3>1, Zenon DEF StartClaimSet, Idle, NewJob
    <3>7. mode = "up" /\ UNCHANGED <<mode, claims, index, chain, disk, pending>>
      BY <3>1, Zenon DEF StartClaimSet, Free
    <3> QED BY <2>1, <3>2, <3>4, <3>6, <3>7, <1>TypeNewJob
  <2>3. CASE \E b \in Ids : StartConnect(b)
    <3>1. PICK b \in Ids : StartConnect(b)
      BY <2>3, Zenon
    <3>2. blocks[b].body \in Body
      <4>1. blocks[b] \in [prev : Nat, body : Body]
        BY JobParts, SeqElements, Zenon DEF Ids
      <4> QED BY <4>1, Zenon
    <3>3. NewJob(job') /\ job'.phase = "start" /\ job'.block = b /\ job'.just \in BOOLEAN /\ job'.body = blocks[b].body
      BY <3>1, Zenon DEF StartConnect, Idle, NewJob
    <3>4. mode = "up" /\ UNCHANGED <<mode, claims, index, chain, disk, pending>>
      BY <3>1, Zenon DEF StartConnect, Free
    <3> QED BY <2>1, <3>2, <3>3, <3>4, <1>TypeNewJob DEF Ids
  <2>4. CASE \E body \in Bodies : StartTest(body)
    <3>1. PICK body \in Bodies : StartTest(body)
      BY <2>4, Zenon
    <3>2. body \in Body
      BY NodeAssumption, Zenon
    <3>3. NewJob(job') /\ job'.phase = "start" /\ job'.block = 0 /\ job'.just /\ job'.body = body
      BY <3>1, Zenon DEF StartTest, Idle, NewJob
    <3>4. mode = "up" /\ UNCHANGED <<mode, claims, index, chain, disk, pending>>
      BY <3>1, Zenon DEF StartTest, Free
    <3> QED BY <2>1, <3>2, <3>3, <3>4, <1>TypeNewJob
  <2> QED BY <2>2, <2>3, <2>4, Zenon
\* Advancing through a claim set keeps the job typed.
<1>TypeAdvance.
  ASSUME TypeInv, written' \in BOOLEAN, job.phase = "claimset", NEW on \in BOOLEAN, Advance(on),
         IsMap(claims', Script, Entry), IsMap(index', Script, Entry),
         DOMAIN index \subseteq DOMAIN index',
         UNCHANGED <<mode, chain, disk, pending>>
  PROVE  TypeInv'
  <2> USE <1>TypeAdvance
  <2>1. CASE job' = Idle
    BY <2>1, <1>TypeStop, Zenon DEF chain, TypeInv, TypeOK, TreeOK, Ids
  <2>2. CASE job.k < Len(job.body.vClaim) /\ job' = [job EXCEPT !.k = @ + 1]
    <3>0. JobOK /\ ShapeInv /\ job.k \in Nat /\ mode = "up"
      BY JobParts, Zenon
    <3>1. JobOK'
      BY <2>2, <3>0 DEF JobOK, chain
    <3>2. job'.phase = "claimset" /\ job'.k = job.k + 1 /\ job'.paid = job.paid /\ job'.body = job.body
          /\ job'.todo = job.todo
      BY <2>2, <3>0, Zenon DEF JobOK
    <3>3. job.body.vClaim \in Seq(CClaim)
      BY JobParts, BodyParts, Zenon
    <3>4. job'.paid = EmptyMap /\ job'.todo = {} /\ job'.k <= Len(job'.body.vClaim)
      BY <2>2, <3>0, <3>2, <3>3 DEF ShapeInv
    <3> QED BY <3>0, <3>1, <3>2, <3>4, <1>TypeMove, IdleOK DEF Connecting
  <2> QED BY <2>1, <2>2, Zenon DEF Advance
\* A claim of a claim set keeps the types.
<1>TypeApplyClaim.
  ASSUME TypeInv, written' \in BOOLEAN, ApplyClaim
  PROVE  TypeInv'
  <2> USE <1>TypeApplyClaim
  <2> DEFINE c == job.body.vClaim[job.k]
             e == [target |-> c.target, seen |-> TRUE, total |-> 0]
  <2>1. job.phase = "claimset" /\ UNCHANGED <<mode, chain, disk, pending>>
    BY Zenon DEF ApplyClaim
  <2>2. IsMap(claims, Script, Entry) /\ IsMap(index, Script, Entry)
    BY JobParts, Zenon
  <2>3. c \in CClaim
    <3>1. job.k \in 1 .. Len(job.body.vClaim)
      BY <2>1, JobParts, BodyParts, SeqElements DEF ShapeInv
    <3> QED BY <3>1, JobParts, BodyParts, Zenon
  <2>4. c.source \in Script /\ e \in Entry
    BY <2>3, ClaimParts, Zenon
  <2>5. \E on \in BOOLEAN : /\ Advance(on)
           /\ \/ claims' = claims
              \/ claims' = Put(claims, c.source, e)
              \/ c.source \in DOMAIN claims /\ claims' = [claims EXCEPT ![c.source].seen = TRUE]
           /\ \/ index' = index
              \/ index' = Put(index, c.source, e)
              \/ c.source \in DOMAIN index /\ index' = [index EXCEPT ![c.source].seen = TRUE]
    BY Zenon DEF ApplyClaim
  <2>6. IsMap(claims', Script, Entry)
    <3>1. IsMap(Put(claims, c.source, e), Script, Entry)
      BY <2>2, <2>4, Zenon DEF IsMap, Put
    <3>2. c.source \in DOMAIN claims => IsMap([claims EXCEPT ![c.source].seen = TRUE], Script, Entry)
      BY <2>2, Zenon DEF IsMap, Entry
    <3> QED BY <2>2, <2>5, <3>1, <3>2, Zenon
  <2>7. IsMap(index', Script, Entry) /\ DOMAIN index \subseteq DOMAIN index'
    <3>1. IsMap(Put(index, c.source, e), Script, Entry) /\ DOMAIN index \subseteq DOMAIN Put(index, c.source, e)
      BY <2>2, <2>4, Zenon DEF IsMap, Put
    <3>2. c.source \in DOMAIN index =>
            /\ IsMap([index EXCEPT ![c.source].seen = TRUE], Script, Entry)
            /\ DOMAIN [index EXCEPT ![c.source].seen = TRUE] = DOMAIN index
      BY <2>2, Zenon DEF IsMap, Entry
    <3> QED BY <2>2, <2>5, <3>1, <3>2, Zenon
  <2> QED BY <2>1, <2>5, <2>6, <2>7, <1>TypeAdvance, Zenon
\* A block that is stored keeps the types.
<1>TypeAcceptBlock.
  ASSUME TypeInv, written' \in BOOLEAN, NEW p \in 0 .. Len(blocks), NEW body \in Bodies, AcceptBlock(p, body)
  PROVE  TypeInv'
  <2> USE <1>TypeAcceptBlock
  <2> DEFINE n == Len(blocks)
             new == [prev |-> p, body |-> body]
  <2>1. body \in Body /\ n \in Nat /\ blocks \in Seq([prev : Nat, body : Body])
    BY NodeAssumption, JobParts, Zenon
  <2>2. new \in [prev : Nat, body : Body]
    BY <2>1
  <2>3. /\ blocks' \in Seq([prev : Nat, body : Body]) /\ Len(blocks') = n + 1
        /\ \A b \in 1 .. n : blocks'[b] = blocks[b]
        /\ blocks'[n + 1] = new
    BY <2>1, <2>2 DEF AcceptBlock
  <2>4. \A b \in 1 .. (n + 1) : blocks'[b].prev < b
    <3>1. \A b \in 1 .. n : blocks[b].prev < b
      BY Zenon DEF TypeInv, TypeOK, TreeOK
    <3>2. new.prev < n + 1
      BY <2>1
    <3> HIDE DEF new, n
    <3> SUFFICES ASSUME NEW b \in 1 .. (n + 1) PROVE blocks'[b].prev < b
      BY Zenon
    <3>3. CASE b \in 1 .. n
      BY <2>3, <3>1, <3>3, Zenon
    <3>4. CASE b = n + 1
      BY <2>3, <3>2, <3>4, Zenon
    <3> QED BY <2>1, <3>3, <3>4
  <2> HIDE DEF n, new
  <2>0. Ids = 1 .. n /\ Ids' = 1 .. (n + 1) /\ 1 .. (n + 1) = (1 .. n) \cup {n + 1}
    BY <2>1, <2>3 DEF Ids, n
  <2>5. /\ DOMAIN nClaims = 1 .. n /\ \A b \in 1 .. n : IsMap(nClaims[b], Script, Nat)
        /\ queued \in [1 .. n -> SUBSET Nat]
        /\ valid \subseteq 1 .. n /\ failed \subseteq 1 .. n /\ tip \in 0 .. n /\ dirty \subseteq 1 .. n
    BY Zenon DEF TypeInv, TypeOK, TreeOK, Ids, n
  <2>6. /\ nClaims' = Put(nClaims, n + 1, EmptyMap) /\ queued' = Put(queued, n + 1, {})
        /\ dirty' = dirty \cup {n + 1}
        /\ UNCHANGED <<mode, claims, index, valid, failed, tip, disk, job, pending>>
    BY Zenon DEF AcceptBlock, n
  <2>7. DOMAIN nClaims' = 1 .. (n + 1) /\ \A b \in 1 .. (n + 1) : IsMap(nClaims'[b], Script, Nat)
    <3>1. IsMap(EmptyMap, Script, Nat)
      BY EmptyIsMap, Zenon
    <3> QED BY <2>1, <2>5, <2>6, <3>1 DEF Put
  <2>8. queued' \in [1 .. (n + 1) -> SUBSET Nat]
    BY <2>1, <2>5, <2>6 DEF Put
  <2>9. TreeOK(blocks, nClaims, queued, valid, failed, tip)'
    BY <2>1, <2>3, <2>4, <2>5, <2>6, <2>7, <2>8 DEF TreeOK
  <2>10. dirty' \subseteq Ids'
    BY <2>0, <2>5, <2>6, Zenon
  <2>11. JobOK'
    BY <2>1, <2>3, <2>6 DEF JobOK, TypeInv, TypeOK, n
  <2>12. ShapeInv'
    <3>1. Len(disk'.blocks) <= Len(blocks') /\ Ids' \ dirty' \subseteq 1 .. Len(disk'.blocks)
      <4>1. Len(disk.blocks) <= n /\ Ids \ dirty \subseteq 1 .. Len(disk.blocks) /\ Len(disk.blocks) \in Nat
        BY DEF ShapeInv, TypeInv, n, TypeOK, TreeOK
      <4>2. Ids' \ dirty' \subseteq Ids \ dirty
        BY <2>0, <2>6, Zenon
      <4> QED BY <2>1, <2>3, <2>6, <4>1, <4>2
    <3>2. Ids \subseteq Ids'
      BY <2>0, Zenon
    <3> QED BY <2>6, <3>1, <3>2, Zenon DEF ShapeInv, TypeInv, Connecting
  <2> QED BY <2>6, <2>9, <2>10, <2>11, <2>12, Zenon DEF TypeInv, TypeOK
\* The job goes on with other values of phase, k, paid, queue and todo.
<1>TypeGoOn.
  ASSUME TypeInv, written' \in BOOLEAN, job.phase # "idle", IsMap(claims', Script, Entry),
         job' = [phase |-> job'.phase, block |-> job.block, just |-> job.just, body |-> job.body,
                 k |-> job'.k, paid |-> job'.paid, queue |-> job'.queue, todo |-> job'.todo],
         job'.phase \in {"vclaim", "vout", "finish", "record"},
         job.phase # "claimset",
         job'.k \in Nat, job'.k >= 1, IsMap(job'.paid, Script, Nat), job'.queue \subseteq Nat,
         DOMAIN job'.paid \subseteq DOMAIN claims',
         job'.phase = "vclaim" => job'.k <= Len(job.body.vClaim) /\ job'.paid = EmptyMap,
         job'.todo \subseteq DOMAIN job'.paid,
         job'.phase # "record" => job'.todo = {},
         job'.phase = "record" => ~job.just,
         UNCHANGED <<mode, index, chain, disk, pending>>
  PROVE  TypeInv'
  <2> USE <1>TypeGoOn
  <2>1. job'.block = job.block /\ job'.just = job.just /\ job'.body = job.body
    OBVIOUS
  <2>2. JobOK /\ ShapeInv /\ mode = "up" /\ IsMap(index, Script, Entry)
    BY JobParts, Zenon
  <2>3. JobOK'
    BY <2>1, <2>2, Zenon DEF JobOK, chain
  <2>4. Connecting' => job'.block \in Ids
    BY <2>1, <2>2, Zenon DEF ShapeInv, Connecting, JobOK
  <2> QED BY <2>1, <2>2, <2>3, <2>4, <1>TypeMove, Zenon
\* The entry checks of CheckClaims keep the types.
<1>TypeCheckClaims.
  ASSUME TypeInv, written' \in BOOLEAN, CheckClaims
  PROVE  TypeInv'
  <2> USE <1>TypeCheckClaims
  <2>1. /\ job.phase = "start"
        /\ UNCHANGED <<mode, claims, index, blocks, nClaims, queued, valid, tip, disk, pending>>
    BY Zenon DEF CheckClaims
  <2>2. IsMap(claims, Script, Entry) /\ JobOK /\ ShapeInv /\ job.body.vClaim \in Seq(CClaim)
    BY JobParts, BodyParts, Zenon
  <2>3. CASE Fail
    BY <2>1, <2>2, <2>3, <1>TypeFail, Zenon
  <2>4. CASE job' = [job EXCEPT !.phase = "finish"] /\ UNCHANGED <<failed, dirty>>
    BY <2>1, <2>2, <2>4, <1>TypeGoOn, Zenon DEF JobOK, ShapeInv, chain
  <2>5. CASE job.body.vClaim # <<>> /\ job' = [job EXCEPT !.phase = "vclaim"] /\ UNCHANGED <<failed, dirty>>
    BY <2>1, <2>2, <2>5, <1>TypeGoOn DEF JobOK, ShapeInv, chain
  <2> QED BY <2>3, <2>4, <2>5, Zenon DEF CheckClaims
\* A block rejected for another reason keeps the types.
<1>TypeReject.
  ASSUME TypeInv, written' \in BOOLEAN, Reject
  PROVE  TypeInv'
  <2> USE <1>TypeReject
  <2>1. IsMap(claims', Script, Entry)
    BY JobParts, Zenon DEF Reject
  <2> QED BY <2>1, <1>TypeFail, Zenon DEF Reject
\* A claim of a block keeps the types.
<1>TypeCheckVClaim.
  ASSUME TypeInv, written' \in BOOLEAN, CheckVClaim
  PROVE  TypeInv'
  <2> USE <1>TypeCheckVClaim
  <2> DEFINE c == job.body.vClaim[job.k]
             e == [target |-> c.target, seen |-> FALSE, total |-> 0]
  <2>1. job.phase = "vclaim" /\ UNCHANGED <<mode, index, blocks, nClaims, queued, valid, tip, disk, pending>>
    BY Zenon DEF CheckVClaim
  <2>2. IsMap(claims, Script, Entry) /\ JobOK /\ ShapeInv /\ job.body.vClaim \in Seq(CClaim) /\ job.k \in Nat
    BY JobParts, BodyParts, Zenon
  <2>3. c.source \in Script /\ e \in Entry
    <3>1. job.k \in 1 .. Len(job.body.vClaim)
      BY <2>1, <2>2 DEF ShapeInv
    <3>2. c \in CClaim
      BY <3>1, JobParts, BodyParts, Zenon
    <3> QED BY <3>2, ClaimParts, Zenon
  <2>4. claims' = claims \/ claims' = Put(claims, c.source, e)
    BY Zenon DEF CheckVClaim
  <2>5. IsMap(claims', Script, Entry)
    <3>1. IsMap(Put(claims, c.source, e), Script, Entry)
      BY <2>2, <2>3, Zenon DEF IsMap, Put
    <3> QED BY <2>2, <2>4, <3>1, Zenon
  <2>6. CASE Fail
    BY <2>1, <2>5, <2>6, <1>TypeFail, Zenon
  <2>7. CASE job.k < Len(job.body.vClaim) /\ job' = [job EXCEPT !.k = @ + 1] /\ UNCHANGED <<failed, dirty>>
    BY <2>1, <2>2, <2>5, <2>7, IdleOK, <1>TypeGoOn DEF JobOK, ShapeInv, chain
  <2>8. CASE job' = [job EXCEPT !.phase = "vout", !.k = 1] /\ UNCHANGED <<failed, dirty>>
    <3>8. job' = [phase |-> "vout", block |-> job.block, just |-> job.just, body |-> job.body,
                  k |-> 1, paid |-> job.paid, queue |-> job.queue, todo |-> job.todo]
      BY <2>2, <2>8, Zenon DEF JobOK
    <3>9. job'.phase = "vout" /\ job'.k = 1 /\ job'.paid = job.paid /\ job'.queue = job.queue /\ job'.todo = job.todo
      BY <3>8, Zenon
    <3>10. job.todo = {} /\ job.paid = EmptyMap /\ job.queue \subseteq Nat
      BY <2>1, <2>2, Zenon DEF ShapeInv, JobOK
    <3>11. job' = [phase |-> job'.phase, block |-> job.block, just |-> job.just, body |-> job.body,
                   k |-> job'.k, paid |-> job'.paid, queue |-> job'.queue, todo |-> job'.todo]
      BY <3>8, <3>9, Zenon
    <3>12. /\ job'.phase = "vout" /\ job.phase # "claimset" /\ job.phase # "idle"
           /\ job'.k \in Nat /\ job'.k >= 1 /\ IsMap(job'.paid, Script, Nat) /\ job'.queue \subseteq Nat
           /\ DOMAIN job'.paid \subseteq DOMAIN claims' /\ job'.todo = {}
      BY <2>1, <3>9, <3>10, IdleOK
    <3>13. UNCHANGED <<mode, index, chain, disk, pending>>
      BY <2>1, <2>8, Zenon DEF chain
    <3> QED BY <2>5, <3>11, <3>12, <3>13, <1>TypeGoOn, Zenon
  <2> QED BY <2>6, <2>7, <2>8, Zenon DEF CheckVClaim
\* An output of a block keeps the types.
<1>TypeCheckVOut.
  ASSUME TypeInv, written' \in BOOLEAN, CheckVOut
  PROVE  TypeInv'
  <2> USE <1>TypeCheckVOut
  <2> DEFINE out == job.body.vout[job.k]
  <2>1. /\ job.phase = "vout" /\ job.k <= Len(job.body.vout)
        /\ UNCHANGED <<mode, claims, index, blocks, nClaims, queued, valid, tip, disk, pending>>
    BY Zenon DEF CheckVOut
  <2>2. IsMap(claims, Script, Entry) /\ JobOK /\ ShapeInv /\ job.k \in Nat /\ job.k >= 1
    BY JobParts, Zenon
  <2>3. out.value \in Nat /\ out.queue \subseteq Nat
    <3>1. out \in TxOut
      BY <2>1, <2>2, JobParts, BodyParts, SeqElements
    <3> QED BY <3>1, Zenon DEF TxOut
  <2> HIDE DEF out
  <2>4. CASE Fail
    BY <2>1, <2>2, <2>4, <1>TypeFail, Zenon
  <2>5. CASE job' = [job EXCEPT !.k = @ + 1] /\ UNCHANGED <<failed, dirty>>
    BY <2>1, <2>2, <2>5, <1>TypeGoOn DEF JobOK, ShapeInv, chain
  <2>6. CASE job' = [[job EXCEPT !.k = @ + 1] EXCEPT !.queue = out.queue] /\ UNCHANGED <<failed, dirty>>
    <3>8. job' = [phase |-> job.phase, block |-> job.block, just |-> job.just, body |-> job.body,
                  k |-> job.k + 1, paid |-> job.paid, queue |-> out.queue, todo |-> job.todo]
      BY <2>2, <2>6, Zenon DEF JobOK
    <3>9. job'.phase = job.phase /\ job'.k = job.k + 1 /\ job'.paid = job.paid /\ job'.queue = out.queue /\ job'.todo = job.todo
      BY <3>8, Zenon
    <3>10. job.todo = {} /\ IsMap(job.paid, Script, Nat) /\ DOMAIN job.paid \subseteq DOMAIN claims
      BY <2>1, <2>2, Zenon DEF ShapeInv, JobOK
    <3>11. job' = [phase |-> job'.phase, block |-> job.block, just |-> job.just, body |-> job.body,
                   k |-> job'.k, paid |-> job'.paid, queue |-> job'.queue, todo |-> job'.todo]
      BY <3>8, <3>9, Zenon
    <3>12. /\ job'.phase = "vout" /\ job.phase # "claimset" /\ job.phase # "idle"
           /\ job'.k \in Nat /\ job'.k >= 1 /\ IsMap(job'.paid, Script, Nat) /\ job'.queue \subseteq Nat
           /\ DOMAIN job'.paid \subseteq DOMAIN claims' /\ job'.todo = {}
      BY <2>1, <2>2, <2>3, <3>9, <3>10
    <3>13. UNCHANGED <<mode, index, chain, disk, pending>>
      BY <2>1, <2>6, Zenon DEF chain
    <3> QED BY <2>1, <2>2, <3>11, <3>12, <3>13, <1>TypeGoOn, Zenon
  <2>7. CASE /\ UNCHANGED <<failed, dirty>>
             /\ \E s \in DOMAIN claims :
                  job' = [[job EXCEPT !.k = @ + 1] EXCEPT !.paid = Put(job.paid, s, out.value)]
    <3>1. PICK s \in DOMAIN claims :
                  job' = [[job EXCEPT !.k = @ + 1] EXCEPT !.paid = Put(job.paid, s, out.value)]
      BY <2>7, Zenon
    <3> DEFINE pd == Put(job.paid, s, out.value)
    <3>2. IsMap(pd, Script, Nat) /\ DOMAIN pd \subseteq DOMAIN claims
      BY <2>2, <2>3, Zenon DEF IsMap, Put, JobOK, ShapeInv
    <3>8. job' = [phase |-> job.phase, block |-> job.block, just |-> job.just, body |-> job.body,
                  k |-> job.k + 1, paid |-> pd, queue |-> job.queue, todo |-> job.todo]
      BY <2>2, <3>1, Zenon DEF JobOK
    <3>9. job'.phase = job.phase /\ job'.k = job.k + 1 /\ job'.paid = pd /\ job'.queue = job.queue /\ job'.todo = job.todo
      BY <3>8, Zenon
    <3>4. job.todo = {} /\ job.queue \subseteq Nat
      BY <2>1, <2>2, Zenon DEF ShapeInv, JobOK
    <3> HIDE DEF pd
    <3>11. job' = [phase |-> job'.phase, block |-> job.block, just |-> job.just, body |-> job.body,
                   k |-> job'.k, paid |-> job'.paid, queue |-> job'.queue, todo |-> job'.todo]
      BY <3>8, <3>9, Zenon
    <3>12. /\ job'.phase = "vout" /\ job.phase # "claimset" /\ job.phase # "idle"
           /\ job'.k \in Nat /\ job'.k >= 1 /\ IsMap(job'.paid, Script, Nat) /\ job'.queue \subseteq Nat
           /\ DOMAIN job'.paid \subseteq DOMAIN claims' /\ job'.todo = {}
      BY <2>1, <2>2, <3>2, <3>4, <3>9
    <3>13. UNCHANGED <<mode, index, chain, disk, pending>>
      BY <2>1, <2>7, Zenon DEF chain
    <3> QED BY <2>1, <2>2, <3>11, <3>12, <3>13, <1>TypeGoOn, Zenon
  <2> QED BY <2>4, <2>5, <2>6, <2>7, Zenon DEF CheckVOut, out
\* The end of the output loop keeps the types.
<1>TypeVOutDone.
  ASSUME TypeInv, written' \in BOOLEAN, VOutDone
  PROVE  TypeInv'
  <2> USE <1>TypeVOutDone
  <2>1. JobOK /\ ShapeInv /\ job.k \in Nat /\ IsMap(claims, Script, Entry)
    BY JobParts, Zenon
  <2> QED BY <2>1, <1>TypeGoOn, Zenon DEF VOutDone, JobOK, ShapeInv
\* The job records a block, and its block index changes.
<1>TypeRecord.
  ASSUME TypeInv, written' \in BOOLEAN, job.phase \in {"finish", "record"}, ~job.just,
         job' = [phase |-> "record", block |-> job.block, just |-> job.just, body |-> job.body,
                 k |-> job.k, paid |-> job.paid, queue |-> job.queue, todo |-> job'.todo],
         job'.todo \subseteq DOMAIN job.paid,
         IsMap(claims', Script, Entry), DOMAIN claims \subseteq DOMAIN claims',
         IsMap(index', Script, Entry), DOMAIN index \subseteq DOMAIN index',
         DOMAIN nClaims' = Ids, \A b \in Ids : IsMap(nClaims'[b], Script, Nat),
         queued' \in [Ids -> SUBSET Nat],
         UNCHANGED <<mode, blocks, valid, failed, dirty, tip, disk, pending>>
  PROVE  TypeInv'
  <2> USE <1>TypeRecord
  <2>1. job'.phase = "record" /\ job'.block = job.block /\ job'.just = job.just /\ job'.body = job.body
        /\ job'.k = job.k /\ job'.paid = job.paid /\ job'.queue = job.queue
    OBVIOUS
  <2>2. JobOK /\ ShapeInv /\ mode = "up"
    BY JobParts, Zenon
  <2>3. JobOK'
    BY <2>1, <2>2, Zenon DEF JobOK
  <2>4. ShapeInv'
    BY <2>1, <2>2, Zenon DEF ShapeInv, Connecting, Ids
  <2>5. TreeOK(blocks, nClaims, queued, valid, failed, tip)'
    BY ChainParts, Zenon DEF TreeOK, Ids
  <2> QED BY <2>3, <2>4, <2>5, Zenon DEF TypeInv, TypeOK, Ids
\* The end of the checks keeps the types.
<1>TypeFinishChecks.
  ASSUME TypeInv, written' \in BOOLEAN, FinishChecks
  PROVE  TypeInv'
  <2> USE <1>TypeFinishChecks
  <2>1. job.phase = "finish" /\ UNCHANGED <<mode, claims, index, blocks, nClaims, valid, tip, disk, pending>>
    BY Zenon DEF FinishChecks
  <2>2. /\ JobOK /\ ShapeInv /\ IsMap(claims, Script, Entry) /\ IsMap(index, Script, Entry)
        /\ job.queue \subseteq Nat
    BY JobParts, Zenon DEF JobOK
  <2>3. CASE Fail /\ UNCHANGED queued
    BY <2>1, <2>2, <2>3, <1>TypeFail, Zenon
  <2>4. CASE job' = Idle /\ UNCHANGED <<queued, failed, dirty>>
    BY <2>1, <2>2, <2>4, ChainParts, <1>TypeStop, Zenon
  <2>5. CASE /\ ~job.just /\ UNCHANGED <<failed, dirty>>
             /\ queued' = [queued EXCEPT ![job.block] = job.queue]
             /\ job' = [job EXCEPT !.phase = "record", !.todo = DOMAIN job.paid]
    <3>1. job' = [phase |-> "record", block |-> job.block, just |-> job.just, body |-> job.body,
                  k |-> job.k, paid |-> job.paid, queue |-> job.queue, todo |-> DOMAIN job.paid]
      BY <2>2, <2>5, Zenon DEF JobOK
    <3>2. job'.todo = DOMAIN job.paid
      BY <3>1, Zenon
    <3>3. queued' \in [Ids -> SUBSET Nat]
      BY <2>2, <2>5, ChainParts, Zenon
    <3>4. DOMAIN nClaims' = Ids /\ \A b \in Ids : IsMap(nClaims'[b], Script, Nat)
      BY <2>1, ChainParts, Zenon
    <3> QED BY <2>1, <2>2, <2>5, <3>1, <3>2, <3>3, <3>4, <1>TypeRecord, Zenon
  <2> QED BY <2>3, <2>4, <2>5, Zenon DEF FinishChecks
\* The record of a payment keeps the types.
<1>TypeRecordClaim.
  ASSUME TypeInv, TotalsOK, written' \in BOOLEAN, NEW s \in Script, RecordClaim(s)
  PROVE  TypeInv'
  <2> USE <1>TypeRecordClaim
  <2> DEFINE total == GetTotalReceived(s, tip) + job.paid[s]
             e == [claims[s] EXCEPT !.seen = TRUE, !.total = total]
  <2>1. /\ job.phase = "record" /\ s \in job.todo
        /\ nClaims' = [nClaims EXCEPT ![job.block] = Put(nClaims[job.block], s, job.paid[s])]
        /\ claims' = [claims EXCEPT ![s] = e]
        /\ index' = Put(index, s, e) \/ index' = index
        /\ job' = [job EXCEPT !.todo = @ \ {s}]
        /\ UNCHANGED <<mode, blocks, queued, valid, failed, dirty, tip, disk, pending>>
    BY Zenon DEF RecordClaim, AddClaim
  <2>2. /\ JobOK /\ ShapeInv /\ IsMap(claims, Script, Entry) /\ IsMap(index, Script, Entry)
    BY JobParts, Zenon
  <2>3. s \in DOMAIN job.paid /\ job.paid[s] \in Nat /\ s \in DOMAIN claims /\ ~job.just
    BY <2>1, <2>2, Zenon DEF JobOK, ShapeInv, IsMap
  <2>4. e \in Entry
    <3>1. total \in Nat
      <4>1. GetTotalReceived(s, tip) \in Nat
        BY ChainParts, Zenon DEF TotalsOK
      <4> QED BY <2>3, <4>1
    <3>2. claims[s] \in Entry
      BY <2>2, <2>3, Zenon DEF IsMap
    <3> HIDE DEF total
    <3> QED BY <3>1, <3>2, Zenon DEF Entry
  <2> HIDE DEF e
  <2>5. IsMap(claims', Script, Entry) /\ DOMAIN claims' = DOMAIN claims
    BY <2>1, <2>2, <2>3, <2>4, Zenon DEF IsMap
  <2>6. IsMap(index', Script, Entry) /\ DOMAIN index \subseteq DOMAIN index'
    <3>1. IsMap(Put(index, s, e), Script, Entry) /\ DOMAIN index \subseteq DOMAIN Put(index, s, e)
      BY <2>2, <2>4, Zenon DEF IsMap, Put
    <3> QED BY <2>1, <2>2, <3>1, Zenon
  <2>7. DOMAIN nClaims' = Ids /\ \A b \in Ids : IsMap(nClaims'[b], Script, Nat)
    <3> DEFINE m == Put(nClaims[job.block], s, job.paid[s])
    <3>1. job.block \in Ids
      BY <2>1, <2>2, <2>3, Zenon DEF ShapeInv, Connecting
    <3>2. IsMap(m, Script, Nat)
      <4>1. IsMap(nClaims[job.block], Script, Nat)
        BY <3>1, ChainParts, Zenon
      <4> QED BY <2>3, <4>1, Zenon DEF IsMap, Put
    <3> HIDE DEF m
    <3> QED BY <2>1, <3>1, <3>2, ChainParts, Zenon DEF m
  <2>8. queued' \in [Ids -> SUBSET Nat]
    BY <2>1, ChainParts, Zenon
  <2>9. /\ job' = [phase |-> "record", block |-> job.block, just |-> job.just, body |-> job.body,
                   k |-> job.k, paid |-> job.paid, queue |-> job.queue, todo |-> job.todo \ {s}]
        /\ job.todo \subseteq DOMAIN job.paid
    BY <2>1, <2>2, Zenon DEF JobOK
  <2>10. job'.todo = job.todo \ {s}
    BY <2>9, Zenon
  <2> QED BY <2>1, <2>3, <2>5, <2>6, <2>7, <2>8, <2>9, <2>10, <1>TypeRecord, Zenon
\* A new tip keeps the types.
<1>TypeTip.
  ASSUME TypeInv, written' \in BOOLEAN, ConnectTip \/ DisconnectTip
  PROVE  TypeInv'
  <2> USE <1>TypeTip
  <2>1. CASE ConnectTip
    <3>1. job.block \in Ids
      BY <2>1, JobParts, Zenon DEF ConnectTip, ShapeInv, Connecting
    <3>2. TreeOK(blocks, nClaims, queued, valid, failed, tip)'
      <4>1. UNCHANGED <<blocks, nClaims, queued, failed>> /\ valid' = valid \cup {job.block} /\ tip' = job.block
        BY <2>1, Zenon DEF ConnectTip
      <4>2. valid' \subseteq 1 .. Len(blocks) /\ tip' \in 0 .. Len(blocks)
        BY <3>1, <4>1, ChainParts DEF Ids
      <4> QED BY <4>1, <4>2, ChainParts, Zenon DEF TreeOK
    <3>3. dirty' \subseteq Ids /\ dirty \subseteq dirty'
      BY <2>1, <3>1, ChainParts, Zenon DEF ConnectTip
    <3>4. JobOK'
      BY <2>1, IdleStep, ChainParts, Zenon DEF ConnectTip
    <3>5. ShapeInv'
      <4>1. /\ job' = Idle /\ mode = "up" /\ mode' = mode
            /\ UNCHANGED <<claims, index, blocks, disk, pending>>
        BY <2>1, JobParts, Zenon DEF ConnectTip
      <4>2. /\ job'.phase = "idle" /\ job'.k = 1 /\ job'.paid = EmptyMap /\ job'.todo = {}
            /\ DOMAIN job'.paid = {} /\ ~Connecting'
        BY <4>1, ChainParts, IdleStep, Zenon
      <4>4. /\ pending \subseteq DOMAIN index /\ Len(disk.blocks) <= Len(blocks)
            /\ Ids \ dirty \subseteq 1 .. Len(disk.blocks)
        BY JobParts, Zenon DEF ShapeInv
      <4>5. Ids' = Ids /\ (Ids \ dirty)' \subseteq 1 .. Len(disk.blocks)
        BY <3>3, <4>1, <4>4, Zenon DEF Ids
      <4> QED BY <4>1, <4>2, <4>4, <4>5 DEF ShapeInv
    <3> QED BY <2>1, <3>2, <3>3, <3>4, <3>5, Zenon DEF ConnectTip, TypeInv, TypeOK, Ids
  <2>2. CASE DisconnectTip
    <3>1. blocks[tip].prev \in 0 .. Len(blocks)
      <4>1. tip \in 1 .. Len(blocks) /\ Len(blocks) \in Nat
        BY <2>2, ChainParts DEF DisconnectTip
      <4>2. blocks[tip] \in [prev : Nat, body : Body]
        BY <4>1, JobParts, SeqElements, Zenon
      <4>3. blocks[tip].prev \in Nat /\ blocks[tip].prev < tip
        BY <4>1, <4>2, ChainParts, Zenon DEF TreeOK
      <4> QED BY <4>1, <4>3
    <3>2. TreeOK(blocks, nClaims, queued, valid, failed, tip)'
      BY <2>2, <3>1, ChainParts, Zenon DEF DisconnectTip, TreeOK
    <3> QED BY <2>2, <3>2, Zenon DEF DisconnectTip, TypeInv, TypeOK, JobOK, ShapeInv, Connecting, Ids
  <2> QED BY <2>1, <2>2, Zenon
\* A flush keeps the types: what is not dirty is on disk already.
<1>TypeFlush.
  ASSUME TypeInv, written' \in BOOLEAN, NEW full \in BOOLEAN, Flush(full)
  PROVE  TypeInv'
  <2> USE <1>TypeFlush
  <2> DEFINE kept(old, new) == [b \in Ids |-> IF b \in dirty THEN new[b] ELSE old[b]]
             Rec == [prev : Nat, body : Body]
             n == Len(blocks)
             m == Len(disk.blocks)
  <2>1. /\ dirty' = {}
        /\ UNCHANGED <<mode, claims, index, blocks, nClaims, queued, valid, failed, tip, job, pending>>
        /\ disk'.blocks = kept(disk.blocks, blocks)
        /\ disk'.nClaims = kept(disk.nClaims, nClaims)
        /\ disk'.queued = kept(disk.queued, queued)
        /\ disk'.valid = (disk.valid \ dirty) \cup (valid \cap dirty)
        /\ disk'.failed = (disk.failed \ dirty) \cup (failed \cap dirty)
        /\ disk'.tip = tip \/ disk'.tip = disk.tip
        /\ disk' = [blocks |-> disk'.blocks, nClaims |-> disk'.nClaims, queued |-> disk'.queued,
                    valid |-> disk'.valid, failed |-> disk'.failed, tip |-> disk'.tip]
    BY Zenon DEF Flush
  <2>2. n \in Nat /\ m \in Nat /\ m <= n /\ Ids = 1 .. n /\ \A b \in Ids : b \notin dirty => b \in 1 .. m
    BY ChainParts, Zenon DEF TypeInv, ShapeInv, Ids
  <2>3. \A b \in 1 .. n : blocks[b] \in Rec /\ blocks[b].prev < b
    BY JobParts, ChainParts, SeqElements, Zenon DEF TreeOK
  <2>4. \A b \in 1 .. m : disk.blocks[b] \in Rec /\ disk.blocks[b].prev < b
    BY ChainParts, SeqElements, Zenon DEF TreeOK
  <2> HIDE DEF Rec
  <2>5. disk'.blocks \in [1 .. n -> Rec] /\ \A b \in 1 .. n : disk'.blocks[b].prev < b
    BY <2>1, <2>2, <2>3, <2>4
  <2>6. disk'.blocks \in Seq(Rec) /\ Len(disk'.blocks) = n
    BY <2>2, <2>5
  <2>7. DOMAIN disk'.nClaims = 1 .. n /\ \A b \in 1 .. n : IsMap(disk'.nClaims[b], Script, Nat)
    <3>1. \A b \in 1 .. n : IsMap(nClaims[b], Script, Nat)
      BY <2>2, ChainParts, Zenon
    <3>2. \A b \in 1 .. m : IsMap(disk.nClaims[b], Script, Nat)
      BY ChainParts, Zenon DEF TreeOK
    <3> QED BY <2>1, <2>2, <3>1, <3>2, Zenon
  <2>8. disk'.queued \in [1 .. n -> SUBSET Nat]
    <3>1. \A b \in 1 .. n : queued[b] \in SUBSET Nat
      BY <2>2, ChainParts, Zenon
    <3>2. \A b \in 1 .. m : disk.queued[b] \in SUBSET Nat
      BY ChainParts, Zenon DEF TreeOK
    <3> QED BY <2>1, <2>2, <3>1, <3>2, Zenon
  <2>9. disk'.valid \subseteq 1 .. n /\ disk'.failed \subseteq 1 .. n /\ disk'.tip \in 0 .. n
    <3>1. disk.valid \subseteq 1 .. m /\ disk.failed \subseteq 1 .. m /\ disk.tip \in 0 .. m
      BY ChainParts, Zenon DEF TreeOK
    <3>2. valid \subseteq 1 .. n /\ failed \subseteq 1 .. n /\ tip \in 0 .. n
      BY <2>2, ChainParts, Zenon
    <3> QED BY <2>1, <2>2, <3>1, <3>2
  <2>10. TreeOK(disk'.blocks, disk'.nClaims, disk'.queued, disk'.valid, disk'.failed, disk'.tip)
    BY <2>5, <2>6, <2>7, <2>8, <2>9, Zenon DEF TreeOK, Rec
  <2>11. TreeOK(blocks, nClaims, queued, valid, failed, tip)' /\ JobOK'
    BY <2>1, ChainParts, JobParts, Zenon DEF JobOK
  <2>12. ShapeInv'
    <3>1. Len(disk'.blocks) <= Len(blocks') /\ Ids' \ dirty' \subseteq 1 .. Len(disk'.blocks)
      BY <2>1, <2>2, <2>6 DEF Ids
    <3> QED BY <2>1, <3>1, JobParts, Zenon DEF ShapeInv, Connecting, Ids
  <2> QED BY <2>1, <2>10, <2>11, <2>12, Zenon DEF TypeInv, TypeOK, Ids
\* A crash keeps the types.
<1>TypeCrash.
  ASSUME TypeInv, written' \in BOOLEAN, Crash
  PROVE  TypeInv'
  <2> USE <1>TypeCrash
  <2>1. TreeOK(blocks, nClaims, queued, valid, failed, tip)' /\ Len(blocks') \in Nat
    BY ChainParts, Zenon DEF Crash
  <2>2. /\ job' = Idle /\ blocks' = disk.blocks /\ UNCHANGED disk
        /\ pending' = {} /\ Ids' = 1 .. Len(disk.blocks)
    BY Zenon DEF Crash, Ids
  <2>3. JobOK' /\ ShapeInv'
    <3>1. /\ JobOK' /\ ~Connecting' /\ job'.phase = "idle" /\ job'.k = 1 /\ job'.paid = EmptyMap
          /\ DOMAIN job'.paid = {} /\ job'.todo = {}
      BY <2>1, <2>2, IdleStep, Zenon
    <3>2. Len(disk'.blocks) <= Len(blocks') /\ Ids' \ dirty' \subseteq 1 .. Len(disk'.blocks)
      BY <2>1, <2>2
    <3> QED BY <2>2, <3>1, <3>2 DEF ShapeInv
  <2>4. IsMap(claims', Script, Entry)
    BY EmptyIsMap, Zenon DEF Crash
  <2> QED BY <2>1, <2>3, <2>4, ChainParts, Zenon DEF Crash, TypeInv, TypeOK, Ids
\* The steps of a start keep the types.
<1>TypeLoad.
  ASSUME TypeInv, TotalsOK, written' \in BOOLEAN, Restart \/ LoadDone \/ \E s \in Script : LoadClaim(s)
  PROVE  TypeInv'
  <2> USE <1>TypeLoad
  <2>1. CASE Restart
    BY <2>1, JobParts, ChainParts, Zenon
       DEF Restart, chain, TypeInv, TypeOK, JobOK, ShapeInv, Connecting, Ids, IsMap
  <2>2. CASE LoadDone
    BY <2>2, JobParts, ChainParts, Zenon DEF LoadDone, chain, TypeInv, TypeOK, JobOK, ShapeInv, Connecting, Ids
  <2>3. ASSUME NEW s \in Script, LoadClaim(s)
        PROVE  TypeInv'
    <3> DEFINE e == [index[s] EXCEPT !.total = GetTotalReceived(s, tip)]
    <3>1. /\ mode = "loading" /\ s \in pending /\ UNCHANGED <<index, chain, disk, job>>
          /\ \/ claims' = Put(claims, s, e) /\ pending' = pending \ {s} /\ mode' = "loading"
             \/ claims' = EmptyMap /\ pending' = {} /\ mode' = "down"
      BY <2>3, Zenon DEF LoadClaim
    <3>2. IsMap(claims, Script, Entry) /\ IsMap(index, Script, Entry) /\ s \in DOMAIN index /\ job = Idle
      BY <3>1, JobParts, Zenon DEF ShapeInv
    <3>3. e \in Entry
      <4>1. index[s] \in Entry
        BY <3>2, Zenon DEF IsMap
      <4>2. GetTotalReceived(s, tip) \in Nat
        BY ChainParts, Zenon DEF TotalsOK
      <4> QED BY <4>1, <4>2, Zenon DEF Entry
    <3> HIDE DEF e
    <3>4. IsMap(claims', Script, Entry)
      <4>1. IsMap(Put(claims, s, e), Script, Entry)
        BY <3>2, <3>3, Zenon DEF IsMap, Put
      <4> QED BY <3>1, <4>1, EmptyIsMap, Zenon
    <3>5. JobOK'
      BY <3>1, JobParts, Zenon DEF JobOK, chain
    <3>6. ShapeInv'
      BY <3>1, <3>2, JobParts, IdleOK, Zenon DEF ShapeInv, Idle, Connecting, chain, Ids
    <3>7. pending' \subseteq Script
      BY <3>1, Zenon DEF TypeInv, TypeOK
    <3> QED BY <3>1, <3>4, <3>5, <3>6, <3>7, Zenon DEF TypeInv, TypeOK, chain, Ids
  <2> QED BY <2>1, <2>2, <2>3, Zenon
<1>Step.
  ASSUME TypeInv, TotalsOK, [Next]_vars
  PROVE  TypeInv'
  <2> USE <1>Step
  <2>0. written' \in BOOLEAN
    BY WrittenStep, Zenon DEF TypeInv, TypeOK
  <2>1. CASE UNCHANGED vars
    BY <2>1, Zenon DEF vars, chain, TypeInv, TypeOK, JobOK, ShapeInv, Connecting, Ids
  <2>2. CASE Running
    BY <2>0, <2>2, <1>TypeReceive, <1>TypeStart, <1>TypeApplyClaim, <1>TypeAcceptBlock, <1>TypeReject, <1>TypeCheckClaims,
       <1>TypeCheckVClaim, <1>TypeCheckVOut, <1>TypeVOutDone, <1>TypeFinishChecks, <1>TypeRecordClaim, <1>TypeTip, Zenon DEF Running
  <2>3. CASE Persistence
    BY <2>0, <2>3, <1>TypeFlush, <1>TypeCrash, <1>TypeLoad, Zenon DEF Persistence
  <2> QED BY <2>1, <2>2, <2>3, Zenon DEF Next
<1> QED BY <1>Step

-----------------------------------------------------------------------------

RegInv == OneClaimPerTarget /\ LoadInv

\* Every step keeps the invariant and the targets.
LEMMA RegNext == TypeInv /\ RegInv /\ [Next]_vars => RegInv' /\ KeepsClaims
\* Inserting a claim that IsUnique accepts keeps the registry one-to-one.
<1>InsertOneToOne.
  ASSUME NEW m, OneToOne(m), NEW c, IsUnique(m, c), NEW e, e.target = c.target
  PROVE  OneToOne(Put(m, c.source, e))
  BY <1>InsertOneToOne, Zenon DEF OneToOne, IsUnique, IsUniqueSource, IsUniqueTarget, Put
\* An index that a one-to-one registry reflects is one-to-one.
<1>ReflectsOneToOne.
  ASSUME NEW ix, NEW cl, OneToOne(cl), Reflects(ix, cl, {})
  PROVE  OneToOne(ix)
  BY <1>ReflectsOneToOne, Zenon DEF OneToOne, Reflects
\* What is registered was valid.
<1>SoundPut.
  ASSUME NEW m, Sound(m), NEW s, NEW e,
         IsValid([source |-> s, target |-> e.target, good |-> TRUE], 0, TRUE)
  PROVE  Sound(Put(m, s, e))
  BY <1>SoundPut, Zenon DEF Sound, Put
\* A claim that is accepted would be accepted again.
<1>ValidAgain.
  ASSUME NEW c, NEW electrum, IsValid(c, 0, electrum)
  PROVE  IsValid([source |-> c.source, target |-> c.target, good |-> TRUE], 0, TRUE)
  BY <1>ValidAgain, Zenon DEF IsValid
\* A step that leaves registry, index and mode alone.
<1>RegSame.
  ASSUME RegInv, UNCHANGED <<mode, claims, index, pending>>
  PROVE  RegInv' /\ KeepsClaims
  BY <1>RegSame, Zenon DEF RegInv, OneClaimPerTarget, OneToOne, LoadInv, Reflects, Sound, KeepsClaims
\* A unique claim is inserted, and then written to the index or not.
<1>RegInsert.
  ASSUME TypeInv, RegInv, mode = "up", NEW c \in CClaim, IsUnique(claims, c),
         NEW electrum, IsValid(c, 0, electrum),
         NEW e \in Entry, e.target = c.target,
         claims' = Put(claims, c.source, e),
         index' = index \/ index' = Put(index, c.source, e),
         UNCHANGED <<mode, pending>>
  PROVE  RegInv' /\ KeepsClaims
  <2> USE <1>RegInsert
  <2>1. OneToOne(claims')
    BY <1>InsertOneToOne, Zenon DEF RegInv, OneClaimPerTarget
  <2>2. pending = {} /\ Reflects(index, claims, {})
    BY Zenon DEF RegInv, LoadInv
  <2>3. c.source \notin DOMAIN claims
    BY Zenon DEF IsUnique, IsUniqueSource
  <2>4. /\ DOMAIN claims' = DOMAIN claims \cup {c.source} /\ claims'[c.source] = e
        /\ \A s \in DOMAIN claims : claims'[s] = claims[s]
    BY <2>3, Zenon DEF Put
  <2>5. /\ DOMAIN index \subseteq DOMAIN index' /\ DOMAIN index' \subseteq DOMAIN index \cup {c.source}
        /\ c.source \notin DOMAIN index
        /\ \A s \in DOMAIN index : index'[s] = index[s]
        /\ c.source \in DOMAIN index' => index'[c.source] = e
    BY <2>2, <2>3, Zenon DEF Put, Reflects
  <2>6. Reflects(index', claims', {})
    BY <2>2, <2>4, <2>5, Zenon DEF Reflects
  <2>7. KeepsClaims
    BY <2>4, <2>5, Zenon DEF KeepsClaims
  <2>8. OneToOne(index')
    BY <2>1, <2>6, <1>ReflectsOneToOne, Zenon
  <2>9. Sound(claims') /\ Sound(index')
    <3>1. Sound(claims) /\ Sound(index)
      BY Zenon DEF RegInv, LoadInv
    <3>2. IsValid([source |-> c.source, target |-> e.target, good |-> TRUE], 0, TRUE)
      BY <1>ValidAgain, Zenon
    <3> QED BY <3>1, <3>2, <1>SoundPut, Zenon
  <2> QED BY <2>1, <2>2, <2>6, <2>7, <2>8, <2>9, Zenon DEF RegInv, OneClaimPerTarget, LoadInv
\* The entry of a registered claim changes, but not its target.
<1>RegUpdate.
  ASSUME RegInv, mode = "up", NEW s \in DOMAIN claims,
         DOMAIN claims' = DOMAIN claims,
         \A t \in DOMAIN claims : claims'[t].target = claims[t].target /\ (claims[t].seen => claims'[t].seen),
         DOMAIN index \subseteq DOMAIN index', DOMAIN index' \subseteq DOMAIN index \cup {s},
         \A t \in DOMAIN index : t # s => index'[t] = index[t],
         s \in DOMAIN index' => index'[s].target = claims[s].target /\ (index'[s].seen => claims'[s].seen),
         UNCHANGED <<mode, pending>>
  PROVE  RegInv' /\ KeepsClaims
  <2> USE <1>RegUpdate
  <2>1. OneToOne(claims')
    BY Zenon DEF OneToOne, RegInv, OneClaimPerTarget
  <2>2. pending = {} /\ Reflects(index, claims, {})
    BY Zenon DEF RegInv, LoadInv
  <2>3. Reflects(index', claims', {})
    BY <2>2, Zenon DEF Reflects
  <2>4. KeepsClaims
    BY <2>2, Zenon DEF KeepsClaims, Reflects
  <2>5. OneToOne(index')
    BY <2>1, <2>3, <1>ReflectsOneToOne, Zenon
  <2>6. Sound(claims') /\ Sound(index')
    <3>1. Sound(claims)
      BY Zenon DEF RegInv, LoadInv
    <3>2. Sound(claims')
      BY <3>1, Zenon DEF Sound
    <3>3. \A t \in DOMAIN index' : t \in DOMAIN claims' /\ index'[t].target = claims'[t].target
      BY <2>3, Zenon DEF Reflects
    <3> QED BY <3>2, <3>3, Zenon DEF Sound
  <2> QED BY <2>1, <2>2, <2>3, <2>4, <2>5, <2>6, Zenon DEF RegInv, OneClaimPerTarget, LoadInv
\* CLAIM messages and queueclaim calls.
<1>RegReceive.
  ASSUME TypeInv, RegInv, NEW c \in Gossip, ReceiveClaim(c) \/ QueueClaim(c)
  PROVE  RegInv' /\ KeepsClaims
  <2> USE <1>RegReceive
  <2> DEFINE e == [target |-> c.target, seen |-> FALSE, total |-> 0]
  <2>1. c \in CClaim
    BY NodeAssumption, Zenon
  <2>2. e \in Entry /\ e.target = c.target
    BY <2>1, ClaimParts, Zenon
  <2>3. mode = "up" /\ IsUnique(claims, c) /\ IsValid(c, 0, TRUE) /\ UNCHANGED <<mode, pending>>
        /\ claims' = Put(claims, c.source, e) /\ (index' = index \/ index' = Put(index, c.source, e))
    BY Zenon DEF ReceiveClaim, QueueClaim, Free, Register, AddClaim
  <2> HIDE DEF e
  <2> QED BY <2>1, <2>2, <2>3, <1>RegInsert, Zenon
\* A claim of a claim set.
<1>RegApplyClaim.
  ASSUME TypeInv, RegInv, ApplyClaim
  PROVE  RegInv' /\ KeepsClaims
  <2> USE <1>RegApplyClaim
  <2> DEFINE c == job.body.vClaim[job.k]
             s == c.source
             e == [target |-> c.target, seen |-> TRUE, total |-> 0]
  <2>1. job.phase = "claimset" /\ UNCHANGED <<mode, pending>>
    BY Zenon DEF ApplyClaim
  <2>2. mode = "up" /\ IsMap(claims, Script, Entry) /\ IsMap(index, Script, Entry)
    BY <2>1, JobParts, Zenon
  <2>3. c \in CClaim
    <3>1. job.k \in 1 .. Len(job.body.vClaim)
      BY <2>1, JobParts, BodyParts, SeqElements DEF ShapeInv
    <3> QED BY <3>1, JobParts, BodyParts, Zenon
  <2>4. \/ UNCHANGED <<claims, index>>
        \/ /\ IsUnique(claims, c) /\ claims' = Put(claims, s, e)
           /\ \E electrum : IsValid(c, 0, electrum)
           /\ index' = index \/ index' = Put(index, s, e)
        \/ /\ s \in DOMAIN claims /\ claims' = [claims EXCEPT ![s].seen = TRUE]
           /\ \/ index' = index
              \/ s \in DOMAIN index /\ index' = [index EXCEPT ![s].seen = TRUE]
    BY Zenon DEF ApplyClaim
  <2>5. CASE UNCHANGED <<claims, index>>
    BY <2>1, <2>5, <1>RegSame, Zenon
  <2>6. CASE /\ IsUnique(claims, c) /\ claims' = Put(claims, s, e)
             /\ \E electrum : IsValid(c, 0, electrum)
             /\ index' = index \/ index' = Put(index, s, e)
    <3>1. e \in Entry /\ e.target = c.target
      BY <2>3, ClaimParts, Zenon
    <3> HIDE DEF e, c
    <3> QED BY <2>1, <2>2, <2>3, <2>6, <3>1, <1>RegInsert, Zenon
  <2>7. CASE /\ s \in DOMAIN claims /\ claims' = [claims EXCEPT ![s].seen = TRUE]
             /\ \/ index' = index
                \/ s \in DOMAIN index /\ index' = [index EXCEPT ![s].seen = TRUE]
    <3> HIDE DEF c
    <3>1. \A t \in DOMAIN claims : claims[t] \in Entry
      BY <2>2, Zenon DEF IsMap
    <3>2. \A t \in DOMAIN index : index[t] \in Entry
      BY <2>2, Zenon DEF IsMap
    <3>3. /\ DOMAIN claims' = DOMAIN claims
          /\ \A t \in DOMAIN claims : claims'[t].target = claims[t].target /\ (claims[t].seen => claims'[t].seen)
          /\ claims'[s].seen
      BY <2>7, <3>1, Zenon DEF Entry
    <3>4. /\ DOMAIN index' = DOMAIN index
          /\ \A t \in DOMAIN index : t # s => index'[t] = index[t]
          /\ s \in DOMAIN index => index'[s].target = index[s].target
      BY <2>7, <3>2, Zenon DEF Entry
    <3>5. s \in DOMAIN index => index[s].target = claims[s].target
      BY <2>2, Zenon DEF RegInv, LoadInv, Reflects
    <3> HIDE DEF s
    <3> QED BY <2>1, <2>2, <2>7, <3>3, <3>4, <3>5, <1>RegUpdate
  <2> QED BY <2>4, <2>5, <2>6, <2>7, Zenon
\* A claim of a block.
<1>RegCheckVClaim.
  ASSUME TypeInv, RegInv, CheckVClaim
  PROVE  RegInv' /\ KeepsClaims
  <2> USE <1>RegCheckVClaim
  <2> DEFINE c == job.body.vClaim[job.k]
             e == [target |-> c.target, seen |-> FALSE, total |-> 0]
  <2>1. job.phase = "vclaim" /\ UNCHANGED <<mode, index, pending>>
    BY Zenon DEF CheckVClaim
  <2>2. mode = "up"
    BY <2>1, JobParts, Zenon
  <2>3. c \in CClaim
    <3>1. job.k \in 1 .. Len(job.body.vClaim)
      BY <2>1, JobParts, BodyParts, SeqElements DEF ShapeInv
    <3> QED BY <3>1, JobParts, BodyParts, Zenon
  <2>4. \/ claims' = claims
        \/ /\ IsUnique(claims, c) /\ claims' = Put(claims, c.source, e)
           /\ \E electrum : IsValid(c, 0, electrum)
    BY Zenon DEF CheckVClaim
  <2>5. e \in Entry /\ e.target = c.target
    BY <2>3, ClaimParts, Zenon
  <2> HIDE DEF e, c
  <2> QED BY <2>1, <2>2, <2>3, <2>4, <2>5, <1>RegInsert, <1>RegSame, Zenon
\* The record of a payment.
<1>RegRecordClaim.
  ASSUME TypeInv, RegInv, NEW s \in Script, RecordClaim(s)
  PROVE  RegInv' /\ KeepsClaims
  <2> USE <1>RegRecordClaim
  <2> DEFINE total == GetTotalReceived(s, tip) + job.paid[s]
             e == [claims[s] EXCEPT !.seen = TRUE, !.total = total]
  <2>1. /\ job.phase = "record" /\ s \in job.todo
        /\ claims' = [claims EXCEPT ![s] = e]
        /\ index' = Put(index, s, e) \/ index' = index
        /\ UNCHANGED <<mode, pending>>
    BY Zenon DEF RecordClaim, AddClaim
  <2>2. mode = "up" /\ IsMap(claims, Script, Entry) /\ s \in DOMAIN claims
    BY <2>1, JobParts, Zenon DEF JobOK, ShapeInv
  <2>3. e.target = claims[s].target /\ e.seen
    <3>1. claims[s] \in Entry
      BY <2>2, Zenon DEF IsMap
    <3> HIDE DEF total
    <3> QED BY <3>1, Zenon DEF Entry
  <2> HIDE DEF e
  <2>4. /\ DOMAIN claims' = DOMAIN claims
        /\ \A t \in DOMAIN claims : claims'[t].target = claims[t].target /\ (claims[t].seen => claims'[t].seen)
        /\ claims'[s].seen
    BY <2>1, <2>2, <2>3, Zenon
  <2>5. /\ DOMAIN index \subseteq DOMAIN index' /\ DOMAIN index' \subseteq DOMAIN index \cup {s}
        /\ \A t \in DOMAIN index : t # s => index'[t] = index[t]
        /\ s \in DOMAIN index' => index'[s].target = claims[s].target
    <3>1. s \in DOMAIN index => index[s].target = claims[s].target
      BY <2>2, Zenon DEF RegInv, LoadInv, Reflects
    <3> QED BY <2>1, <2>3, <3>1, Zenon DEF Put
  <2> QED BY <2>1, <2>2, <2>4, <2>5, <1>RegUpdate, Zenon
\* Crash, restart and reload.
<1>RegLoad.
  ASSUME TypeInv, RegInv, Crash \/ Restart \/ LoadDone \/ \E s \in Script : LoadClaim(s)
  PROVE  RegInv' /\ KeepsClaims
  <2> USE <1>RegLoad
  <2>0. Sound(EmptyMap) /\ OneToOne(EmptyMap)
    BY EmptyIsMap, Zenon DEF Sound, OneToOne
  <2>1. CASE Crash
    BY <2>0, <2>1, EmptyIsMap, Zenon DEF Crash, RegInv, OneClaimPerTarget, LoadInv, KeepsClaims
  <2>2. CASE Restart
    BY <2>2, EmptyIsMap, Zenon DEF Restart, RegInv, OneClaimPerTarget, LoadInv, Reflects, KeepsClaims
  <2>3. CASE LoadDone
    BY <2>3, Zenon DEF LoadDone, RegInv, OneClaimPerTarget, OneToOne, LoadInv, Reflects, KeepsClaims
  <2>4. ASSUME NEW s \in Script, LoadClaim(s)
        PROVE  RegInv' /\ KeepsClaims
    <3> DEFINE c == [source |-> s, target |-> index[s].target, good |-> TRUE]
               e == [index[s] EXCEPT !.total = GetTotalReceived(s, tip)]
    <3>1. /\ mode = "loading" /\ s \in pending /\ UNCHANGED index
          /\ \/ /\ IsUnique(claims, c) /\ claims' = Put(claims, s, e)
                /\ pending' = pending \ {s} /\ mode' = "loading"
             \/ claims' = EmptyMap /\ pending' = {} /\ mode' = "down"
      BY <2>4, Zenon DEF LoadClaim
    <3>2. CASE claims' = EmptyMap /\ pending' = {} /\ mode' = "down"
      BY <2>0, <3>1, <3>2, EmptyIsMap, Zenon DEF RegInv, OneClaimPerTarget, LoadInv, KeepsClaims
    <3>3. CASE /\ IsUnique(claims, c) /\ claims' = Put(claims, s, e)
               /\ pending' = pending \ {s} /\ mode' = "loading"
      <4>1. index[s] \in Entry
        BY <3>1, JobParts, Zenon DEF ShapeInv, IsMap
      <4>2. e.target = index[s].target /\ e.seen = index[s].seen
        BY <4>1, Zenon DEF Entry
      <4>3. c.source = s /\ c.target = index[s].target
        BY Zenon
      <4> HIDE DEF e, c
      <4>4. OneToOne(claims')
        BY <3>3, <4>2, <4>3, <1>InsertOneToOne, Zenon DEF RegInv, OneClaimPerTarget
      <4>5. s \notin DOMAIN claims
        BY <3>3, <4>3, Zenon DEF IsUnique, IsUniqueSource
      <4>6. /\ DOMAIN claims' = DOMAIN claims \cup {s} /\ claims'[s] = e
            /\ \A t \in DOMAIN claims : claims'[t] = claims[t]
        BY <3>3, <4>5, Zenon DEF Put
      <4>7. Reflects(index, claims, pending)
        BY <3>1, Zenon DEF RegInv, LoadInv
      <4>8. Reflects(index', claims', pending')
        BY <3>1, <3>3, <4>2, <4>6, <4>7, Zenon DEF Reflects
      <4>9. KeepsClaims
        BY <3>1, <4>6, Zenon DEF KeepsClaims
      <4>10. Sound(claims') /\ OneToOne(index) /\ Sound(index)
        <5>1. Sound(claims) /\ OneToOne(index) /\ Sound(index) /\ s \in DOMAIN index
          BY <3>1, JobParts, Zenon DEF ShapeInv, RegInv, LoadInv
        <5>2. IsValid([source |-> s, target |-> e.target, good |-> TRUE], 0, TRUE)
          BY <4>2, <5>1, Zenon DEF Sound
        <5> QED BY <3>3, <5>1, <5>2, <1>SoundPut, Zenon
      <4>11. DOMAIN claims' \subseteq DOMAIN index \ pending'
        BY <3>1, <3>3, <4>6, JobParts, Zenon DEF ShapeInv, RegInv, LoadInv
      <4> QED BY <3>1, <3>3, <4>4, <4>8, <4>9, <4>10, <4>11, Zenon DEF RegInv, OneClaimPerTarget, LoadInv
    <3> QED BY <3>1, <3>2, <3>3, Zenon
  <2> QED BY <2>1, <2>2, <2>3, <2>4, Zenon
<1>Step.
  ASSUME TypeInv, RegInv, [Next]_vars
  PROVE  RegInv' /\ KeepsClaims
  <2> USE <1>Step
  <2>1. CASE UNCHANGED vars
    BY <2>1, <1>RegSame, Zenon DEF vars
  <2>2. CASE UNCHANGED <<mode, claims, index, pending>>
    BY <2>2, <1>RegSame, Zenon
  <2>3. CASE Running
    <3>1. \/ \E c \in Gossip : ReceiveClaim(c) \/ QueueClaim(c)
          \/ ApplyClaim \/ CheckVClaim \/ \E s \in Script : RecordClaim(s)
          \/ UNCHANGED <<mode, claims, index, pending>>
      BY <2>3, Zenon DEF Running, StartClaimSet, AcceptBlock, StartConnect, StartTest, Reject, CheckClaims,
         CheckVOut, VOutDone, FinishChecks, ConnectTip, DisconnectTip
    <3> QED BY <2>2, <3>1, <1>RegReceive, <1>RegApplyClaim, <1>RegCheckVClaim, <1>RegRecordClaim, Zenon
  <2>4. CASE Persistence
    <3>1. \/ Crash \/ Restart \/ LoadDone \/ \E s \in Script : LoadClaim(s)
          \/ UNCHANGED <<mode, claims, index, pending>>
      BY <2>4, Zenon DEF Persistence, Flush
    <3> QED BY <2>2, <3>1, <1>RegLoad, Zenon
  <2> QED BY <2>1, <2>3, <2>4, Zenon DEF Next
<1> QED BY <1>Step

\* The initial registry is empty.
LEMMA RegInit ==
  ASSUME Init
  PROVE  RegInv
BY EmptyIsMap, Zenon DEF Init, RegInv, OneClaimPerTarget, OneToOne, LoadInv, Reflects, Sound

-----------------------------------------------------------------------------
(* The block index in memory and on disk. *)

\* A block is stored.
LEMMA TreeAcceptBlock ==
  ASSUME TypeInv, TreeInv, NEW p \in 0 .. Len(blocks), NEW body \in Bodies, AcceptBlock(p, body)
  PROVE  /\ TreeInv' /\ Len(blocks') = Len(blocks) + 1
         /\ \A b \in Ids : b \in Ids' /\ blocks'[b] = blocks[b] /\ queued'[b] = queued[b]
<1> DEFINE n == Len(blocks)
<1>1. /\ job.phase = "idle" /\ blocks' = Append(blocks, [prev |-> p, body |-> body])
      /\ queued' = Put(queued, n + 1, {}) /\ dirty' = dirty \cup {n + 1}
      /\ UNCHANGED <<valid, tip, disk, job>>
  BY Zenon DEF AcceptBlock, Free
<1>2. /\ n \in Nat /\ blocks \in Seq([prev : Nat, body : Body]) /\ valid \subseteq Ids
      /\ DOMAIN queued = Ids /\ Len(disk.blocks) <= n /\ Len(disk.blocks) \in Nat
  <2>1. TreeOK(blocks, nClaims, queued, valid, failed, tip) /\ ShapeInv /\ queued \in [Ids -> SUBSET Nat]
    BY ChainParts, JobParts, Zenon
  <2>2. Len(disk.blocks) \in Nat
    BY ChainParts, Zenon
  <2> QED BY <2>1, <2>2 DEF TreeOK, ShapeInv, Ids
<1>3. Len(blocks') = n + 1 /\ \A b \in 1 .. n : blocks'[b] = blocks[b]
  BY <1>1, <1>2
<1>4. \A b \in Ids : b \in Ids' /\ blocks'[b] = blocks[b] /\ queued'[b] = queued[b]
  <2>1. \A b \in 1 .. n : b \in 1 .. (n + 1) /\ b # n + 1
    BY <1>2
  <2> QED BY <1>1, <1>2, <1>3, <2>1, Zenon DEF Ids, Put
<1>5. ~Connecting'
  BY <1>1, Zenon DEF Connecting
<1>6. \A b \in 1 .. Len(disk.blocks) : b \in Ids
  BY <1>2 DEF Ids
<1>7. valid' \ dirty' \subseteq disk.valid /\ disk.valid \subseteq valid
  BY <1>1, Zenon DEF TreeInv
<1>8. /\ \A b \in valid : blocks'[b].prev \in valid \cup {0}
      /\ \A b \in disk.valid : blocks'[b].prev \in disk.valid \cup {0}
  BY <1>2, <1>4, <1>7, Zenon DEF TreeInv
<1>9. \A b \in 1 .. Len(disk.blocks) : disk.blocks[b] = blocks'[b]
  BY <1>4, <1>6, Zenon DEF TreeInv
<1> QED BY <1>1, <1>3, <1>4, <1>5, <1>7, <1>8, <1>9, Zenon DEF TreeInv

\* After a flush the block index on disk is the one in memory, and after a crash
\* the one in memory is the one on disk.
LEMMA TreeFlush ==
  ASSUME TypeInv, TypeInv', TreeInv, NEW full \in BOOLEAN, Flush(full)
  PROVE  /\ TreeInv' /\ disk'.valid = valid
         /\ 1 .. Len(disk'.blocks) = Ids
<1> DEFINE n == Len(blocks)
           m == Len(disk.blocks)
<1>1. /\ job.phase = "idle" /\ dirty' = {} /\ UNCHANGED <<blocks, valid, tip, job>>
      /\ disk'.blocks = [b \in Ids |-> IF b \in dirty THEN blocks[b] ELSE disk.blocks[b]]
      /\ disk'.valid = (disk.valid \ dirty) \cup (valid \cap dirty)
      /\ disk'.tip = tip \/ disk'.tip = disk.tip
  BY Zenon DEF Flush, Free
<1>2. n \in Nat /\ m \in Nat /\ m <= n /\ Ids = 1 .. n /\ Ids' = Ids /\ \A b \in Ids : b \notin dirty => b \in 1 .. m
  BY <1>1, ChainParts, Zenon DEF TypeInv, ShapeInv, Ids
<1>3. valid \subseteq Ids
  BY ChainParts, Zenon DEF TreeOK, Ids
<1>4. disk'.valid = valid
  BY <1>1, <1>3, Zenon DEF TreeInv
<1>5. 1 .. Len(disk'.blocks) = Ids
  <2>1. Len(disk'.blocks) <= n /\ Len(disk'.blocks) \in Nat /\ Ids \subseteq 1 .. Len(disk'.blocks)
    <3>1. disk'.blocks \in Seq([prev : Nat, body : Body])
      BY Zenon DEF TypeInv, TypeOK, TreeOK
    <3>2. Len(disk'.blocks) \in Nat
      BY <3>1
    <3>3. Len(disk'.blocks) <= Len(blocks') /\ Ids' \ dirty' \subseteq 1 .. Len(disk'.blocks)
      BY Zenon DEF TypeInv, ShapeInv
    <3> QED BY <1>1, <1>2, <3>2, <3>3, Zenon
  <2> QED BY <1>2, <2>1
<1>6. \A b \in Ids : disk'.blocks[b] = blocks[b]
  BY <1>1, <1>2, Zenon DEF TreeInv
<1>7. ~Connecting'
  BY <1>1, Zenon DEF Connecting
<1>8. disk'.tip \in valid \cup {0}
  BY <1>1, Zenon DEF TreeInv
<1>9. \A b \in valid : blocks[b].prev \in valid \cup {0}
  BY Zenon DEF TreeInv
<1>10. tip \in valid \cup {0}
  BY Zenon DEF TreeInv
<1> QED BY <1>1, <1>4, <1>5, <1>6, <1>7, <1>8, <1>9, <1>10, Zenon DEF TreeInv

LEMMA TreeCrash ==
  ASSUME TypeInv, TreeInv, Crash
  PROVE  /\ TreeInv' /\ valid' = disk.valid /\ disk.valid \subseteq Ids /\ disk.valid \subseteq Ids'
         /\ \A b \in disk.valid : blocks'[b] = blocks[b] /\ blocks[b].prev \in disk.valid \cup {0}
<1>1. /\ job' = Idle /\ dirty' = {} /\ blocks' = disk.blocks /\ valid' = disk.valid /\ tip' = disk.tip
      /\ UNCHANGED disk
  BY Zenon DEF Crash
<1>2. disk.valid \subseteq 1 .. Len(disk.blocks) /\ valid \subseteq Ids
  BY ChainParts, Zenon DEF TreeOK, Ids
<1>3. Ids' = 1 .. Len(disk.blocks)
  BY <1>1, Zenon DEF Ids
<1>4. disk.valid \subseteq Ids /\ disk.valid \subseteq Ids'
  BY <1>2, <1>3, Zenon DEF TreeInv
<1>5. \A b \in disk.valid : blocks'[b] = blocks[b] /\ blocks[b].prev \in disk.valid \cup {0}
  BY <1>1, <1>2, Zenon DEF TreeInv
<1>6. ~Connecting'
  BY <1>1, ChainParts, IdleStep, Zenon
<1>7. disk.tip \in disk.valid \cup {0}
  BY Zenon DEF TreeInv
<1>8. TreeInv'
  BY <1>1, <1>5, <1>6, <1>7, Zenon DEF TreeInv
<1> QED BY <1>1, <1>4, <1>5, <1>8, Zenon

\* The block index is empty in the beginning.
LEMMA TreeInit ==
  ASSUME Init
  PROVE  TreeInv
<1>1. /\ blocks = <<>> /\ valid = {} /\ tip = 0 /\ job.phase = "idle"
      /\ disk.blocks = <<>> /\ disk.valid = {} /\ disk.tip = 0
  BY Zenon DEF Init, Idle
<1>2. ~Connecting
  BY <1>1, Zenon DEF Connecting
<1>3. 1 .. Len(disk.blocks) = {}
  BY <1>1
<1> QED BY <1>1, <1>2, <1>3, Zenon DEF TreeInv

\* Every step keeps TreeInv.
LEMMA TreeNext == TypeInv /\ TypeInv' /\ TreeInv /\ [Next]_vars => TreeInv'
\* A step that leaves the blocks, the tip and the disk alone has only its job to
\* answer for.
<1>TreeQuiet.
  ASSUME TreeInv, UNCHANGED <<blocks, valid, tip, disk>>, dirty \subseteq dirty',
         Connecting' => blocks[job'.block].prev = tip /\ blocks[job'.block].body = job'.body
  PROVE  TreeInv'
  BY <1>TreeQuiet, Zenon DEF TreeInv
\* A job that goes on with the same block.
<1>TreeGoOn.
  ASSUME TreeInv, UNCHANGED <<blocks, valid, tip, disk>>, dirty \subseteq dirty',
         \/ job' = Idle
         \/ job'.phase \in {"idle", "claimset"}
         \/ Connecting /\ job'.block = job.block /\ job'.body = job.body
         \/ job'.just
  PROVE  TreeInv'
  <2> USE <1>TreeGoOn
  <2>1. Connecting' => blocks[job'.block].prev = tip /\ blocks[job'.block].body = job'.body
    BY DEF Connecting, Idle, TreeInv
  <2> QED BY <2>1, <1>TreeQuiet, Zenon
\* The steps of the claim messages and of the operations that begin.
<1>TreeStart.
  ASSUME TypeInv, TreeInv,
         \/ \E c \in Gossip : ReceiveClaim(c) \/ QueueClaim(c)
         \/ \E cs \in ClaimSets : StartClaimSet(cs)
         \/ ApplyClaim
         \/ \E b \in Ids : StartConnect(b)
         \/ \E body \in Bodies : StartTest(body)
  PROVE  TreeInv'
  <2> USE <1>TreeStart
  <2>1. UNCHANGED <<chain, disk>>
    BY Zenon DEF ReceiveClaim, QueueClaim, StartClaimSet, ApplyClaim, StartConnect, StartTest
  <2>2. CASE \E c \in Gossip : ReceiveClaim(c) \/ QueueClaim(c)
    <3>1. job' = job /\ job.phase = "idle"
      BY <2>2, Zenon DEF ReceiveClaim, QueueClaim, Free
    <3> QED BY <2>1, <3>1, <1>TreeGoOn, Zenon DEF chain
  <2>3. CASE \E cs \in ClaimSets : StartClaimSet(cs)
    <3>1. job'.phase = "claimset"
      BY <2>3, Zenon DEF StartClaimSet, Idle
    <3> QED BY <2>1, <3>1, <1>TreeGoOn, Zenon DEF chain
  <2>4. CASE ApplyClaim
    <3>1. job.phase = "claimset" /\ (job' = Idle \/ job' = [job EXCEPT !.k = @ + 1])
      BY <2>4, Zenon DEF ApplyClaim, Advance
    <3>2. job' = Idle \/ job'.phase = "claimset"
      BY <3>1, JobParts, Zenon DEF JobOK
    <3> QED BY <2>1, <3>2, <1>TreeGoOn, Zenon DEF chain
  <2>5. CASE \E b \in Ids : StartConnect(b)
    <3>1. PICK b \in Ids : StartConnect(b)
      BY <2>5, Zenon
    <3>2. job'.block = b /\ job'.body = blocks[b].body /\ blocks[b].prev = tip
      BY <3>1, Zenon DEF StartConnect, Idle
    <3> QED BY <2>1, <3>2, <1>TreeQuiet, Zenon DEF chain
  <2>6. CASE \E body \in Bodies : StartTest(body)
    <3>1. job'.just
      BY <2>6, Zenon DEF StartTest, Idle
    <3> QED BY <2>1, <3>1, <1>TreeGoOn, Zenon DEF chain
  <2> QED BY <2>2, <2>3, <2>4, <2>5, <2>6, Zenon
\* A job whose fields change as the checks of a block change them.
<1>JobGoesOn.
  ASSUME TypeInv, TreeInv, job.phase \in {"start", "vclaim", "vout", "finish", "record"},
         UNCHANGED <<blocks, valid, tip, disk>>, dirty \subseteq dirty',
         job'.block = job.block, job'.body = job.body, job'.just = job.just
  PROVE  TreeInv'
  <2> USE <1>JobGoesOn
  <2>1. job.just \in BOOLEAN
    BY JobParts, Zenon DEF JobOK
  <2>2. Connecting' => Connecting
    BY <2>1, Zenon DEF Connecting
  <2>3. Connecting' => blocks[job'.block].prev = tip /\ blocks[job'.block].body = job'.body
    BY <2>2, Zenon DEF TreeInv
  <2> QED BY <2>3, <1>TreeQuiet, Zenon
\* The steps of ConnectBlock up to the new tip.
<1>TreeCheck.
  ASSUME TypeInv, TreeInv,
         \/ Reject \/ CheckClaims \/ CheckVClaim \/ CheckVOut \/ VOutDone \/ FinishChecks
         \/ \E s \in Script : RecordClaim(s)
  PROVE  TreeInv'
  <2> USE <1>TreeCheck
  <2>1. /\ UNCHANGED <<blocks, valid, tip, disk>>
        /\ job.phase \in {"start", "vclaim", "vout", "finish", "record"}
    BY Zenon DEF Reject, CheckClaims, CheckVClaim, CheckVOut, VOutDone, FinishChecks, RecordClaim, chain
  <2>2. JobOK
    BY JobParts, Zenon
  <2>3. CASE Fail
    BY <2>1, <2>3, <1>TreeGoOn, Zenon DEF Fail
  <2>4. CASE CheckClaims /\ ~Fail
    <3>1. UNCHANGED dirty /\ \E p : job' = [job EXCEPT !.phase = p]
      BY <2>4, Zenon DEF CheckClaims
    <3>2. job'.block = job.block /\ job'.body = job.body /\ job'.just = job.just
      BY <2>2, <3>1, Zenon DEF JobOK
    <3> QED BY <2>1, <3>1, <3>2, <1>JobGoesOn, Zenon
  <2>5. CASE CheckVClaim /\ ~Fail
    <3>1. UNCHANGED dirty /\ (job' = [job EXCEPT !.k = @ + 1] \/ job' = [job EXCEPT !.phase = "vout", !.k = 1])
      BY <2>5, Zenon DEF CheckVClaim
    <3>2. job'.block = job.block /\ job'.body = job.body /\ job'.just = job.just
      BY <2>2, <3>1, Zenon DEF JobOK
    <3> QED BY <2>1, <3>1, <3>2, <1>JobGoesOn, Zenon
  <2>6. CASE CheckVOut /\ ~Fail
    <3>1. /\ UNCHANGED dirty
          /\ \/ job' = [job EXCEPT !.k = @ + 1]
             \/ \E p : job' = [[job EXCEPT !.k = @ + 1] EXCEPT !.paid = p]
             \/ \E q : job' = [[job EXCEPT !.k = @ + 1] EXCEPT !.queue = q]
      BY <2>6, Zenon DEF CheckVOut
    <3>2. job'.block = job.block /\ job'.body = job.body /\ job'.just = job.just
      BY <2>2, <3>1, Zenon DEF JobOK
    <3> QED BY <2>1, <3>1, <3>2, <1>JobGoesOn, Zenon
  <2>7. CASE VOutDone
    <3>1. UNCHANGED dirty /\ job' = [job EXCEPT !.phase = "finish"]
      BY <2>7, Zenon DEF VOutDone, chain
    <3>2. job'.block = job.block /\ job'.body = job.body /\ job'.just = job.just
      BY <2>2, <3>1, Zenon DEF JobOK
    <3> QED BY <2>1, <3>1, <3>2, <1>JobGoesOn, Zenon
  <2>8. CASE FinishChecks /\ ~Fail
    <3>1. UNCHANGED dirty /\ (job' = Idle \/ job' = [job EXCEPT !.phase = "record", !.todo = DOMAIN job.paid])
      BY <2>8, Zenon DEF FinishChecks
    <3>2. CASE job' = Idle
      BY <2>1, <3>1, <3>2, <1>TreeGoOn, Zenon
    <3>3. CASE job' = [job EXCEPT !.phase = "record", !.todo = DOMAIN job.paid]
      <4>1. job'.block = job.block /\ job'.body = job.body /\ job'.just = job.just
        BY <2>2, <3>3, Zenon DEF JobOK
      <4> QED BY <2>1, <3>1, <4>1, <1>JobGoesOn, Zenon
    <3> QED BY <3>1, <3>2, <3>3, Zenon
  <2>9. ASSUME NEW s \in Script, RecordClaim(s) PROVE TreeInv'
    <3>1. UNCHANGED dirty /\ job' = [job EXCEPT !.todo = @ \ {s}]
      BY <2>9, Zenon DEF RecordClaim
    <3>2. job'.block = job.block /\ job'.body = job.body /\ job'.just = job.just
      BY <2>2, <3>1, Zenon DEF JobOK
    <3> QED BY <2>1, <3>1, <3>2, <1>JobGoesOn, Zenon
  <2> QED BY <2>3, <2>4, <2>5, <2>6, <2>7, <2>8, <2>9, Zenon DEF Reject
\* The tip moves to the block of the job, or to its own parent.
<1>TreeTip.
  ASSUME TypeInv, TreeInv, ConnectTip \/ DisconnectTip
  PROVE  TreeInv'
  <2> USE <1>TreeTip
  <2>1. CASE ConnectTip
    <3> DEFINE b == job.block
    <3>1. /\ job.phase = "record" /\ tip' = b /\ valid' = valid \cup {b} /\ job' = Idle
          /\ dirty' = (IF b \in valid THEN dirty ELSE dirty \cup {b}) /\ UNCHANGED <<blocks, disk>>
      BY <2>1, Zenon DEF ConnectTip
    <3>2. Connecting
      BY <3>1, JobParts, Zenon DEF ShapeInv, Connecting
    <3>3. blocks[b].prev = tip
      BY <3>2, Zenon DEF TreeInv
    <3>4. ~Connecting'
      BY <3>1, ChainParts, IdleStep, Zenon
    <3>5. valid' \ dirty' \subseteq disk.valid /\ disk.valid \subseteq valid'
      BY <3>1, Zenon DEF TreeInv
    <3>6. \A x \in valid' : blocks[x].prev \in valid' \cup {0}
      BY <3>1, <3>3, Zenon DEF TreeInv
    <3>7. /\ disk.tip \in disk.valid \cup {0}
          /\ \A x \in disk.valid : blocks[x].prev \in disk.valid \cup {0}
          /\ \A x \in 1 .. Len(disk.blocks) : disk.blocks[x] = blocks[x]
      BY Zenon DEF TreeInv
    <3> QED BY <3>1, <3>4, <3>5, <3>6, <3>7, Zenon DEF TreeInv
  <2>2. CASE DisconnectTip
    <3>1. /\ job.phase = "idle" /\ tip # 0 /\ tip' = blocks[tip].prev
          /\ UNCHANGED <<blocks, valid, dirty, disk, job>>
      BY <2>2, Zenon DEF DisconnectTip, Free
    <3>2. ~Connecting' /\ tip \in valid
      BY <3>1, Zenon DEF Connecting, TreeInv
    <3> QED BY <3>1, <3>2, Zenon DEF TreeInv
  <2> QED BY <2>1, <2>2, Zenon
\* Restart and reload.
<1>TreeLoad.
  ASSUME TreeInv, TypeInv, Restart \/ LoadDone \/ \E s \in Script : LoadClaim(s)
  PROVE  TreeInv'
  <2> USE <1>TreeLoad
  <2>1. mode # "up" /\ UNCHANGED <<chain, disk, job>>
    BY Zenon DEF Restart, LoadDone, LoadClaim
  <2>2. job.phase = "idle"
    BY <2>1, JobParts, Zenon DEF ShapeInv, Idle
  <2> QED BY <2>1, <2>2, <1>TreeGoOn, Zenon DEF chain
<1>Step.
  ASSUME TypeInv, TypeInv', TreeInv, [Next]_vars
  PROVE  TreeInv'
  <2> USE <1>Step
  <2>1. CASE UNCHANGED vars
    <3>1. UNCHANGED <<blocks, valid, dirty, tip, disk, job>>
      BY <2>1, Zenon DEF vars, chain
    <3> QED BY <3>1, Zenon DEF TreeInv, Connecting
  <2>2. CASE \/ \E c \in Gossip : ReceiveClaim(c) \/ QueueClaim(c)
             \/ \E cs \in ClaimSets : StartClaimSet(cs)
             \/ ApplyClaim
             \/ \E b \in Ids : StartConnect(b)
             \/ \E body \in Bodies : StartTest(body)
    BY <2>2, <1>TreeStart, Zenon
  <2>3. CASE \E p \in 0 .. Len(blocks), body \in Bodies : AcceptBlock(p, body)
    BY <2>3, TreeAcceptBlock, Zenon
  <2>4. CASE \/ Reject \/ CheckClaims \/ CheckVClaim \/ CheckVOut \/ VOutDone \/ FinishChecks
             \/ \E s \in Script : RecordClaim(s)
    BY <2>4, <1>TreeCheck, Zenon
  <2>5. CASE ConnectTip \/ DisconnectTip
    BY <2>5, <1>TreeTip, Zenon
  <2>6. CASE \E full \in BOOLEAN : Flush(full)
    BY <2>6, TreeFlush, Zenon
  <2>7. CASE Crash
    BY <2>7, TreeCrash, Zenon
  <2>8. CASE Restart \/ LoadDone \/ \E s \in Script : LoadClaim(s)
    BY <2>8, <1>TreeLoad, Zenon
  <2> QED BY <2>1, <2>2, <2>3, <2>4, <2>5, <2>6, <2>7, <2>8, Zenon DEF Next, Running, Persistence
<1> QED BY <1>Step
=============================================================================
