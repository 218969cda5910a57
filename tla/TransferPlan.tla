---------------------------- MODULE TransferPlan ----------------------------
(***************************************************************************)
(* Which bytes a prefill worker writes where: the pure part of             *)
(* FlagCXTransfer's SenderWrite (distributed/kv_transfer/                  *)
(* flagcx_connector.py, from the registered tensors to the lists for       *)
(* flagcxP2pBatchWriteSync).                                               *)
(*                                                                         *)
(* A side is a worker of either engine: its rank, the size of its engine   *)
(* and the tensors it has registered, in its own order.  Lengths count     *)
(* units, the KV of one head in one block.                                 *)
(***************************************************************************)
EXTENDS Integers, Sequences, FiniteSets, SequencesExt

NullBlock == 0

(* register_kv_caches: K and V packed in one block are half of it each, a  *)
(* page of MLA may be shorter than its stride, a tensor of K, V or a state *)
(* is transferred whole.                                                   *)
KVBlockLen(form, blockLen, page) ==
    CASE form = "packed" -> blockLen \div 2
      [] form = "mla" -> page
      [] OTHER -> blockLen

(* _expand_transfer_regions: a packed tensor gives its K and its V.        *)
Halves(r) == IF r.form = "packed" THEN <<r, [r EXCEPT !.base = @ + r.kvLen]>>
             ELSE <<r>>
Regions(side) == FlattenSeq([i \in DOMAIN side.tensors |-> Halves(side.tensors[i])])

-----------------------------------------------------------------------------
(* Pairing the regions of the two sides.                                   *)

(* A region is known by its layer and by how many of the layer's regions   *)
(* stand before it.                                                        *)
Key(regions, i) ==
    <<regions[i].layer, Cardinality({j \in 1 .. i : regions[j].layer = regions[i].layer})>>
Partners(local, remote, i) ==
    {k \in DOMAIN remote : Key(remote, k) = Key(local, i)}
Misaligned(local, remote) == \E i \in DOMAIN local :
    \/ Partners(local, remote, i) = {}
    \/ \E k \in Partners(local, remote, i) :
          local[i].index # remote[k].index \/ local[i].group # remote[k].group
Aligned(local, remote) ==
    [i \in DOMAIN local |-> remote[CHOOSE k \in Partners(local, remote, i) : TRUE]]

(* _get_tp_ratio, for sizes of which one divides the other.                *)
Ratio(local, remote) == IF local >= remote THEN local \div remote
                        ELSE -(remote \div local)

(* _validate_asymmetric_region_lengths, of aligned regions.                *)
LengthsFit(local, remote, ratio) == \A i \in DOMAIN local :
    IF ratio > 0 THEN remote[i].kvLen = local[i].kvLen * ratio
    ELSE local[i].kvLen = remote[i].kvLen * (-ratio)

-----------------------------------------------------------------------------
(* What of a block is copied.                                              *)

Slice(send, src, dst, len) == [send |-> send, src |-> src, dst |-> dst, len |-> len]

(* Mutant: the slice is always the first.                                  *)
FirstSlice(p, d, localLen, remoteLen, replicated) ==
    Slice(TRUE, 0, 0, IF localLen < remoteLen THEN localLen ELSE remoteLen)

(* _compute_sender_transfer_plan.                                          *)
SenderPlan(p, d, localLen, remoteLen, replicated) ==
    LET ratio == Ratio(p.size, d.size)
    IN CASE ratio = 1 -> Slice(TRUE, 0, 0, localLen)
         [] ratio > 1 /\ replicated -> Slice(p.rank % ratio = 0, 0, 0, localLen)
         [] ratio > 1 /\ ~replicated -> Slice(TRUE, 0, (p.rank % ratio) * localLen, localLen)
         [] ratio < 0 /\ replicated -> Slice(TRUE, 0, 0, localLen)
         [] ratio < 0 /\ ~replicated -> Slice(TRUE, (d.rank % (-ratio)) * remoteLen, 0, remoteLen)

(* What _send_kv_to_decode raises for, before it writes anything.          *)
Overruns(p, d, local, remote, replicated) ==
    LET plan == SenderPlan(p, d, local.kvLen, remote.kvLen, replicated)
    IN /\ plan.send
       /\ plan.src + plan.len > local.kvLen \/ plan.dst + plan.len > remote.kvLen
Refused(p, d, replicated) ==
    LET local == Regions(p)
        remote == Aligned(local, Regions(d))
    IN \/ Misaligned(local, Regions(d))
       \/ ~replicated /\ ~LengthsFit(local, remote, Ratio(p.size, d.size))
       \/ \E i \in DOMAIN local : Overruns(p, d, local[i], remote[i], replicated)

CanCoalesce(local, remote, plan) ==
    /\ plan.src = 0 /\ plan.dst = 0
    /\ plan.len = local.blockLen /\ plan.len = remote.blockLen

-----------------------------------------------------------------------------
(* Which blocks are copied.  A request's blocks are one sequence per       *)
(* KV-cache group; "states" are the groups of Mamba layers, whose null     *)
(* blocks stand for states that are not kept.                              *)

Kept(blocks, g, states) == IF g \in states
                           THEN SelectSeq(blocks[g], LAMBDA b : b # NullBlock)
                           ELSE blocks[g]

(* What D has cached stands in front of what it asks for.                  *)
LastOf(s, n) == SubSeq(s, Len(s) - n + 1, Len(s))

Skipped(local, remote, states) ==
    \/ \A g \in DOMAIN remote : remote[g] = <<>>
    \/ Len(local) # Len(remote)
    \/ \E g \in DOMAIN remote : Len(Kept(local, g, states)) < Len(Kept(remote, g, states))
    \/ \A g \in DOMAIN remote : Kept(remote, g, states) = <<>>

(* _logical_to_kernel_block_ids: k kernel blocks to a logical one.         *)
Kernel(s, g, states, k) ==
    IF g \in states THEN s
    ELSE [i \in 1 .. k * Len(s) |-> s[(i - 1) \div k + 1] * k + ((i - 1) % k)]

RemoteBlocks(remote, g, states, k) == Kernel(Kept(remote, g, states), g, states, k)
LocalBlocks(local, remote, g, states, k) ==
    Kernel(LastOf(Kept(local, g, states), Len(Kept(remote, g, states))), g, states, k)

(* Mutant: runs of the source alone.                                       *)
BreakOfSource(src, dst, i) == src[i + 1] # src[i] + 1
Break(src, dst, i) == src[i + 1] # src[i] + 1 \/ dst[i + 1] # dst[i] + 1

(* group_concurrent_contiguous: the first and last place of each run.      *)
Runs(src, dst) == {r \in (1 .. Len(src)) \X (1 .. Len(src)) :
    /\ r[1] <= r[2]
    /\ r[1] = 1 \/ Break(src, dst, r[1] - 1)
    /\ r[2] = Len(src) \/ Break(src, dst, r[2])
    /\ \A n \in r[1] .. r[2] - 1 : ~Break(src, dst, n)}

-----------------------------------------------------------------------------
(* The writes of one region, and of a request: from where, to where, and   *)
(* how many units.                                                         *)

WriteAt(local, remote, plan, n, src, dst, len) ==
    [n |-> n, src |-> local.base + src * local.blockLen + plan.src,
     dst |-> remote.base + dst * remote.blockLen + plan.dst, len |-> len]

RegionWrites(local, remote, plan, src, dst) ==
    IF ~plan.send THEN {}
    ELSE IF CanCoalesce(local, remote, plan)
    THEN {WriteAt(local, remote, plan, <<local, r[1]>>, src[r[1]], dst[r[1]],
                  plan.len * (r[2] - r[1] + 1)) : r \in Runs(src, dst)}
    ELSE {WriteAt(local, remote, plan, <<local, i>>, src[i], dst[i], plan.len) :
             i \in DOMAIN src}

(* _build_transfer_params.  A request: what P holds, what D asks for, the  *)
(* groups of states, kernel blocks to a logical one.                       *)
TransferParams(p, d, replicated, req) ==
    LET local == Regions(p)
        remote == Aligned(local, Regions(d))
        Plan(i) == SenderPlan(p, d, local[i].kvLen, remote[i].kvLen, replicated)
        Src(g) == LocalBlocks(req.local, req.remote, g, req.states, req.kernel)
        Dst(g) == RemoteBlocks(req.remote, g, req.states, req.kernel)
    IN IF Skipped(req.local, req.remote, req.states) THEN {}
       ELSE UNION {RegionWrites(local[i], remote[i], Plan(i),
                                Src(local[i].group), Dst(local[i].group)) :
                      i \in DOMAIN local}
=============================================================================
