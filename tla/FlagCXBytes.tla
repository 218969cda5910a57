----------------------------- MODULE FlagCXBytes -----------------------------
(***************************************************************************)
(* FlagCXTransfer with the bytes that SenderWrite moves: which unit of KV  *)
(* (a layer's K or V of one head in one block) each address of a worker    *)
(* means, and whether the writes of TransferPlan bring every unit D asks   *)
(* for to its place.                                                       *)
(***************************************************************************)
EXTENDS FlagCXTransfer, TransferPlan

CONSTANTS
    PSize, DSize,  \* tensor-parallel sizes; the ranks of the run are some of them
    RankOf,  \* the number of each rank
    Cases    \* models and requests, see Case

(* A case: KV heads of the model, its layers [form, group] with the page   *)
(* length of an MLA layer, P's and D's order of registration, and a        *)
(* request as TransferParams takes it.                                     *)
ASSUME BytesAssumption ==
    /\ PSize \in Nat \ {0} /\ DSize \in Nat \ {0}
    /\ RankOf \in [PRanks \cup DRanks -> Nat]
    /\ Cases # {}

Layers(c) == DOMAIN c.layers

(* vLLM's TransferTopology: whether the ranks of an engine hold copies.    *)
Replicated(c, size) == size > c.heads \/ \E l \in Layers(c) : c.layers[l].form = "mla"

(* The heads a rank holds, one after another in each block.                *)
HeadsOf(c, rank, size) ==
    IF Replicated(c, size) THEN <<(rank * c.heads) \div size>>
    ELSE [i \in 1 .. c.heads \div size |-> rank * (c.heads \div size) + i - 1]

(* What register_kv_caches gets of a layer: K and V apart or packed, the   *)
(* only cache of MLA, the state of a Mamba layer.                          *)
Parts(form) == IF form = "apart" THEN <<"K", "V">> ELSE <<form>>
Tensor(c, l, n, part, heads) ==
    LET form == c.layers[l].form
        len == IF form = "packed" THEN 2 * heads
               ELSE IF form = "mla" THEN c.stride ELSE heads
    IN [layer |-> l, index |-> l, group |-> c.layers[l].group, form |-> form,
        part |-> part, base |-> 1000 * n, blockLen |-> len,
        kvLen |-> KVBlockLen(form, len, 1)]
Side(c, r, size, order) ==
    LET names == FlattenSeq([i \in DOMAIN order |->
                     [k \in DOMAIN Parts(c.layers[order[i]].form) |->
                         <<order[i], Parts(c.layers[order[i]].form)[k]>>]])
    IN [rank |-> RankOf[r], size |-> size,
        heads |-> HeadsOf(c, RankOf[r], size),
        tensors |-> [n \in DOMAIN names |->
            Tensor(c, names[n][1], n, names[n][2], Len(HeadsOf(c, RankOf[r], size)))]]
PSide(c, p) == Side(c, p, PSize, c.pOrder)
DSide(c, d) == Side(c, d, DSize, c.dOrder)

-----------------------------------------------------------------------------
(* The address of a unit in the memory of a side, from the layout alone:   *)
(* t is the tensor that holds it, h the place of its head.                 *)
Address(side, layer, part, head, block) ==
    LET t == CHOOSE t \in {side.tensors[n] : n \in DOMAIN side.tensors} :
                 t.layer = layer /\ (t.form = "apart" => t.part = part)
        h == (CHOOSE i \in DOMAIN side.heads : side.heads[i] = head) - 1
        at == IF t.form = "packed" /\ part = "V" THEN Len(side.heads) ELSE 0
    IN t.base + block * t.blockLen + at + h

PartsIn(form) == IF form \in {"apart", "packed"} THEN {"K", "V"} ELSE {form}

(* The units D asks for: layer, part, head and place in the request, the   *)
(* places counted in kernel blocks from the end.                           *)
Asked(c, d) == UNION {
    {<<l, part, DSide(c, d).heads[h], i>> :
        part \in PartsIn(c.layers[l].form),
        h \in DOMAIN DSide(c, d).heads,
        i \in DOMAIN RemoteBlocks(c.req.remote, c.layers[l].group, c.req.states,
                                  c.req.kernel)} : l \in Layers(c)}
FromEnd(s, n, i) == s[Len(s) - n + i]
AddressOnD(c, d, u) ==
    LET blocks == RemoteBlocks(c.req.remote, c.layers[u[1]].group, c.req.states, c.req.kernel)
    IN Address(DSide(c, d), u[1], u[2], u[3], blocks[u[4]])
AddressOnP(c, p, u) ==
    LET g == c.layers[u[1]].group
        n == Len(RemoteBlocks(c.req.remote, g, c.req.states, c.req.kernel))
        blocks == Kernel(Kept(c.req.local, g, c.req.states), g, c.req.states, c.req.kernel)
    IN Address(PSide(c, p), u[1], u[2], u[3], FromEnd(blocks, n, u[4]))

(* Every write of the ranks S to d, as <<rank, write>>.                    *)
WritesOf(c, S, d) == UNION {
    {<<p, w>> : w \in TransferParams(PSide(c, p), DSide(c, d),
                          Replicated(c, PSize), c.req)} : p \in S}
Hits(writes, a) == {x \in writes : x[2].dst <= a /\ a < x[2].dst + x[2].len}

(* The ranks S bring to d what it asks for: each unit is written once, by  *)
(* a rank that holds it and from where it is, and nothing else is written. *)
Whole(c, S, d) ==
    LET writes == WritesOf(c, S, d)
        places == {AddressOnD(c, d, u) : u \in Asked(c, d)}
    IN /\ \A u \in Asked(c, d) :
            LET a == AddressOnD(c, d, u)
            IN /\ Cardinality(Hits(writes, a)) = 1
               /\ \A x \in Hits(writes, a) :
                     /\ \E h \in DOMAIN PSide(c, x[1]).heads : PSide(c, x[1]).heads[h] = u[3]
                     /\ x[2].src + (a - x[2].dst) = AddressOnP(c, x[1], u)
       /\ \A x \in writes : x[2].dst .. x[2].dst + x[2].len - 1 \subseteq places

Accepted(c, S, d) == \A p \in S :
    ~Refused(PSide(c, p), DSide(c, d), Replicated(c, PSize))

(* <<S, d>>: the writes of the ranks S alone do not bring d all of it in   *)
(* every case that is not refused.  Evaluated once.                        *)
NotWhole == UNION {
    {<<S, d>> : c \in {c \in Cases : Accepted(c, PTargets(d), d) /\ ~Whole(c, S, d)}} :
        S \in SUBSET PRanks, d \in DRanks}

Wrote(d, t) == {p \in PRanks : <<p, d, t>> \in copied}

(* A D rank that reports a request as received has every unit of KV it     *)
(* asked for in its place, from whichever P ranks: whatever the layouts,   *)
(* the order of registration, the heads and the blocks on both sides.      *)
ReceivedWhole == \A d \in DRanks, t \in Transfers :
    (t \in finishedRecv[d] \cup loaded[d] /\ dReq[t] = "blocks")
        => <<Wrote(d, t), d>> \notin NotWhole

(* The only P rank that a D rank pulls from hands a transfer over as sent  *)
(* (not as expired) only when every such D rank has all it asked for.      *)
SentWhole == \A p \in PRanks, t \in Transfers :
    (t \in finishedSend[p] \cup polled[p].fin /\ dReq[t] = "blocks")
        => \A d \in DTargets(p) : PTargets(d) = {p} => <<Wrote(d, t), d>> \notin NotWhole
=============================================================================
