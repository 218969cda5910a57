---------------------------- MODULE RunnerBatch ----------------------------
(***************************************************************************)
(* The bookkeeping of a model runner (worker/model_runner.py) as operators *)
(* on its state: the cached requests, the persistent batch, and what the   *)
(* previous step left on the device.                                       *)
(*                                                                         *)
(* A token is the pair of the request and the position it belongs to, so   *)
(* that a token in a wrong place can be told from the right one.  The CPU  *)
(* copies hold positions only, or Hole (-1, a token not known there yet).  *)
(*                                                                         *)
(* A worker is a record of                                                 *)
(*   reqs    self.requests: output_token_ids, num_computed_tokens and      *)
(*           prev_num_draft_len of each request that is known              *)
(*   rows    token_ids_cpu behind the prompt, up to num_tokens_no_spec,    *)
(*           of each request in the persistent batch                       *)
(*   order   input_batch.req_ids                                           *)
(*   prev    prev_req_id_to_index, prev_sampled_token_ids and              *)
(*           valid_sampled_token_count of the previous step                *)
(*                                                                         *)
(* A scheduler output is a record: what is scheduled (per request the      *)
(* tokens n, how it gets there, the count of computed tokens, of output    *)
(* tokens and of drafts, and how many output tokens the scheduler knows),  *)
(* the requests that finished, and the order the batch will have           *)
(* (condense and reorder are not in the repository: any order).            *)
(***************************************************************************)
EXTENDS Integers, Sequences, FiniteSets, Functions, SequencesExt, FiniteSetsExt

CONSTANTS PromptLen    \* prompt tokens of every request

ASSUME RunnerAssumption == PromptLen \in Nat \ {0}

Hole == -1

NoToken == <<>>

NoPrev == [index |-> <<>>, sampled |-> <<>>, valid |-> <<>>]

NewWorker == [reqs |-> <<>>, rows |-> <<>>, order |-> <<>>, prev |-> NoPrev]

Holes(n) == [k \in 1 .. n |-> Hole]

LastN(s, n) == SubSeq(s, IF n < Len(s) THEN Len(s) - n + 1 ELSE 1, Len(s))

Resized(s, n) == [k \in 1 .. n |-> IF k <= Len(s) THEN s[k] ELSE Hole]

----------------------------------------------------------------------------
\* _update_states

Scheduled(so) == DOMAIN so.req

\* req_index is not None: the request stays in the batch.
InBatch(w, so, r) == /\ r \in DOMAIN w.rows /\ r \notin so.ended
                     /\ r \in Scheduled(so) /\ so.req[r].kind # "resumed"

\* The drafts of the previous step that are taken for accepted for now.
Optimistic(w, so, r, async) ==
    IF async /\ InBatch(w, so, r) THEN w.reqs[r].drafts ELSE 0

\* new_token_ids: what a pipeline's scheduler sends back to the first rank.
NewTokens(q, async) ==
    IF async THEN <<>> ELSE [k \in 1 .. q.n - q.drafts |-> q.computed + k - 1]

\* all_token_ids[-num_output_tokens:]
Recovered(q) == LastN([p \in 1 .. PromptLen + q.known |-> p - 1], q.outputs)

\* output_token_ids of a request in the batch: the first rank of a pipeline
\* adds what it is sent, the last one drops what was optimistic.
Aligned(w, so, r, async, last) ==
    LET q    == so.req[r]
        out  == w.reqs[r].out \o Holes(Optimistic(w, so, r, async))
        new  == NewTokens(q, async)
        more == q.computed + Len(new) - PromptLen - Len(out)
    IN CASE ~last /\ more > 0 -> out \o LastN(new, more)
         [] last /\ q.outputs < Len(out) -> SubSeq(out, 1, q.outputs)
         [] OTHER -> out

\* Mutant: the tokens of a request that comes back are not recovered.
OutputsNotRecovered(w, so, r, async, last) ==
    IF so.req[r].kind = "new" THEN <<>> ELSE Aligned(w, so, r, async, last)

Outputs(w, so, r, async, last) ==
    CASE so.req[r].kind = "new" -> <<>>
      [] so.req[r].kind # "new" /\ async /\ ~InBatch(w, so, r) /\ so.req[r].outputs > 0
            -> Recovered(so.req[r])
      [] OTHER -> Aligned(w, so, r, async, last)

\* The CPU row of a request that stays in the batch.
KeptRow(w, so, r, async, last) ==
    LET q   == so.req[r]
        row == w.rows[r]
        new == NewTokens(q, async)
        end == q.computed + Len(new) - PromptLen
    IN CASE last /\ q.outputs < Len(w.reqs[r].out) + Optimistic(w, so, r, async)
               -> Resized(row, q.outputs)
         [] ~last /\ end > Len(row)
               -> row \o (IF async THEN Holes(end - Len(row)) ELSE LastN(new, end - Len(row)))
         [] OTHER -> row

Kept(w, so) == (DOMAIN w.reqs \ so.ended) \cup Scheduled(so)

UpdateStates(w, so, async, last) ==
    LET out == [r \in Scheduled(so) |-> Outputs(w, so, r, async, last)]
    IN [w EXCEPT
          !.reqs = [r \in Kept(w, so) |->
                      IF r \in Scheduled(so)
                      THEN [out |-> out[r], computed |-> so.req[r].computed,
                            drafts |-> so.req[r].drafts]
                      ELSE w.reqs[r]],
          !.rows = [r \in Scheduled(so) |->
                      IF InBatch(w, so, r) THEN KeptRow(w, so, r, async, last) ELSE out[r]],
          !.order = so.order]

\* Mutant: the counts are looked up by the row of this step.
CorrectionByRow(w, so, r, async) ==
    LET i == CHOOSE i \in DOMAIN so.order : so.order[i] = r
    IN IF Optimistic(w, so, r, async) > 0 /\ i \in DOMAIN w.prev.valid
       THEN Optimistic(w, so, r, async) + 1 - w.prev.valid[i]
       ELSE 0

\* The drafts of the previous step whose count has to be corrected, and by
\* how many.  A request without a row in the previous step is left alone.
Correction(w, so, r, async) ==
    IF Optimistic(w, so, r, async) > 0 /\ r \in DOMAIN w.prev.index
    THEN Optimistic(w, so, r, async) + 1 - w.prev.valid[w.prev.index[r]]
    ELSE 0

\* correct_spec_decode_token_counts, called after the forward pass.
Corrected(new, w, so, async) ==
    LET less(r) == [new.reqs[r] EXCEPT !.computed = @ - Correction(w, so, r, async)]
    IN [new EXCEPT !.reqs = [r \in DOMAIN new.reqs |->
                               IF r \in Scheduled(so) THEN less(r) ELSE new.reqs[r]]]

----------------------------------------------------------------------------
\* _prepare_inputs and _prepare_input_ids: the flattened inputs of a step.

\* np.cumsum, with a 0 in front.
CumSum(s) == LET sum[i \in 0 .. Len(s)] == IF i = 0 THEN 0 ELSE sum[i - 1] + s[i]
             IN sum

\* cu_num_tokens: the last of the row's places in the flattened inputs.
Ends(so) == CumSum([i \in DOMAIN so.order |-> so.req[so.order[i]].n])

\* Mutant: only an unfinished prompt is discarded.
DiscardIfPrompt(new, so) == {r \in Scheduled(so) : so.req[r].computed + so.req[r].n < PromptLen}

Discarded(new, so) ==
    {r \in Scheduled(so) :
        so.req[r].computed + so.req[r].n < PromptLen + Len(new.reqs[r].out)}

\* num_computed_tokens on the device.
Position(w, so, r, async) == so.req[r].computed - Correction(w, so, r, async)

CpuTokens(new, so, r) ==
    [j \in 1 .. so.req[r].n |->
        LET p   == so.req[r].computed + j - 1
            row == new.rows[r]
        IN CASE p < PromptLen -> <<r, p>>
             [] p >= PromptLen + Len(row) -> NoToken
             [] OTHER -> IF row[p - PromptLen + 1] = Hole THEN NoToken
                                                          ELSE <<r, row[p - PromptLen + 1]>>]

\* The k-th draft after a sampled token.
Draft(token, k) == <<token[1], token[2] + k>>

Common(w, so) == {i \in DOMAIN so.order : so.order[i] \in DOMAIN w.prev.index}

PrevRow(w, so, i) == w.prev.index[so.order[i]]

\* Mutant: the maximum is not looked at.
UnchangedByIndex(w, so) ==
    \A i \in Common(w, so) : PrevRow(w, so, i) = Ends(so)[i]

\* The batch is unchanged and each row has one token: a slice will do.
Unchanged(w, so) ==
    /\ \A i \in Common(w, so) : PrevRow(w, so, i) = Ends(so)[i]
    /\ Max({Ends(so)[i] : i \in Common(w, so)}) = Cardinality(Common(w, so))

\* The k-th place of the sampled token and its drafts, of a common row.
Place(so, i, k) == Ends(so)[i] - so.req[so.order[i]].drafts + k

Scattered(w, so, f, base) ==
    LET hits == {i \in Common(w, so) : Place(so, i, 0) <= f /\ f <= Ends(so)[i]}
    IN IF hits = {} THEN base
       ELSE LET i == CHOOSE i \in hits : TRUE
            IN Draft(w.prev.sampled[PrevRow(w, so, i)], f - Place(so, i, 0))

InputIds(w, new, so) ==
    LET total  == Ends(so)[Len(so.order)]
        common == Cardinality(Common(w, so))
        drafts == CumSum([i \in DOMAIN so.order |-> IF i \in Common(w, so)
                              THEN so.req[so.order[i]].drafts ELSE 0])[Len(so.order)]
        cpu    == FlattenSeq([i \in DOMAIN so.order |-> CpuTokens(new, so, so.order[i])])
        base   == IF common < total - drafts THEN cpu ELSE [f \in 1 .. total |-> NoToken]
    IN CASE common = 0 -> cpu
         [] common > 0 /\ Unchanged(w, so) ->
               [f \in 1 .. total |-> IF f <= common THEN w.prev.sampled[f] ELSE base[f]]
         [] OTHER -> [f \in 1 .. total |-> Scattered(w, so, f, base[f])]

\* What the inputs have to be.
OwnTokens(so, pos) ==
    FlattenSeq([i \in DOMAIN so.order |->
        [j \in 1 .. so.req[so.order[i]].n |-> <<so.order[i], pos[so.order[i]] + j - 1>>]])

----------------------------------------------------------------------------
\* _bookkeeping_sync and what is kept on the device for the next step.

\* The tokens a step gives a request: known to the CPU, or -1 for one of them.
Cached(w, tokens) ==
    LET more(r) == [w.reqs[r] EXCEPT !.out = @ \o tokens[r]]
    IN [w EXCEPT
          !.reqs = [r \in DOMAIN w.reqs |-> IF r \in DOMAIN tokens THEN more(r) ELSE w.reqs[r]],
          !.rows = [r \in DOMAIN w.rows |-> IF r \in DOMAIN tokens THEN w.rows[r] \o tokens[r]
                                                                   ELSE w.rows[r]]]

\* Mutant: the discarded requests keep their rows.
IndexOfAll(w, discard) ==
    [r \in Range(w.order) |-> CHOOSE i \in DOMAIN w.order : w.order[i] = r]

IndexOf(w, discard) ==
    [r \in Range(w.order) \ discard |-> CHOOSE i \in DOMAIN w.order : w.order[i] = r]

Remember(w, discard, sampled, valid) ==
    [w EXCEPT !.prev = [index |-> IndexOf(w, discard), sampled |-> sampled, valid |-> valid]]
=============================================================================
