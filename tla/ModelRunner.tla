---------------------------- MODULE ModelRunner ----------------------------
(***************************************************************************)
(* The model runners of an engine (worker/model_runner.py), one per rank   *)
(* of the pipeline, under the scheduler that drives them: which tokens a   *)
(* step computes, where, and what becomes of what it samples.              *)
(*                                                                         *)
(* execute_model and sample_tokens are one step each, per rank; the        *)
(* scheduler, the engine core and the grammar matchers are vLLM's, modelled*)
(* by what they send to the runner and take from it.  In all modes but     *)
(* "sync" two scheduler outputs may be under way: "async" schedules a step *)
(* before the last one is sampled, "spec" does with draft tokens, "grammar"*)
(* with structured requests as well, "pp" over two ranks, and "syncpp" is  *)
(* a pipeline that waits for its tokens.                                   *)
(***************************************************************************)
EXTENDS RunnerBatch, TLC

CONSTANTS Reqs,       \* requests
          Modes,      \* a subset of AllModes
          MaxTokens,  \* MaxTokens[mode], max_tokens of every request
          FullMask    \* _full_mask of the structured output manager

AllModes == {"sync", "async", "spec", "grammar", "pp", "syncpp"}

ASSUME EngineAssumption ==
    /\ IsFiniteSet(Reqs)
    /\ Modes \subseteq AllModes
    /\ MaxTokens \in [AllModes -> Nat \ {0}]

VARIABLES mode,      \* the engine's configuration
          request,   \* the scheduler's view of each request
          finished,  \* finished_req_ids for the next scheduler output
          inbox,     \* scheduler outputs each rank has not executed yet
          worker,    \* the state of each rank's runner
          pending,   \* execute_model_state of each rank, or NoStep
          sent,      \* sampled tokens the last rank has broadcast
          outputs,   \* ModelRunnerOutputs the scheduler has not processed
          accepted,  \* tokens each request's grammar matcher has accepted
          sampled,   \* history: tokens sampled for each request
          cached     \* history: positions of each request with a valid KV entry

vars == <<mode, request, finished, inbox, worker, pending, sent, outputs,
          accepted, sampled, cached>>

G == INSTANCE GrammarBitmask WITH GrammarLen <- MaxTokens["grammar"]

Limit == MaxTokens[mode]
Async == mode \in {"async", "spec", "grammar", "pp"}
Specs == IF mode \in {"spec", "grammar"} THEN 1 ELSE 0
Ranks == IF mode \in {"pp", "syncpp"} THEN {"first", "last"} ELSE {"last"}
Depth == IF mode = "sync" THEN 1 ELSE 2

NoStep == [phase |-> "none"]

Arrived == [state |-> "waiting", computed |-> 0, out |-> 0, placeholders |-> 0, drafts |-> 0]

Init ==
    /\ mode \in Modes
    /\ request = [r \in Reqs |-> Arrived]
    /\ finished = {}
    /\ inbox = [k \in Ranks |-> <<>>]
    /\ worker = [k \in Ranks |-> NewWorker]
    /\ pending = [k \in Ranks |-> NoStep]
    /\ sent = <<>>
    /\ outputs = <<>>
    /\ accepted = [r \in Reqs |-> 0]
    /\ sampled = [r \in Reqs |-> 0]
    /\ cached = [r \in Reqs |-> 0]

----------------------------------------------------------------------------
\* The scheduler.

InFlight == Len(inbox["last"]) + Len(outputs)
                + (IF pending["last"] = NoStep THEN 0 ELSE 1)

Left(r) == PromptLen + request[r].out + request[r].placeholders + request[r].drafts
              - request[r].computed

\* Nothing is left for the request, or the step under way is its last one.
Schedulable(r) ==
    /\ request[r].state # "finished"
    /\ Left(r) > 0
    /\ ~(request[r].placeholders > 0 /\ request[r].out + 1 >= Limit)

Candidates == {r \in Reqs : Schedulable(r)}

Kind(r) == CASE request[r].state = "waiting" -> "new"
             [] request[r].state = "preempted" -> "resumed"
             [] OTHER -> "run"

\* Drafts among the n tokens of a step, and whether it reaches the last token.
DraftsOf(r, n) == IF Left(r) - n < request[r].drafts
                  THEN request[r].drafts - (Left(r) - n) ELSE 0
Reaches(r, n) == Left(r) - n <= request[r].drafts

ScheduledOf(r, n) ==
    [n |-> n, kind |-> Kind(r), computed |-> request[r].computed,
     outputs |-> request[r].out + request[r].placeholders,
     drafts |-> DraftsOf(r, n), known |-> request[r].out]

AfterSchedule(r, n) ==
    [request[r] EXCEPT
        !.state = "running", !.computed = @ + n,
        !.placeholders = IF Async /\ Reaches(r, n) THEN @ + 1 + DraftsOf(r, n) ELSE @,
        !.drafts = IF Reaches(r, n) THEN Specs ELSE @]

Preempted(r) == [request[r] EXCEPT !.state = "preempted", !.computed = 0, !.drafts = 0]

\* A set of requests is scheduled, each for some of its tokens, and others may
\* be preempted; first come, first served leaves out no request with drafts.
Schedule ==
    /\ InFlight < Depth
    /\ \E S \in (SUBSET Candidates) \ {{}} : \E X \in SUBSET (Reqs \ S) :
          /\ \A r \in X : request[r].state = "running"
          /\ \A r \in Candidates \ (S \cup X) : request[r].drafts = 0
          /\ \E n \in [S -> 1 .. PromptLen + Limit + 1] :
                /\ \A r \in S : n[r] <= Left(r)
                /\ \E order \in SetToSeqs(S) :
                      inbox' = [k \in Ranks |-> Append(inbox[k],
                             [req |-> [r \in S |-> ScheduledOf(r, n[r])],
                              ended |-> finished, order |-> order])]
                /\ request' = [r \in Reqs |-> CASE r \in S -> AfterSchedule(r, n[r])
                                                [] r \in X -> Preempted(r)
                                                [] OTHER -> request[r]]
    /\ finished' = {}
    /\ UNCHANGED <<mode, worker, pending, sent, outputs, accepted, sampled, cached>>

\* The runner hears of finished requests when nothing else is scheduled.
ScheduleNothing ==
    /\ InFlight < Depth
    /\ Candidates = {} /\ finished # {}
    /\ inbox' = [k \in Ranks |-> Append(inbox[k],
                    [req |-> <<>>, ended |-> finished, order |-> <<>>])]
    /\ finished' = {}
    /\ UNCHANGED <<mode, request, worker, pending, sent, outputs, accepted, sampled, cached>>

Abort(r) ==
    /\ request[r].state \in {"running", "preempted"}
    /\ request' = [request EXCEPT ![r].state = "finished"]
    /\ finished' = finished \cup {r}
    /\ UNCHANGED <<mode, inbox, worker, pending, sent, outputs, accepted, sampled, cached>>

\* update_from_output; g tokens of a request that had d drafts.
Processed(r, g, d) ==
    LET out == IF request[r].out + g > Limit THEN Limit ELSE request[r].out + g
    IN [request[r] EXCEPT
          !.out = out,
          !.placeholders = IF Async THEN @ - (d + 1) ELSE @,
          !.computed = IF @ > 0 THEN @ - (d + 1 - g) ELSE @,
          !.state = IF out = Limit THEN "finished" ELSE @]

\* With drafts the next step is scheduled first, if one can be: the runner's
\* correction of the computed tokens relies on it.
Update ==
    /\ outputs # <<>>
    /\ Specs > 0 => InFlight = Depth \/ Candidates = {}
    /\ LET got == {r \in DOMAIN Head(outputs) :
                     Head(outputs)[r].tokens > 0 /\ request[r].state # "finished"}
       IN  /\ request' = [r \in Reqs |->
                 IF r \in got THEN Processed(r, Head(outputs)[r].tokens, Head(outputs)[r].drafts)
                              ELSE request[r]]
           /\ finished' = finished \cup {r \in got : request'[r].state = "finished"}
           /\ accepted' = [r \in Reqs |-> IF mode = "grammar" /\ r \in got
                                          THEN accepted[r] + request'[r].out - request[r].out
                                          ELSE accepted[r]]
    /\ outputs' = Tail(outputs)
    /\ UNCHANGED <<mode, inbox, worker, pending, sent, sampled, cached>>

----------------------------------------------------------------------------
\* The runner.

\* The first rank's tensors come before the last rank can run.
TensorsArrived(k) ==
    k = "last" /\ "first" \in Ranks => Len(inbox["first"]) < Len(inbox["last"])

ExecuteModel(k) ==
    /\ pending[k] = NoStep /\ inbox[k] # <<>>
    /\ LET so  == Head(inbox[k])
           w   == worker[k]
           new == UpdateStates(w, so, Async, k = "last")
       IN  IF Scheduled(so) = {}
           THEN /\ worker' = [worker EXCEPT ![k] = new]
                /\ outputs' = IF k = "last" THEN Append(outputs, <<>>) ELSE outputs
                /\ UNCHANGED <<pending, cached>>
           ELSE /\ TensorsArrived(k)
                /\ worker' = [worker EXCEPT ![k] = Corrected(new, w, so, Async)]
                /\ pending' = [pending EXCEPT ![k] =
                      [phase |-> IF mode = "grammar" THEN "mask" ELSE "sample",
                       req |-> so.req,
                       pos |-> [r \in Scheduled(so) |-> Position(w, so, r, Async)],
                       inputs |-> InputIds(w, new, so),
                       discard |-> Discarded(new, so),
                       mask |-> <<>>, rows |-> <<>>]]
                /\ cached' = [r \in Reqs |->
                      IF k = "last" /\ r \in Scheduled(so) /\ so.req[r].kind # "run"
                      THEN so.req[r].computed ELSE cached[r]]
                /\ UNCHANGED outputs
    /\ inbox' = [inbox EXCEPT ![k] = Tail(@)]
    /\ UNCHANGED <<mode, request, finished, sent, accepted, sampled>>

\* The scheduler fills the masks of a step when it has processed the outputs
\* of all earlier ones, for its requests in any order: a draft is a token its
\* grammar accepts, or -1.
GrammarBitmask ==
    /\ pending["last"].phase = "mask"
    /\ outputs = <<>>
    /\ LET step  == pending["last"]
           drafted == {r \in DOMAIN step.req : step.req[r].drafts > 0}
           ruled   == {r \in DOMAIN step.req \ step.discard : request[r].state # "finished"}
       IN  \E ids \in SetToSeqs(ruled), valid \in SUBSET drafted, batchable \in BOOLEAN :
             LET draft == [r \in DOMAIN step.req |-> CASE r \notin drafted -> "none"
                                                       [] r \in valid -> "token"
                                                       [] OTHER -> "-1"]
                 call  == G!GrammarMask(ids, draft, accepted, batchable)
             IN  /\ pending' = [pending EXCEPT !["last"] =
                         [@ EXCEPT !.phase = "sample", !.mask = call.mask,
                                   !.rows = G!BaseMask(ids, draft, accepted)]]
                 /\ accepted' = call.matcher
    /\ UNCHANGED <<mode, request, finished, inbox, worker, sent, outputs, sampled, cached>>

\* sample_tokens on the last rank: each request that is not discarded gets
\* one token and as many of its drafts as the rejection sampler accepts.
SampleTokens ==
    /\ pending["last"].phase = "sample"
    /\ LET step  == pending["last"]
           order == worker["last"].order
           rows  == DOMAIN step.req
       IN  \E g \in [rows -> 0 .. 1 + Specs] :
             /\ \A r \in rows : IF r \in step.discard THEN g[r] = 0
                                ELSE 1 <= g[r] /\ g[r] <= 1 + step.req[r].drafts
             /\ LET real   == [r \in rows |-> [j \in 1 .. g[r] |-> PromptLen + sampled[r] + j - 1]]
                    tokens == [r \in rows \ step.discard |-> IF Async THEN <<Hole>> ELSE real[r]]
                    last   == [i \in DOMAIN order |->
                                 IF order[i] \in step.discard THEN NoToken
                                 ELSE <<order[i], PromptLen + sampled[order[i]] + g[order[i]] - 1>>]
                    valid  == [i \in DOMAIN order |-> g[order[i]]]
                    new    == Cached(worker["last"], tokens)
                IN  /\ worker' = [worker EXCEPT !["last"] =
                          IF Async THEN Remember(new, step.discard, last, valid) ELSE new]
                    /\ sent' = IF mode = "pp" /\ step.discard # rows THEN Append(sent, last)
                                                                     ELSE sent
                    /\ outputs' = Append(outputs, [r \in rows |->
                                      [tokens |-> g[r], drafts |-> step.req[r].drafts]])
                    /\ sampled' = [r \in Reqs |-> IF r \in rows THEN sampled[r] + g[r]
                                                                ELSE sampled[r]]
                    /\ cached' = [r \in Reqs |->
                          IF r \notin rows THEN cached[r]
                          ELSE step.pos[r] + step.req[r].n - step.req[r].drafts
                                 + (IF g[r] > 0 THEN g[r] - 1 ELSE 0)]
    /\ pending' = [pending EXCEPT !["last"] = NoStep]
    /\ UNCHANGED <<mode, request, finished, inbox, accepted>>

\* sample_tokens on the first rank: it receives the tokens if it schedules
\* asynchronously, unless every request is discarded.
ReceiveTokens ==
    /\ "first" \in Ranks
    /\ pending["first"] # NoStep
    /\ LET step == pending["first"]
           all  == DOMAIN step.req = step.discard
           new  == Cached(worker["first"], [r \in DOMAIN step.req \ step.discard |-> <<Hole>>])
       IN  IF Async
           THEN /\ ~all => sent # <<>>
                /\ worker' = [worker EXCEPT !["first"] =
                       Remember(new, step.discard, IF all THEN <<>> ELSE Head(sent), <<>>)]
                /\ sent' = IF all THEN sent ELSE Tail(sent)
           ELSE UNCHANGED <<worker, sent>>
    /\ pending' = [pending EXCEPT !["first"] = NoStep]
    /\ UNCHANGED <<mode, request, finished, inbox, outputs, accepted, sampled, cached>>

\* Nothing is left to do.
Quiet ==
    /\ \A r \in Reqs : request[r].state = "finished"
    /\ InFlight = 0 /\ finished = {}
    /\ \A k \in Ranks : inbox[k] = <<>> /\ pending[k] = NoStep
    /\ UNCHANGED vars

Next == \/ Schedule \/ ScheduleNothing \/ Update \/ \E r \in Reqs : Abort(r)
        \/ \E k \in Ranks : ExecuteModel(k)
        \/ GrammarBitmask \/ SampleTokens \/ ReceiveTokens \/ Quiet

Spec == Init /\ [][Next]_vars
----------------------------------------------------------------------------
TypeOK ==
    /\ mode \in Modes
    /\ finished \subseteq Reqs
    /\ \A r \in Reqs :
          /\ request[r].state \in {"waiting", "running", "preempted", "finished"}
          /\ request[r].computed \in 0 .. PromptLen + Limit + 2
          /\ request[r].out \in 0 .. Limit
          /\ request[r].placeholders \in 0 .. 2 * (1 + Specs)
          /\ accepted[r] \in 0 .. Limit
    /\ \A k \in Ranks :
          /\ Len(inbox[k]) <= Depth + 1
          /\ pending[k].phase \in {"none", "mask", "sample"}
          /\ DOMAIN worker[k].rows = Range(worker[k].order)
          /\ DOMAIN worker[k].rows \subseteq DOMAIN worker[k].reqs
    /\ InFlight <= Depth

\* Every rank computes each position of a step from the request's own token
\* of that position, be it a prompt token, a sampled token the CPU knows, one
\* that is only on the device, or a draft; whatever else is in the batch, in
\* whatever order, and whoever left or came back meanwhile.
InputsAreOwnTokens ==
    \A k \in Ranks : pending[k] # NoStep =>
        pending[k].inputs = OwnTokens([req |-> pending[k].req, order |-> worker[k].order],
                                      pending[k].pos)

\* A step continues a request where its KV cache ends, although it was
\* scheduled as if every draft of the step before were accepted.
StepsContinue ==
    pending["last"] # NoStep =>
        \A r \in DOMAIN pending["last"].req : pending["last"].pos[r] = cached[r]

\* When no step of a request is under way, the scheduler has every token that
\* was sampled for it, expects no other, and counts as computed what is.
OutputsComplete ==
    \A r \in Reqs :
        (/\ request[r].state \in {"running", "preempted"}
         /\ \A i \in DOMAIN inbox["last"] : r \notin Scheduled(inbox["last"][i])
         /\ pending["last"] # NoStep => r \notin DOMAIN pending["last"].req
         /\ \A i \in DOMAIN outputs : r \notin DOMAIN outputs[i])
        => /\ request[r].out = sampled[r]
           /\ request[r].placeholders = 0
           /\ request[r].computed = IF request[r].state = "running" THEN cached[r] ELSE 0

\* Each row of the bitmask constrains the token it is there for with the
\* grammar of the request it belongs to, in the state before that token.
MasksAreOwn == pending["last"].phase = "sample" => pending["last"].mask = pending["last"].rows

\* Between two calls a matcher has accepted exactly the request's output:
\* the advance over a draft is undone, on every way out.
MatchersFollowOutput ==
    mode = "grammar" => \A r \in Reqs : accepted[r] = request[r].out
=============================================================================
