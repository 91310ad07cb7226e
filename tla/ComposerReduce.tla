----------------------------- MODULE ComposerReduce ----------------------------
(***************************************************************************)
(* One composition of a project that is too large for a single Composer      *)
(* call: the fragments are packed into batches                               *)
(* (src/spaex/behavior/composer/batching.py), every batch is composed on a   *)
(* thread of its own, and the results are merged, all at once or pairwise    *)
(* level by level (composer/reduce.py, composer/invoke.py).  Any call may    *)
(* come back with questions, whose answers are stored and told in one more   *)
(* call (composer/clarify.py).                                               *)
(*                                                                          *)
(* The Composer and the operator are external: a reply is a body of any      *)
(* size, a set of questions, or a failure.  A step is named <<0, i>> for     *)
(* batch i, <<l, k>> for pair k of level l, <<l, 0>> for the flat merge.     *)
(***************************************************************************)
EXTENDS Naturals, Sequences, FiniteSets, FiniteSetsExt, SequencesExt

CONSTANTS
    Rules,         \* the fragments of each molecule, molecules in the order of ids
    Bytes,         \* the sizes a molecule, or a composed body, may have
    Questions,     \* what a Shape B may ask: sets of sets of cited fragments
    Known,         \* the stores a composition may start from, as sets of such keys
    MaxFragments, BatchBytes, MergeBytes,   \* BatchingLimits
    Workers,       \* threads in the pool
    MaxQuestions,  \* bound on the Shape B replies
    MaxFaults,     \* bound on the failing calls
    None

Molecules == 1..Len(Rules)
Fragments == UNION {Rules[m] : m \in Molecules}
Citable == (UNION Questions) \cup (UNION Known)

ASSUME RulesAssumption == /\ Rules \in Seq(SUBSET Fragments) /\ Rules # <<>>
                          /\ \A m, n \in Molecules : m # n => Rules[m] \cap Rules[n] = {}
ASSUME KnownAssumption == UNION (UNION Known) \subseteq Fragments   \* invalidate
ASSUME SizesAssumption == Bytes \subseteq Nat /\ MaxFragments \in Nat
                          /\ BatchBytes \in Nat /\ MergeBytes \in Nat
ASSUME BoundsAssumption == Workers \in Nat \ {0} /\ MaxQuestions \in Nat /\ MaxFaults \in Nat

VARIABLES
    bytes,      \* the size of each molecule's fragments
    defers,     \* abort_on_contradiction = False: `spaex add`, `spaex remove`
    store,      \* the answers: entries [cites, by], the step that asked
    hash,       \* build_input_hash: the answers that the header will name
    plan,       \* PartitionResult: [batches, cross]
    replies,    \* what became of each batch's first call
    calls,      \* the invocations of each step
    pc, cur,    \* what the main thread does next, and at which batch or node
    firstError, \* of the batches collected so far
    job,        \* the call under way, see Jobs
    nodes, merged, level,   \* this level's nodes, and those of the next one
    outcome,    \* how the composition ended
    asked, faults

input == <<bytes, defers>>
folding == <<nodes, merged, level>>
counters == <<asked, faults>>
vars == <<input, store, hash, plan, replies, calls, pc, cur, firstError, job, folding,
          outcome, counters>>

Steps == (0..Len(Rules)) \X (0..Len(Rules))
Before == <<0, 0>>
Entries == [cites : Citable, by : Steps]

\* ClarificationsStore.with_entry: an answer is known by the fragments it cites.
Put(entries, cites, step) ==
    {e \in entries : e.cites # cites} \cup {[cites |-> cites, by |-> step]}

\* _relevant_clarifications
Relevant(entries, fragments) == {e \in entries : e.cites \subseteq fragments}

--------------------------------------------------------------------------------
(* Batching *)

FragmentsOf(molecules) == UNION {Rules[m] : m \in molecules}

\* _serialized_size, with the clarifications that _clarifications_for_fragments
\* finds, each of size 1.
Size(molecules, entries) ==
    MapThenSumSet(LAMBDA m : bytes[m], molecules)
      + Cardinality({e \in Relevant(entries, FragmentsOf(molecules)) : e.cites # {}})

FitsBatch(molecules, entries) ==
    /\ Cardinality(FragmentsOf(molecules)) <= MaxFragments
    /\ Size(molecules, entries) <= BatchBytes

TooLarge(entries) == \E m \in Molecules : Size({m}, entries) > BatchBytes

\* The next molecule joins the last batch or, where that would grow too large, opens one.
Pack(done, m, entries) ==
    LET last == Len(done)
    IN  IF last > 0 /\ FitsBatch(done[last] \cup {m}, entries)
        THEN [done EXCEPT ![last] = @ \cup {m}]
        ELSE Append(done, {m})

\* The greedy packing of partition: batches of the first m molecules.
Packed(entries) ==
    LET packed[m \in 0..Len(Rules)] ==
            IF m = 0 THEN <<>> ELSE Pack(packed[m - 1], m, entries)
    IN  packed[Len(Rules)]

\* Seeded fault: a clarification goes with the batch of any fragment it cites.
AssignByOverlap(packed, entries) ==
    [batches |-> [i \in DOMAIN packed |->
        [fragments |-> FragmentsOf(packed[i]),
         told |-> {e \in entries : e.cites \cap FragmentsOf(packed[i]) # {}
                                   /\ e.cites \subseteq FragmentsOf(packed[i])}]],
     cross |-> {}]

\* _assign_clarifications: within one batch, or across.
Assign(packed, entries) ==
    LET own(i) == {e \in Relevant(entries, FragmentsOf(packed[i])) : e.cites # {}}
    IN  [batches |-> [i \in DOMAIN packed |->
            [fragments |-> FragmentsOf(packed[i]), told |-> own(i)]],
         cross |-> entries \ UNION {own(i) : i \in DOMAIN packed}]

Batches == DOMAIN plan.batches
ScopeOf(parts) == UNION {plan.batches[parts[i]].fragments : i \in DOMAIN parts}

--------------------------------------------------------------------------------
(* Calls *)

\* _Node: the batches it stands for, in order; the answers told to the calls it
\* came from; the answers its header names; its size.
Nodes == [parts : Seq(1..Len(Rules)), told : SUBSET Entries, hash : SUBSET Entries,
          size : Bytes]

\* The step, its invocation's inputs, what earlier calls were told, and the
\* questions still to ask.
Jobs == [step : Steps, parts : Seq(1..Len(Rules)), told : SUBSET Entries,
         inherits : SUBSET Entries, size : Bytes \cup {0}, pending : SUBSET Citable]
NoJob == [step |-> Before, parts |-> <<>>, told |-> {}, inherits |-> {}, size |-> 0,
          pending |-> {}]

Errors == {"timeout", "quota", "runtime-error", "invalid-output"}
ASSUME NoneAssumption == None \notin Errors
Composed == [kind : {"composed"}, size : Bytes, asks : {{}}]
Asking == [kind : {"questions"}, size : {0}, asks : Questions]
Failing == [kind : {"timeout", "invalid-output"}, size : {0}, asks : {{}}]
Reply(kind) == [kind |-> kind, size |-> 0, asks |-> {}]
Replies == Composed \cup Asking \cup Failing \cup {Reply("none"), Reply("running")}

\* invoke_step: what the subprocess and the parser make of one call.
Answered(reply) ==
    \/ /\ reply \in Composed
       /\ UNCHANGED counters
    \/ /\ reply \in Asking
       /\ asked < MaxQuestions /\ asked' = asked + 1
       /\ UNCHANGED faults
    \/ /\ reply \in Failing
       /\ faults < MaxFaults /\ faults' = faults + 1
       /\ UNCHANGED asked

Outcomes == {"none", "single", "no-runtime", "too-large", "declined", "questions",
             "composed"} \cup Errors

TypeOK ==
    /\ bytes \in [Molecules -> Bytes] /\ defers \in BOOLEAN
    /\ store \in SUBSET Entries /\ hash \in SUBSET Entries
    /\ plan.batches \in Seq([fragments : SUBSET Fragments, told : SUBSET Entries])
    /\ plan.cross \in SUBSET Entries
    /\ replies \in [Molecules -> Replies]
    /\ calls \in [Steps -> 0..2]
    /\ pc \in {"partition", "collect", "fold", "ask", "retry", "verify", "level", "pair",
               "call", "place", "final", "done"}
    /\ cur \in 1..Len(Rules) + 1
    /\ firstError \in Errors \cup {None}
    /\ job \in Jobs
    /\ nodes \in Seq(Nodes) /\ merged \in Seq(Nodes) /\ level \in 1..Len(Rules)
    /\ outcome \in Outcomes
    /\ asked \in 0..MaxQuestions /\ faults \in 0..MaxFaults

Init ==
    /\ bytes \in [Molecules -> Bytes]
    /\ defers \in BOOLEAN
    /\ \E keys \in Known : store = {[cites |-> k, by |-> Before] : k \in keys}
    /\ hash = store
    /\ plan = [batches |-> <<>>, cross |-> {}]
    /\ replies = [i \in Molecules |-> Reply("none")]
    /\ calls = [s \in Steps |-> 0]
    /\ pc = "partition" /\ cur = 1
    /\ firstError = None
    /\ job = NoJob
    /\ nodes = <<>> /\ merged = <<>> /\ level = 1
    /\ outcome = "none"
    /\ asked = 0 /\ faults = 0

Go(point) == pc' = point /\ UNCHANGED outcome
End(how) == pc' = "done" /\ outcome' = how

Invoked(step) == calls' = [calls EXCEPT ![step] = @ + 1]

--------------------------------------------------------------------------------
(* The batches. *)

\* partition; a single batch takes the path of BehaviorPipeline.
Partition ==
    /\ pc = "partition"
    /\ IF TooLarge(store) THEN End("too-large") /\ UNCHANGED plan
       ELSE IF Len(Packed(store)) <= 1 THEN End("single") /\ UNCHANGED plan
       ELSE plan' = Assign(Packed(store), store) /\ Go("collect")
    /\ UNCHANGED <<input, store, hash, replies, calls, cur, firstError, job, folding,
                   counters>>

\* resolve_runtime_name finds none, before any call.
NoRuntime ==
    /\ pc = "partition" /\ ~TooLarge(store) /\ Len(Packed(store)) > 1
    /\ End("no-runtime")
    /\ UNCHANGED <<input, store, hash, plan, replies, calls, cur, firstError, job, folding,
                   counters>>

Running == {i \in Batches : replies[i].kind = "running"}

\* Seeded fault: once a batch has failed, no other is started.
StartUnlessFailed(i) ==
    /\ pc = "collect" /\ i \in Batches
    /\ replies[i].kind = "none" /\ \A j \in 1..(i - 1) : replies[j].kind # "none"
    /\ Cardinality(Running) < Workers
    /\ \A j \in Batches : replies[j].kind \notin Errors
    /\ replies' = [replies EXCEPT ![i] = Reply("running")]
    /\ Invoked(<<0, i>>)
    /\ UNCHANGED <<input, store, hash, plan, pc, cur, firstError, job, folding, outcome,
                   counters>>

\* The executor starts the submitted calls in order, as threads come free.
StartBatch(i) ==
    /\ pc = "collect" /\ i \in Batches
    /\ replies[i].kind = "none" /\ \A j \in 1..(i - 1) : replies[j].kind # "none"
    /\ Cardinality(Running) < Workers
    /\ replies' = [replies EXCEPT ![i] = Reply("running")]
    /\ Invoked(<<0, i>>)
    /\ UNCHANGED <<input, store, hash, plan, pc, cur, firstError, job, folding, outcome,
                   counters>>

EndBatch(i) ==
    /\ i \in Batches /\ replies[i].kind = "running"
    /\ \E reply \in Composed \cup Asking \cup Failing :
          Answered(reply) /\ replies' = [replies EXCEPT ![i] = reply]
    /\ UNCHANGED <<input, store, hash, plan, calls, pc, cur, firstError, job, folding,
                   outcome>>

Finished(i) == replies[i].kind \notin {"none", "running"}

\* Seeded fault: executor.map, whose iterator stops at the first failure.
CollectInMap ==
    /\ pc = "collect" /\ cur \in Batches /\ Finished(cur)
    /\ IF replies[cur].kind \in Errors
         THEN End(replies[cur].kind) /\ firstError' = replies[cur].kind /\ UNCHANGED cur
         ELSE /\ cur' = IF cur = Len(plan.batches) THEN 1 ELSE cur + 1
              /\ Go(IF cur = Len(plan.batches) THEN "fold" ELSE "collect")
              /\ UNCHANGED firstError
    /\ UNCHANGED <<input, store, hash, plan, replies, calls, job, folding, counters>>

\* future.result(), in the order of the batches; the first error is kept, and
\* raised after the last.
Collect ==
    /\ pc = "collect" /\ cur \in Batches /\ Finished(cur)
    /\ firstError' = IF replies[cur].kind \in Errors /\ firstError = None
                     THEN replies[cur].kind ELSE firstError
    /\ IF cur < Len(plan.batches) THEN cur' = cur + 1 /\ Go("collect")
       ELSE IF firstError' # None THEN End(firstError') /\ UNCHANGED cur
       ELSE cur' = 1 /\ Go("fold")
    /\ UNCHANGED <<input, store, hash, plan, replies, calls, job, folding, counters>>

\* The batches are taken one by one, in order: a Shape B ends a build that
\* defers and is resolved otherwise.
FoldBatch ==
    /\ pc = "fold" /\ cur \in Batches
    /\ LET reply == replies[cur]
       IN  /\ job' = [NoJob EXCEPT !.step = <<0, cur>>, !.parts = <<cur>>,
                                   !.told = plan.batches[cur].told,
                                   !.size = reply.size, !.pending = reply.asks]
           /\ IF reply.kind = "composed" THEN Go("verify")
              ELSE IF defers THEN End("questions") ELSE Go("ask")
    /\ UNCHANGED <<input, store, hash, plan, replies, calls, cur, firstError, folding,
                   counters>>

\* strip_header and verify_completeness: what the body does not cite must be
\* excused by an answer within the batch.
Excused(entries) == UNION {e.cites : e \in entries}

Node == [parts |-> job.parts, told |-> job.told \cup job.inherits, hash |-> hash,
         size |-> job.size]

VerifyBatch ==
    /\ pc = "verify"
    /\ nodes' = Append(nodes, Node)
    /\ job' = NoJob
    /\ IF cur = Len(plan.batches) THEN cur' = 1 /\ Go("level") ELSE cur' = cur + 1 /\ Go("fold")
    /\ UNCHANGED <<input, store, hash, plan, replies, calls, firstError, merged, level,
                   counters>>

BatchIncomplete ==
    /\ pc = "verify"
    /\ ~(ScopeOf(job.parts) \subseteq Excused(Relevant(store, ScopeOf(job.parts))))
    /\ End("invalid-output")
    /\ UNCHANGED <<input, store, hash, plan, replies, calls, cur, firstError, job, folding,
                   counters>>

--------------------------------------------------------------------------------
(* resolve_step_clarifications *)

\* A question may cite a fragment outside of the step: invalid output.
Ask ==
    /\ pc = "ask"
    /\ \E cites \in job.pending :
          IF cites \subseteq ScopeOf(job.parts)
            THEN /\ store' = Put(store, cites, job.step)
                 /\ job' = [job EXCEPT !.pending = @ \ {cites}]
                 /\ Go(IF job.pending = {cites} THEN "retry" ELSE "ask")
            ELSE End("invalid-output") /\ UNCHANGED <<store, job>>
    /\ UNCHANGED <<input, hash, plan, replies, calls, cur, firstError, folding, counters>>

\* A blank answer.
Decline ==
    /\ pc = "ask"
    /\ \E cites \in job.pending : cites \subseteq ScopeOf(job.parts)
    /\ End("declined")
    /\ UNCHANGED <<input, store, hash, plan, replies, calls, cur, firstError, job, folding,
                   counters>>

\* Seeded fault: a second Shape B starts the round anew.
RetryUntilComposed ==
    /\ pc = "retry"
    /\ hash' = store
    /\ Invoked(job.step)
    /\ \E reply \in Composed \cup Asking \cup Failing :
          /\ Answered(reply)
          /\ job' = [job EXCEPT !.told = Relevant(store, ScopeOf(job.parts)),
                                !.size = reply.size, !.pending = reply.asks]
          /\ IF reply.kind \in Errors THEN End(reply.kind)
             ELSE Go(IF reply.kind = "questions" THEN "ask"
                     ELSE IF job.step[1] = 0 THEN "verify" ELSE "place")
    /\ UNCHANGED <<input, store, plan, replies, cur, firstError, folding>>

\* The step is invoked once more, with every answer within its fragments and a
\* new build_input_hash; a second Shape B is invalid output.
Retry ==
    /\ pc = "retry"
    /\ hash' = store
    /\ Invoked(job.step)
    /\ \E reply \in Composed \cup Asking \cup Failing :
          /\ Answered(reply)
          /\ job' = [job EXCEPT !.told = Relevant(store, ScopeOf(job.parts)),
                                !.size = reply.size]
          /\ IF reply.kind = "composed"
               THEN Go(IF job.step[1] = 0 THEN "verify" ELSE "place")
               ELSE End(IF reply.kind = "questions" THEN "invalid-output" ELSE reply.kind)
    /\ UNCHANGED <<input, store, plan, replies, cur, firstError, folding>>

--------------------------------------------------------------------------------
(* The merges. *)

PartsOf(group) == FlattenSeq([i \in DOMAIN group |-> group[i].parts])

\* The clarifications of a merge are those that partition found to span batches.
ToldTo(group) == Relevant(plan.cross, ScopeOf(PartsOf(group)))

Fits(group) ==
    MapThenSumSet(LAMBDA i : group[i].size, DOMAIN group) + Cardinality(ToldTo(group))
      <= MergeBytes

MergeJob(group, step) ==
    [NoJob EXCEPT !.step = step, !.parts = PartsOf(group), !.told = ToldTo(group),
                  !.inherits = UNION {group[i].told : i \in DOMAIN group}]

\* The top of the loop: one flat merge when all nodes fit, else a pairwise level.
StartLevel ==
    /\ pc = "level"
    /\ IF Len(nodes) = 1 THEN Go("final") /\ UNCHANGED job
       ELSE IF Fits(nodes) THEN job' = MergeJob(nodes, <<level, 0>>) /\ Go("call")
       ELSE Go("pair") /\ UNCHANGED job
    /\ cur' = 1 /\ merged' = <<>>
    /\ UNCHANGED <<input, store, hash, plan, replies, calls, firstError, nodes, level,
                   counters>>

\* Adjacent nodes; a pair that does not fit cannot be merged.
MergePair ==
    /\ pc = "pair" /\ cur < Len(nodes)
    /\ LET pair == SubSeq(nodes, cur, cur + 1)
       IN  IF Fits(pair)
             THEN job' = MergeJob(pair, <<level, (cur + 1) \div 2>>) /\ Go("call")
             ELSE End("invalid-output") /\ UNCHANGED job
    /\ UNCHANGED <<input, store, hash, plan, replies, calls, cur, firstError, folding,
                   counters>>

\* Seeded fault: the node without a partner is left behind.
DropOddNode ==
    /\ pc = "pair" /\ cur = Len(nodes)
    /\ cur' = cur + 1
    /\ Go("pair")
    /\ UNCHANGED <<input, store, hash, plan, replies, calls, firstError, job, folding,
                   counters>>

CarryOddNode ==
    /\ pc = "pair" /\ cur = Len(nodes)
    /\ merged' = Append(merged, nodes[cur]) /\ cur' = cur + 1
    /\ Go("pair")
    /\ UNCHANGED <<input, store, hash, plan, replies, calls, firstError, job, nodes, level,
                   counters>>

EndLevel ==
    /\ pc = "pair" /\ cur > Len(nodes)
    /\ nodes' = merged /\ merged' = <<>> /\ level' = level + 1 /\ cur' = 1
    /\ Go("level")
    /\ UNCHANGED <<input, store, hash, plan, replies, calls, firstError, job, counters>>

\* _merge_call
CallMerge ==
    /\ pc = "call"
    /\ Invoked(job.step)
    /\ \E reply \in Composed \cup Asking \cup Failing :
          /\ Answered(reply)
          /\ job' = [job EXCEPT !.size = reply.size, !.pending = reply.asks]
          /\ IF reply.kind = "composed" THEN Go("place")
             ELSE IF reply.kind # "questions" THEN End(reply.kind)
             ELSE IF defers THEN End("questions") ELSE Go("ask")
    /\ UNCHANGED <<input, store, hash, plan, replies, cur, firstError, folding>>

PlaceMerged ==
    /\ pc = "place"
    /\ job' = NoJob
    /\ IF job.step[2] = 0
         THEN nodes' = <<Node>> /\ Go("level") /\ UNCHANGED <<merged, cur>>
         ELSE merged' = Append(merged, Node) /\ cur' = cur + 2 /\ Go("pair")
              /\ UNCHANGED nodes
    /\ UNCHANGED <<input, store, hash, plan, replies, calls, firstError, level, counters>>

\* The check of the whole document by orchestrate.run.
Finish ==
    /\ pc = "final"
    /\ \/ End("composed")
       \/ ~(Fragments \subseteq Excused(store)) /\ End("invalid-output")
    /\ UNCHANGED <<input, store, hash, plan, replies, calls, cur, firstError, job, folding,
                   counters>>

--------------------------------------------------------------------------------

Batching == Partition \/ NoRuntime \/ Collect \/ FoldBatch \/ VerifyBatch \/ BatchIncomplete
Clarifying == Ask \/ Decline \/ Retry
Merging == StartLevel \/ MergePair \/ CarryOddNode \/ EndLevel \/ CallMerge \/ PlaceMerged
           \/ Finish
Main == Batching \/ Clarifying \/ Merging
Thread(i) == StartBatch(i) \/ EndBatch(i)

Next == Main \/ \E i \in Molecules : Thread(i)

\* Every call has a timeout, threads are scheduled, and the operator answers.
Fairness == WF_vars(Main) /\ \A i \in Molecules : WF_vars(Thread(i))

Spec == Init /\ [][Next]_vars /\ Fairness

--------------------------------------------------------------------------------
(* Properties *)

FailedBatches == {i \in Batches : replies[i].kind \in Errors}

\* Which batch fails first in time depends on the threads; what is reported does
\* not: the error of the first failing batch in the order of the batches, after
\* every batch has been called and has come back (ADR 0023).
FirstErrorIsReported ==
    pc = "done" /\ FailedBatches # {} =>
        /\ outcome = replies[Min(FailedBatches)].kind
        /\ \A i \in Batches : calls[<<0, i>>] = 1 /\ Finished(i)

\* The document of a successful composition stands for every batch exactly once,
\* in order, however the levels fell out; every stored answer was told to one of
\* the calls it came from; and its header names the answers that are stored, so
\* that emit_composed accepts it.
RootSpeaksForAll ==
    outcome = "composed" =>
        /\ Len(nodes) = 1
        /\ nodes[1].parts = [i \in Batches |-> i]
        /\ store \subseteq nodes[1].told
        /\ nodes[1].hash = store

\* A composition comes to an end: no thread is waited for that never runs, and
\* every level of merges is smaller than the one before.
ComposeEnds == <>(pc = "done")
================================================================================
