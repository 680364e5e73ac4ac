------------------------------- MODULE Lifecycle -------------------------------
(***************************************************************************)
(* One node of the lifecycle simulation (puls-engine/sim/lifecycle.cpp):    *)
(* prompts are prefilled in two micro-batches a round, finished prompts     *)
(* wait on a stack, and take the places of decoders that complete; what     *)
(* the stack cannot fill comes from the source.  The nodes of the program   *)
(* share nothing but random numbers, so one stands for all.                 *)
(***************************************************************************)
EXTENDS Simulation

CONSTANTS
    DecodeLengths,      \* what sample_dtot yields
    DecodeFloor,        \* the source's floor of a decode length (1000)
    BigSample,          \* the draw that sets the edge cutoff
    Iters               \* rounds the program runs

ASSUME LifecycleAssumption ==
    /\ DecodeLengths \subseteq Nat \ {0} /\ BigSample \in Seq(Lengths)
    /\ {op.decode_count_target, op.kv_operating_target, op.decode_pool,
        op.prefill_tokens, op.prefill_pool} \subseteq Nat \ {0}
    /\ {DecodeFloor, Iters, op.ctx_balance, op.edge_band, op.age_cap,
        op.prefill_kv_work_target} \subseteq Nat

VARIABLES
    pf,         \* prompts being prefilled: [prompt, dtot, processed, wait]
    rdy,        \* prompts whose prefill is done, a stack
    dec,        \* resident decoders: [prompt, dtot, dec, wait]
    it          \* rounds run

vars == <<pf, rdy, dec, it>>

\* Requests longer than the longest the gate keeps are for the edge nodes.
edge_cutoff ==
    LET lets == Range(gate(BigSample, op).kept)
    IN  IF lets = {} THEN op.ctx_balance ELSE CHOOSE p \in lets : \A q \in lets : p >= q
gated_sample == {p \in Lengths : p <= edge_cutoff}

NewDecoder(r) == [prompt |-> r.prompt, dtot |-> r.dtot, dec |-> 0, wait |-> 0]

cap_room == op.decode_pool * op.ctx_balance * 4

\* Whatever the source samples, some of it is short enough: cap_room is four times
\* what a pool of balanced requests takes.
SourceNeverDry == \A sample \in Samples : \E i \in DOMAIN sample : sample[i] <= cap_room

\* admit_hole: what the source offers for a hole, in sequence; nothing if dry.
Admitted(hole, sample) ==
    LET p == PullSampled(sample, hole, cap_room)
    IN  IF p < 0 THEN <<>>
        ELSE <<NewDecoder([prompt |-> p, dtot |-> SourceDecodes(p, DecodeFloor)])>>

-----------------------------------------------------------------------------
(* Prefill.                                                                *)

\* A member of the other batch is presented as finished.
Masked(mask) == [i \in DOMAIN pf |->
    IF i \in mask THEN [pf[i] EXCEPT !.processed = pf[i].prompt, !.wait = 0] ELSE pf[i]]

Owners(chunk) == {i \in DOMAIN chunk : chunk[i] > 0}
FirstChunks  == steer_prefill_chunks(pf, op)

\* Mutant of SecondChunks: the second batch sees the first one's members.
SecondChunksUnmasked == steer_prefill_chunks(pf, op)

SecondChunks == steer_prefill_chunks(Masked(Owners(FirstChunks)), op)

Prefilled ==
    LET chunk1 == FirstChunks
        chunk2 == SecondChunks
    IN  [i \in DOMAIN pf |->
            IF chunk1[i] + chunk2[i] > 0
            THEN [pf[i] EXCEPT !.processed = @ + chunk1[i] + chunk2[i], !.wait = 0]
            ELSE [pf[i] EXCEPT !.wait = @ + 1]]

Whole(r) == r.processed >= r.prompt
StillFilling(p) == Only(p, {r \in Range(p) : ~Whole(r)})
Finished(p) == Only(p, {r \in Range(p) : Whole(r)})

-----------------------------------------------------------------------------
(* Decode.                                                                 *)

Decoders == [i \in DOMAIN dec |->
    [kv_length |-> dec[i].prompt + dec[i].dec, wait |-> dec[i].wait]]

Advanced == AdvancedBy(dec, RoundMembers(Decoders, op))

Done(q) == q.dec >= q.dtot
Leavers(d) == Only(d, {q \in Range(d) : Done(q)})
Stayers(d) == Only(d, {q \in Range(d) : ~Done(q)})

\* The prompt on top of the stack becomes a decoder.
Transition(h) == [h EXCEPT !.dec = Append(@, NewDecoder(Last(h.rdy))), !.rdy = Front(@)]

\* Mutant of HealHole: the source is asked first.
HealHoleFromSource(h, hole, sample) ==
    [h EXCEPT !.dec = @ \o Admitted(hole, sample), !.dry = Admitted(hole, sample) = <<>>]

\* A hole is filled from the stack, then from the source; once that is dry the
\* holes left stay.
HealHole(h, hole, sample) ==
    CASE h.dry -> h
      [] ~h.dry /\ h.rdy # <<>> -> Transition(h)
      [] OTHER -> [h EXCEPT !.dec = @ \o Admitted(hole, sample),
                            !.dry = Admitted(hole, sample) = <<>>]

\* Free places, if any are left, go to the stack.
Absorb(h) ==
    Iterate(op.decode_pool,
            LAMBDA g, k : IF Len(g.dec) < op.decode_pool /\ g.rdy # <<>> THEN Transition(g) ELSE g,
            h)

-----------------------------------------------------------------------------
Init ==
    /\ \E draw \in SortedDraws(Lengths, 2 * op.decode_pool) :
       \E nodes \in ColdStarts(draw, 1, op) :
       \E dtots \in [DOMAIN nodes[1] -> DecodeLengths] :
           dec = [i \in DOMAIN nodes[1] |->
                     NewDecoder([prompt |-> nodes[1][i], dtot |-> dtots[i]])]
    /\ pf \in [1..op.prefill_pool ->
                  {r \in [prompt : gated_sample, dtot : DecodeLengths,
                          processed : 0..edge_cutoff, wait : {0}] : r.processed < r.prompt}]
    /\ rdy = <<>>
    /\ it = 0

\* The rest of the cold start: like for like with any resident, until full.
TopUp ==
    /\ it = 0
    /\ Len(dec) < op.decode_pool
    /\ \E hole \in {dec[i].prompt : i \in DOMAIN dec} \cup
                   (IF dec = <<>> THEN {op.ctx_balance} ELSE {}),
          sample \in Samples : dec' = dec \o Admitted(hole, sample)
    /\ UNCHANGED <<pf, rdy, it>>

\* The cold start ends with the pool full, or at a hole the source has nothing for.
ColdStartOver ==
    \/ Len(dec) = op.decode_pool
    \/ \E sample \in Samples : Admitted(op.ctx_balance, sample) = <<>>

\* A round.  What the source would offer for each hole, and the fresh prompts
\* that keep the prefill pool full, are drawn here.
Round ==
    LET prefilled == Prefilled
        filling == StillFilling(prefilled)
        advanced == Advanced
        gone == Leavers(advanced)
        opened == [dec |-> Stayers(advanced),
                   rdy |-> rdy \o Finished(prefilled), dry |-> FALSE]
    IN  /\ it < Iters
        /\ it > 0 \/ ColdStartOver
        /\ \E samples \in [DOMAIN gone -> Samples] :
               LET Step(h, k) == HealHole(h, gone[k].prompt, samples[k])
                   healed == Absorb(Iterate(Len(gone), Step, opened))
               IN  dec' = healed.dec /\ rdy' = healed.rdy
        /\ \E fresh \in [1..(op.prefill_pool - Len(filling)) ->
                            [prompt : gated_sample, dtot : DecodeLengths,
                             processed : {0}, wait : {0}]] : pf' = filling \o fresh
        /\ it' = it + 1

Next == TopUp \/ Round

Spec == Init /\ [][Next]_vars
-----------------------------------------------------------------------------
Total(chunk) == Sum(chunk)
Unfinished == {i \in DOMAIN pf : pf[i].processed < pf[i].prompt}

\* The reference for one prefill batch: nobody of the other batch is in it, no
\* prompt gets more tokens than it has left, the budget is spent unless every
\* prompt is done, and nobody aged is passed over for one who has waited less.
GoodChunks(mask, chunk) ==
    /\ Owners(chunk) \cap mask = {}
    /\ \A i \in Owners(chunk) : pf[i].processed + chunk[i] <= pf[i].prompt
    /\ Total(chunk) <= op.prefill_tokens
    /\ Total(chunk) < op.prefill_tokens =>
           \A i \in DOMAIN pf \ mask : pf[i].processed + chunk[i] = pf[i].prompt
    /\ \A i \in Unfinished \ (mask \cup Owners(chunk)), j \in Owners(chunk) :
           pf[i].wait >= op.age_cap => pf[j].wait >= pf[i].wait

\* Both prefill batches of a round are good, and no prompt is in both, so that
\* the second never needs the KV the first is still writing
\* (lifecycle.cpp:250-253).
PrefillRoundWellFormed ==
    /\ GoodChunks({}, FirstChunks)
    /\ GoodChunks(Owners(FirstChunks), SecondChunks)

\* No prompt starves in prefill: as many aged prompts as two batches have tokens
\* are served every round (steering.cpp:73-81), the longest waiting first, so
\* that a prompt is passed over only while the others outnumber them.
PrefillWaitBounded ==
    \A i \in DOMAIN pf :
        pf[i].wait <= op.age_cap + (op.prefill_pool - 1) \div (2 * op.prefill_tokens)

\* Places in the decode pool go to finished prompts first, the source gets only
\* what they leave, and the pool is full again after every round
\* (lifecycle.cpp:366-401).
PlacesGoToTheReady ==
    [][Round =>
          LET ready == Len(rdy) + Len(Finished(Prefilled))
              holes == Len(Leavers(Advanced))
          IN  /\ Len(rdy') = IF ready > holes THEN ready - holes ELSE 0
              /\ Len(dec') = op.decode_pool]_vars
=============================================================================
