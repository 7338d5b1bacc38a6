------------------------ MODULE LinearizabilityChecker ------------------------
(***************************************************************************)
(* The checker of the test harness (src/bin/jepsen_harness.rs): a          *)
(* backtracking search, key by key, for an order of the answered           *)
(* operations that the store could have executed.                          *)
(*                                                                         *)
(* A history is a sequence of entries and the time of an entry is its      *)
(* position: the harness stamps entries with one monotonic clock, in the   *)
(* order in which it appends them.                                         *)
(***************************************************************************)
EXTENDS KVStore, Integers, Sequences, SequencesExt

CONSTANTS
    OpIds,      \* operation ids, handed out by the harness's counter
    MaxDepth    \* deepest call of try_linearize that still searches

ASSUME CheckerAssumption == OpIds \subseteq Nat /\ MaxDepth \in Nat

\* HistoryEntry: an invocation carries the operation, a response what the
\* harness kept of the answer (the value of a read, or none).
Invocations == [event_type : {"invoke"}, id : OpIds, op : KVOp]

Responses == [event_type : {"ok", "fail", "info"}, id : OpIds,
              value : Values \cup {Absent}]

------------------------------------------------------------------------------
(* The model of the store the search runs on, one LinearOp at a time.      *)

\* Whether the recorded result of an operation is possible in this state...
matches(model, lop) ==
    LET current == model[lop.op.key]
    IN  \/ lop.op.type = "write"
        \/ lop.op.type = "read" /\ current = lop.result
        \/ lop.op.type = "cas" /\ lop.cas_ok = (current = lop.op.from)

\* Mutant: a successful compare-and-swap leaves the model as it is.
new_model_without_cas(model, lop) ==
    IF lop.op.type = "write"
    THEN [model EXCEPT ![lop.op.key] = lop.op.value] ELSE model

\* ... and the state after it.
new_model(model, lop) ==
    CASE lop.op.type = "write" -> [model EXCEPT ![lop.op.key] = lop.op.value]
      [] lop.op.type = "cas" /\ lop.cas_ok -> [model EXCEPT ![lop.op.key] = lop.op.to]
      [] OTHER -> model

\* Mutant: the latest completion instead of the earliest.
min_complete_latest(remaining) == Max({lop.complete_time : lop \in remaining})

min_complete(remaining) == Min({lop.complete_time : lop \in remaining})

\* The arguments of a call of try_linearize.
Calls(ops) == [remaining : SUBSET ops, model : Stores, depth : Nat]

\* The call for the operations that remain after lop.
After(call, lop) ==
    [remaining |-> call.remaining \ {lop},
     model |-> new_model(call.model, lop),
     depth |-> call.depth + 1]

\* The search: any operation invoked before the first remaining one completes
\* may come next.
try_linearize(ops) ==
    LET search[call \in Calls(ops)] ==
            \/ call.remaining = {}
            \/ call.depth > MaxDepth
            \/ \E lop \in call.remaining :
                   /\ lop.invoke_time <= min_complete(call.remaining)
                   /\ matches(call.model, lop)
                   /\ search[After(call, lop)]
    IN  search[[remaining |-> ops, model |-> EmptyStore, depth |-> 0]]

------------------------------------------------------------------------------
(* From the history to the operations.                                      *)

IsInvocation(h, i, id) == h[i].event_type = "invoke" /\ h[i].id = id

\* The entries that complete an operation: the first response after its
\* invocation.  The later ones find no invocation and are skipped.
Completions(h) ==
    {r \in DOMAIN h :
        /\ h[r].event_type # "invoke"
        /\ \E i \in 1 .. (r - 1) : IsInvocation(h, i, h[r].id)
        /\ \A q \in 1 .. (r - 1) : h[q].id = h[r].id => h[q].event_type = "invoke"}

\* LinearOp: an invocation paired with its response.  An indeterminate
\* response ("info") ends at no time and counts as a success.
LinearOps(h) ==
    {LET i == CHOOSE i \in DOMAIN h : IsInvocation(h, i, h[r].id)
         info == h[r].event_type = "info"
     IN  [id |-> h[r].id,
          op |-> h[i].op,
          result |-> IF info THEN Absent ELSE h[r].value,
          cas_ok |-> h[r].event_type # "fail",
          invoke_time |-> i,
          complete_time |-> IF info THEN Len(h) + 1 ELSE r] :
        r \in Completions(h)}

\* Invocations without a response are left out.  TRUE stands for Ok(()).
check_linearizability(h) ==
    \A key \in {lop.op.key : lop \in LinearOps(h)} :
        try_linearize({lop \in LinearOps(h) : lop.op.key = key})

------------------------------------------------------------------------------
(* What a response keeps of an answer of a node.                            *)

\* The answers that are answers to this operation, right or wrong.
Answers(op) ==
    CASE op.type = "read" -> [type : {"read_ok"}, value : Values] \cup {Error(20)}
      [] op.type = "write" -> {Ok("write_ok")}
      [] op.type = "cas" -> {Ok("cas_ok"), Error(20), Error(22)}

\* Mutant: the code of an error is kept as the result.
record_response_with_code(id, body) ==
    [event_type |-> IF body.type # "error" THEN "ok" ELSE "fail",
     id |-> id,
     value |-> IF body.type = "read_ok" THEN body.value
               ELSE IF body.type = "error" THEN body.code ELSE Absent]

\* Mutant: only a missing key is a failure.
record_response_without_22(id, body) ==
    [event_type |-> IF body.type # "error" THEN "ok"
                    ELSE IF body.code = 20 THEN "fail" ELSE "info",
     id |-> id,
     value |-> IF body.type = "read_ok" THEN body.value ELSE Absent]

record_response(id, body) ==
    [event_type |-> IF body.type # "error" THEN "ok"
                    ELSE IF body.code \in {20, 22} THEN "fail" ELSE "info",
     id |-> id,
     value |-> IF body.type = "read_ok" THEN body.value ELSE Absent]

------------------------------------------------------------------------------
(***************************************************************************)
(* The reference: a history is linearizable when its answered operations,  *)
(* with some of the unanswered ones, have an order that respects real time *)
(* and in which every answer is the one the store gives.                   *)
(***************************************************************************)
Invoked(h) == {h[i].id : i \in {j \in DOMAIN h : h[j].event_type = "invoke"}}

Completed(h) == {h[r].id : r \in Completions(h)}

Unanswered(h) == Invoked(h) \ Completed(h)

OpOf(h, id) == h[CHOOSE i \in DOMAIN h : IsInvocation(h, i, id)].op

\* The operation with identity a was answered before b was invoked.
HappensBefore(h, a, b) ==
    \E r \in Completions(h), i \in DOMAIN h :
        r < i /\ h[r].id = a /\ IsInvocation(h, i, b)

\* The stores before, between and after the operations of an order.
Replay(h, order) ==
    LET st[n \in 0 .. Len(order)] ==
            IF n = 0 THEN EmptyStore
            ELSE apply_op(st[n - 1], OpOf(h, order[n]))
    IN  st

Linearizable(h) ==
    \E pending \in SUBSET Unanswered(h) :
        \E order \in SetToSeqs(Completed(h) \cup pending) :
            LET st == Replay(h, order)
            IN  /\ \A m, n \in DOMAIN order :
                      m < n => ~HappensBefore(h, order[n], order[m])
                /\ \A r \in Completions(h) : \E n \in DOMAIN order :
                      /\ order[n] = h[r].id
                      /\ h[r] = record_response(h[r].id,
                                    reply_to(st[n - 1], OpOf(h, h[r].id)))
==============================================================================
