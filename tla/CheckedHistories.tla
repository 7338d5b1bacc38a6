--------------------------- MODULE CheckedHistories ---------------------------
(***************************************************************************)
(* Every history the harness can record of nodes that answer anything, and *)
(* the verdict of the checker on it.                                       *)
(***************************************************************************)
EXTENDS LinearizabilityChecker

CONSTANT MaxHistory   \* bound on the entries of a history

ASSUME HistoryAssumption == MaxHistory \in Nat

VARIABLE history

\* get_op_id and the invocation send_operation records: ids count up.
Invoke(op) ==
    LET id == Cardinality(Invoked(history)) + 1
    IN  /\ id \in OpIds
        /\ history' = Append(history, [event_type |-> "invoke", id |-> id, op |-> op])

\* An answer is recorded, also for an operation answered before.
Respond(id) ==
    \E body \in Answers(OpOf(history, id)) :
        history' = Append(history, record_response(id, body))

Init == history = <<>>

Next ==
    /\ Len(history) < MaxHistory
    /\ \/ \E op \in KVOp : Invoke(op)
       \/ \E id \in Invoked(history) : Respond(id)

Spec == Init /\ [][Next]_history

------------------------------------------------------------------------------

TypeOK == history \in Seq(Invocations \cup Responses)

\* PASS is right: a history the search accepts is linearizable, also when
\* operations of it were never answered and when answers are repeated.
PassIsLinearizable == check_linearizability(history) => Linearizable(history)

\* FAIL is right when every operation was answered: the search, one key at a
\* time and only over operations invoked before the first completion, misses
\* no order.
AnsweredFailIsViolation ==
    Unanswered(history) = {} /\ Linearizable(history)
        => check_linearizability(history)

\* "FAIL: A linearizability violation was found" (JEPSEN_README.md).
FailIsViolation == Linearizable(history) => check_linearizability(history)
==============================================================================
