------------------------ MODULE CheckedHistoriesProofs ------------------------
(***************************************************************************)
(* The verdict of the checker is right on the histories of CheckedHistories,*)
(* of any length over any keys and values.                                 *)
(***************************************************************************)
EXTENDS CheckedHistories, CheckerProofs

------------------------------------------------------------------------------
(* The histories the harness records.                                       *)

HistoryInv ==
    /\ WellFormed(history)
    /\ Len(history) <= MaxHistory
    /\ \E k \in Nat : Invoked(history) = 1 .. k

LEMMA InvokeKeeps ==
    ASSUME HistoryInv, NEW op \in KVOp, Invoke(op)
    PROVE  /\ WellFormed(history')
           /\ \E k \in Nat : Invoked(history') = 1 .. k
  <1>1. PICK k \in Nat : Invoked(history) = 1 .. k
    BY DEF HistoryInv
  <1>2. Cardinality(1 .. k) = k
    BY FS_Interval
  <1>3. /\ k + 1 \in OpIds
        /\ k + 1 \notin Invoked(history)
        /\ history' = Append(history, [event_type |-> "invoke", id |-> k + 1, op |-> op])
    BY <1>1, <1>2 DEF Invoke
  <1>4. \A g : g = history' => WellFormed(g) /\ Invoked(g) = Invoked(history) \cup {k + 1}
    <2>1. WellFormed(history)
      BY DEF HistoryInv
    <2>2. ASSUME NEW g, g = history'
          PROVE  Extends(g, history) /\ Invoked(g) = Invoked(history) \cup {k + 1}
      BY <1>3, <2>1, <2>2, InvocationRecorded
    <2> QED BY <2>2 DEF Extends
  <1>5. Invoked(history) \cup {k + 1} = 1 .. (k + 1) /\ k + 1 \in Nat
    BY <1>1
  <1>6. WellFormed(history') /\ Invoked(history') = 1 .. (k + 1)
    BY <1>4, <1>5
  <1> QED BY <1>5, <1>6

LEMMA RespondKeeps ==
    ASSUME HistoryInv, NEW id \in Invoked(history), Respond(id)
    PROVE  /\ WellFormed(history')
           /\ Invoked(history') = Invoked(history)
  <1>1. WellFormed(history) /\ Extends(history, history)
    BY DEF HistoryInv, WellFormed, Extends
  <1>2. OpOf(history, id) \in KVOp /\ id \in OpIds
    BY <1>1, ExtensionKeeps, EntryTypes DEF Invoked
  <1>3. PICK body \in Answers(OpOf(history, id)) :
           history' = Append(history, record_response(id, body))
    BY DEF Respond
  <1> DEFINE e == record_response(id, body)
             rs == <<e>>
  <1>4. e \in Responses
    BY <1>2, RecordedType
  <1>5. e.id = id /\ e.event_type # "invoke"
    BY DEF record_response
  <1>6. IsAnswerTo(e, OpOf(history, e.id))
    BY <1>5 DEF IsAnswerTo
  <1>7. history' = Append(history, e)
    BY <1>3
  <1> HIDE DEF e
  <1>8. rs \in Seq(Responses) /\ \A j \in DOMAIN rs : rs[j] = e
    BY <1>4
  <1>9. history' = history \o rs
    BY <1>1, <1>4, <1>7 DEF WellFormed
  <1> HIDE DEF rs
  <1>10. \A g : g = history' => WellFormed(g) /\ Invoked(g) = Invoked(history)
    <2>1. ASSUME NEW g, g = history'
          PROVE  Extends(g, history) /\ Invoked(g) = Invoked(history)
      BY <1>1, <1>5, <1>6, <1>8, <1>9, <2>1, ResponsesRecorded
    <2> QED BY <2>1 DEF Extends
  <1> QED BY <1>10

LEMMA HistoryInvInit == Init => HistoryInv
  <1>1. SUFFICES ASSUME Init
                 PROVE  HistoryInv
    OBVIOUS
  <1>2. /\ history \in Seq(Invocations \cup Responses)
        /\ Len(history) = 0
        /\ DOMAIN history = {}
    BY <1>1 DEF Init
  <1>3. WellFormed(history)
    BY <1>2 DEF WellFormed
  <1>4. Invoked(history) = 1 .. 0
    BY <1>2 DEF Invoked
  <1>5. 0 \in Nat /\ Len(history) <= MaxHistory
    BY <1>2, HistoryAssumption
  <1> QED BY <1>3, <1>4, <1>5 DEF HistoryInv

LEMMA HistoryInvNext == ASSUME HistoryInv, [Next]_history PROVE HistoryInv'
  <1>1. CASE Next
    <2>1. WellFormed(history') /\ \E k \in Nat : Invoked(history') = 1 .. k
      <3>1. CASE \E op \in KVOp : Invoke(op)
        BY <3>1, InvokeKeeps
      <3>2. CASE \E id \in Invoked(history) : Respond(id)
        BY <3>2, RespondKeeps DEF HistoryInv
      <3> QED BY <1>1, <3>1, <3>2 DEF Next
    <2>2. Len(history') <= MaxHistory
      <3>1. \E e : history' = Append(history, e)
        BY <1>1 DEF Next, Invoke, Respond
      <3>2. history \in Seq(Invocations \cup Responses) /\ Len(history) < MaxHistory
        BY <1>1 DEF HistoryInv, WellFormed, Next
      <3> QED BY <3>1, <3>2, HistoryAssumption
    <2> QED BY <2>1, <2>2 DEF HistoryInv, WellFormed, Invoked, IsInvocation, IsAnswerTo
  <1>2. CASE UNCHANGED history
    BY <1>2 DEF HistoryInv, WellFormed, Invoked, IsInvocation, IsAnswerTo
  <1> QED BY <1>1, <1>2

\* Histories are well formed: entries come from send_operation and
\* process_responses only, so that ids are used once, in the order of the
\* harness's counter, and a response follows an invocation it can answer.
THEOREM HistoriesAreWellFormed == Spec => []HistoryInv
  <1> QED BY HistoryInvInit, HistoryInvNext, PTL DEF Spec

\* Type correctness of the recorded history: every entry is an invocation or
\* a response as send_operation and process_responses build them.
THEOREM HistoryTypes == Spec => []TypeOK
  <1>1. HistoryInv => TypeOK
    BY DEF HistoryInv, WellFormed, TypeOK
  <1> QED BY <1>1, HistoriesAreWellFormed, PTL

\* FAIL is right when every operation was answered, whatever the number of
\* keys, values and operations: the search of try_linearize, one key at a
\* time, cut off at a depth, and only over the operations invoked before the
\* first remaining completion, finds an order whenever there is one.
THEOREM AnsweredFailIsRight == Spec => []AnsweredFailIsViolation
  <1>1. HistoryInv => AnsweredFailIsViolation
    BY LinearizablePasses DEF HistoryInv, AnsweredFailIsViolation
  <1> QED BY <1>1, HistoriesAreWellFormed, PTL

\* No key has more answered operations than the search of try_linearize
\* examines before its depth limit lets the rest pass unseen.
WithinDepth == \A key \in Keys : Cardinality(KeyOps(history, key)) <= MaxDepth + 1

\* PASS is right as long as no key has more than MaxDepth + 1 answered
\* operations, whatever the number of keys, values and operations, also when
\* operations of the history were never answered and when answers are repeated:
\* the orders that check_linearizability finds key by key merge into one that
\* respects real time.  Beyond that depth the code passes wrong histories too.
THEOREM PassIsRight == Spec => [](WithinDepth => PassIsLinearizable)
  <1>1. HistoryInv => (WithinDepth => PassIsLinearizable)
    BY PassingIsLinearizable DEF HistoryInv, PassIsLinearizable, WithinDepth
  <1> QED BY <1>1, HistoriesAreWellFormed, PTL

\* In particular every history of at most MaxDepth + 1 entries that
\* check_linearizability passes is linearizable.
THEOREM ShortPassIsRight ==
    ASSUME MaxHistory <= MaxDepth + 1
    PROVE  Spec => []PassIsLinearizable
  <1>1. HistoryInv => WithinDepth
    <2>1. SUFFICES ASSUME HistoryInv, NEW key \in Keys
                   PROVE  Cardinality(KeyOps(history, key)) <= MaxDepth + 1
      BY DEF WithinDepth
    <2>2. /\ Len(history) \in Nat
          /\ Len(history) <= MaxHistory
          /\ Cardinality(KeyOps(history, key)) \in Nat
          /\ Cardinality(KeyOps(history, key)) <= Len(history)
      BY <2>1, OpsFinite DEF HistoryInv, WellFormed
    <2> QED BY <2>2, HistoryAssumption, CheckerAssumption
  <1> QED BY <1>1, PassIsRight, HistoriesAreWellFormed, PTL
==============================================================================
