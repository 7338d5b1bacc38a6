---------------------------- MODULE CheckerProofs ----------------------------
(***************************************************************************)
(* The verdict of the checker is right, for histories of any length over   *)
(* any keys and values.                                                    *)
(***************************************************************************)
EXTENDS LinearizabilityChecker, FiniteSetTheorems, WellFoundedInduction, TLAPS

------------------------------------------------------------------------------
(* Induction.  The library's induction theorems take an operator; these two *)
(* take a set, which the provers can instantiate.                           *)

LEMMA LeastNatural ==
    ASSUME NEW T, T \subseteq Nat, T # {}
    PROVE  \E x \in T : \A y \in T : x <= y
  <1> DEFINE R == {ss \in Nat \X Nat : ss[1] < ss[2]}
  <1>1. IsWellFoundedOn(R, Nat)
    BY NatLessThanWellFounded, Zenon DEF OpToRel
  <1>2. PICK x \in T : \A y \in T : ~(<<y, x>> \in R)
    BY <1>1, WFMin
  <1>3. ASSUME NEW y \in T
        PROVE  x <= y
    <2>1. x \in Nat /\ y \in Nat /\ ~(<<y, x>> \in R)
      BY <1>2
    <2> QED BY <2>1
  <1> QED BY <1>3

LEMMA SetInduction ==
    ASSUME NEW G, 0 \in G, \A n \in Nat : n \in G => n + 1 \in G
    PROVE  Nat \subseteq G
  <1>1. SUFFICES ASSUME Nat \ G # {}
                 PROVE  FALSE
    OBVIOUS
  <1>2. PICK x \in Nat \ G : \A y \in Nat \ G : x <= y
    BY <1>1, LeastNatural
  <1>3. x - 1 \in Nat /\ x - 1 \in G
    BY <1>2
  <1> QED BY <1>3

------------------------------------------------------------------------------
(* The search.                                                              *)

\* What one call of the search says of its own answer f.
Equation(ops, f) ==
    f = [call \in Calls(ops) |->
            \/ call.remaining = {}
            \/ call.depth > MaxDepth
            \/ \E lop \in call.remaining :
                   /\ lop.invoke_time <= min_complete(call.remaining)
                   /\ matches(call.model, lop)
                   /\ f[After(call, lop)]]

LEMMA SearchStep ==
    ASSUME NEW ops, NEW f, Equation(ops, f), NEW call \in Calls(ops)
    PROVE  f[call] <=> \/ call.remaining = {}
                       \/ call.depth > MaxDepth
                       \/ \E lop \in call.remaining :
                              /\ lop.invoke_time <= min_complete(call.remaining)
                              /\ matches(call.model, lop)
                              /\ f[After(call, lop)]
  BY DEF Equation

\* A run of the search that succeeds: the n operations os it chose, one after
\* the other, and the models ms before, between and after them.
Rest(remaining, os, i) == remaining \ {os[j] : j \in 1 .. (i - 1)}

Chosen(remaining, os, ms, i) ==
    /\ os[i] \in Rest(remaining, os, i)
    /\ os[i].invoke_time <= min_complete(Rest(remaining, os, i))
    /\ matches(ms[i - 1], os[i])
    /\ ms[i] = new_model(ms[i - 1], os[i])

Run(call, n, os, ms) ==
    /\ n \in Nat
    /\ os \in [1 .. n -> call.remaining]
    /\ ms \in [0 .. n -> Stores]
    /\ ms[0] = call.model
    /\ \A i \in 1 .. n : Chosen(call.remaining, os, ms, i)
    /\ Rest(call.remaining, os, n + 1) = {} \/ call.depth + n > MaxDepth

Succeeds(call) == \E n, os, ms : Run(call, n, os, ms)

LEMMA NewModelType ==
    ASSUME NEW model \in Stores, NEW lop, lop.op \in KVOp
    PROVE  new_model(model, lop) \in Stores
  <1> DEFINE op == lop.op
  <1>0. op \in KVOp
    OBVIOUS
  <1> HIDE DEF op
  <1>1. CASE op \in [type : {"read"}, key : Keys]
    BY <1>1 DEF new_model, Stores, op
  <1>2. CASE op \in [type : {"write"}, key : Keys, value : Values]
    BY <1>2 DEF new_model, Stores, op
  <1>3. CASE op \in [type : {"cas"}, key : Keys, from : Values, to : Values]
    BY <1>3 DEF new_model, Stores, op
  <1> QED BY <1>0, <1>1, <1>2, <1>3 DEF KVOp, OpsOver

LEMMA AfterType ==
    ASSUME NEW ops, \A lop \in ops : lop.op \in KVOp,
           NEW call \in Calls(ops), NEW lop \in call.remaining
    PROVE  After(call, lop) \in Calls(ops)
  <1>1. new_model(call.model, lop) \in Stores
    BY NewModelType DEF Calls
  <1> QED BY <1>1 DEF After, Calls

\* A run that is over at once.
LEMMA SucceedsAtOnce ==
    ASSUME NEW ops, NEW call \in Calls(ops),
           call.remaining = {} \/ call.depth > MaxDepth
    PROVE  Succeeds(call)
  <1> DEFINE os == [i \in 1 .. 0 |-> i]
             ms == [i \in 0 .. 0 |-> call.model]
  <1>1. Rest(call.remaining, os, 1) = call.remaining
    BY DEF Rest
  <1>2. os \in [1 .. 0 -> call.remaining]
    OBVIOUS
  <1>3. ms \in [0 .. 0 -> Stores] /\ ms[0] = call.model
    BY DEF Calls
  <1>4. Rest(call.remaining, os, 0 + 1) = {} \/ call.depth + 0 > MaxDepth
    BY <1>1 DEF Calls
  <1>5. Run(call, 0, os, ms)
    BY <1>2, <1>3, <1>4 DEF Run
  <1> QED BY <1>5 DEF Succeeds

\* A choice followed by a run is a run.
LEMMA SucceedsAfterChoice ==
    ASSUME NEW ops, \A lop \in ops : lop.op \in KVOp, NEW call \in Calls(ops),
           NEW lop \in call.remaining,
           lop.invoke_time <= min_complete(call.remaining),
           matches(call.model, lop),
           Succeeds(After(call, lop))
    PROVE  Succeeds(call)
  <1>1. PICK n, os, ms : Run(After(call, lop), n, os, ms)
    BY DEF Succeeds
  <1>2. /\ n \in Nat
        /\ os \in [1 .. n -> call.remaining \ {lop}]
        /\ ms \in [0 .. n -> Stores]
        /\ ms[0] = new_model(call.model, lop)
        /\ \A i \in 1 .. n : Chosen(call.remaining \ {lop}, os, ms, i)
        /\ \/ Rest(call.remaining \ {lop}, os, n + 1) = {}
           \/ call.depth + 1 + n > MaxDepth
    BY <1>1 DEF Run, After
  <1>3. call.model \in Stores /\ call.depth \in Nat
    BY DEF Calls
  <1> DEFINE os1 == [i \in 1 .. (n + 1) |-> IF i = 1 THEN lop ELSE os[i - 1]]
             ms1 == [i \in 0 .. (n + 1) |-> IF i = 0 THEN call.model ELSE ms[i - 1]]
  <1>4. os1 \in [1 .. (n + 1) -> call.remaining]
    BY <1>2
  <1>5. ms1 \in [0 .. (n + 1) -> Stores] /\ ms1[0] = call.model
    BY <1>2, <1>3
  <1>6. ASSUME NEW i \in 2 .. (n + 2)
        PROVE  Rest(call.remaining, os1, i) = Rest(call.remaining \ {lop}, os, i - 1)
    <2>1. ASSUME NEW x, x \in Rest(call.remaining, os1, i)
          PROVE  x \in Rest(call.remaining \ {lop}, os, i - 1)
      <3>1. os1[1] = lop /\ 1 \in 1 .. (i - 1)
        BY <1>2, <1>6
      <3>2. x \in call.remaining \ {lop}
        BY <2>1, <3>1 DEF Rest
      <3>3. ASSUME NEW j \in 1 .. (i - 2)
            PROVE  x # os[j]
        <4>1. j + 1 \in 1 .. (i - 1) /\ os1[j + 1] = os[j]
          BY <1>2, <1>6
        <4> QED BY <2>1, <4>1 DEF Rest
      <3> QED BY <3>2, <3>3, <1>2, <1>6 DEF Rest
    <2>2. ASSUME NEW x, x \in Rest(call.remaining \ {lop}, os, i - 1)
          PROVE  x \in Rest(call.remaining, os1, i)
      <3>1. ASSUME NEW j \in 1 .. (i - 1)
            PROVE  x # os1[j]
        <4>1. CASE j = 1
          BY <1>2, <2>2, <4>1 DEF Rest
        <4>2. CASE j # 1
          <5>1. j - 1 \in 1 .. ((i - 1) - 1) /\ os1[j] = os[j - 1]
            BY <1>2, <4>2, <1>6
          <5> QED BY <2>2, <5>1 DEF Rest
        <4> QED BY <4>1, <4>2
      <3> QED BY <2>2, <3>1 DEF Rest
    <2> QED BY <2>1, <2>2
  <1>7. ASSUME NEW i \in 1 .. (n + 1)
        PROVE  Chosen(call.remaining, os1, ms1, i)
    <2>1. CASE i = 1
      <3>1. Rest(call.remaining, os1, 1) = call.remaining
        BY DEF Rest
      <3>2. os1[1] = lop /\ ms1[1 - 1] = call.model /\ ms1[1] = ms[0]
        BY <1>2
      <3> QED BY <2>1, <3>1, <3>2, <1>2 DEF Chosen
    <2>2. CASE i # 1
      <3>1. i - 1 \in 1 .. n /\ i \in 2 .. (n + 2)
        BY <1>2, <2>2
      <3>2. Chosen(call.remaining \ {lop}, os, ms, i - 1)
        BY <1>2, <3>1
      <3>3. os1[i] = os[i - 1] /\ ms1[i] = ms[i - 1] /\ ms1[i - 1] = ms[i - 1 - 1]
        BY <1>2, <2>2
      <3>4. Rest(call.remaining, os1, i) = Rest(call.remaining \ {lop}, os, i - 1)
        BY <1>6, <3>1
      <3> HIDE DEF os1, ms1
      <3> QED BY <3>2, <3>3, <3>4 DEF Chosen
    <2> QED BY <2>1, <2>2
  <1>8. \/ Rest(call.remaining, os1, (n + 1) + 1) = {}
        \/ call.depth + (n + 1) > MaxDepth
    <2>1. (n + 1) + 1 \in 2 .. (n + 2) /\ ((n + 1) + 1) - 1 = n + 1
      BY <1>2
    <2>2. Rest(call.remaining, os1, (n + 1) + 1) =
             Rest(call.remaining \ {lop}, os, ((n + 1) + 1) - 1)
      BY <1>6, <2>1
    <2>3. call.depth + 1 + n = call.depth + (n + 1)
      BY SMTT(30), <1>2, <1>3
    <2> HIDE DEF os1
    <2> QED BY <1>2, <2>1, <2>2, <2>3
  <1>9. n + 1 \in Nat
    BY <1>2
  <1> HIDE DEF os1, ms1
  <1>10. Run(call, n + 1, os1, ms1)
    BY <1>4, <1>5, <1>7, <1>8, <1>9 DEF Run
  <1> QED BY <1>10 DEF Succeeds

\* A run that is not over at once is a choice followed by a run.
LEMMA SucceedsByChoice ==
    ASSUME NEW ops, \A lop \in ops : lop.op \in KVOp, NEW call \in Calls(ops),
           Succeeds(call)
    PROVE  \/ call.remaining = {}
           \/ call.depth > MaxDepth
           \/ \E lop \in call.remaining :
                  /\ lop.invoke_time <= min_complete(call.remaining)
                  /\ matches(call.model, lop)
                  /\ Succeeds(After(call, lop))
  <1>1. PICK n, os, ms : Run(call, n, os, ms)
    BY DEF Succeeds
  <1>2. /\ n \in Nat
        /\ os \in [1 .. n -> call.remaining]
        /\ ms \in [0 .. n -> Stores]
        /\ ms[0] = call.model
        /\ \A i \in 1 .. n : Chosen(call.remaining, os, ms, i)
        /\ Rest(call.remaining, os, n + 1) = {} \/ call.depth + n > MaxDepth
    BY <1>1 DEF Run
  <1>3. call.model \in Stores /\ call.depth \in Nat
    BY DEF Calls
  <1>4. CASE n = 0
    <2>1. Rest(call.remaining, os, 0 + 1) = call.remaining
      BY DEF Rest
    <2> QED BY <1>2, <1>3, <1>4, <2>1
  <1>5. CASE n # 0
    <2> DEFINE lop == os[1]
               os1 == [i \in 1 .. (n - 1) |-> os[i + 1]]
               ms1 == [i \in 0 .. (n - 1) |-> ms[i + 1]]
               rem == call.remaining \ {lop}
    <2>1. 1 \in 1 .. n /\ n - 1 \in Nat
      BY <1>2, <1>5
    <2>2. Rest(call.remaining, os, 1) = call.remaining
      BY DEF Rest
    <2>3. /\ lop \in call.remaining
          /\ lop.invoke_time <= min_complete(call.remaining)
          /\ matches(call.model, lop)
          /\ ms[1] = new_model(call.model, lop)
      BY <1>2, <2>1, <2>2 DEF Chosen
    <2>4. ASSUME NEW i \in 1 .. n
          PROVE  Rest(rem, os1, i) = Rest(call.remaining, os, i + 1)
      <3>1. ASSUME NEW x, x \in Rest(rem, os1, i)
            PROVE  x \in Rest(call.remaining, os, i + 1)
        <4>1. ASSUME NEW j \in 1 .. ((i + 1) - 1)
              PROVE  x # os[j]
          <5>1. CASE j = 1
            BY <3>1, <5>1 DEF Rest
          <5>2. CASE j # 1
            <6>1. j - 1 \in 1 .. (i - 1) /\ os1[j - 1] = os[j]
              BY <1>2, <5>2, <2>4
            <6> QED BY <3>1, <6>1 DEF Rest
          <5> QED BY <5>1, <5>2
        <4> QED BY <3>1, <4>1 DEF Rest
      <3>2. ASSUME NEW x, x \in Rest(call.remaining, os, i + 1)
            PROVE  x \in Rest(rem, os1, i)
        <4>1. 1 \in 1 .. ((i + 1) - 1)
          BY <2>4, <1>2
        <4>2. x \in rem
          BY <3>2, <4>1 DEF Rest
        <4>3. ASSUME NEW j \in 1 .. (i - 1)
              PROVE  x # os1[j]
          <5>1. j + 1 \in 1 .. ((i + 1) - 1) /\ os1[j] = os[j + 1]
            BY <1>2, <2>4
          <5> QED BY <3>2, <5>1 DEF Rest
        <4> QED BY <4>2, <4>3 DEF Rest
      <3> QED BY <3>1, <3>2
    <2>5. ASSUME NEW i \in 1 .. (n - 1)
          PROVE  Chosen(rem, os1, ms1, i)
      <3>1. i + 1 \in 1 .. n /\ i \in 1 .. n
        BY <1>2
      <3>2. Chosen(call.remaining, os, ms, i + 1)
        BY <1>2, <3>1
      <3>3. /\ os1[i] = os[i + 1]
            /\ ms1[i] = ms[i + 1]
            /\ ms1[i - 1] = ms[(i + 1) - 1]
        BY <1>2, <2>5
      <3>4. Rest(rem, os1, i) = Rest(call.remaining, os, i + 1)
        BY <2>4, <3>1
      <3> HIDE DEF os1, ms1, rem
      <3> QED BY <3>2, <3>3, <3>4 DEF Chosen
    <2>6. os1 \in [1 .. (n - 1) -> rem]
      <3>1. ASSUME NEW i \in 1 .. (n - 1)
            PROVE  os1[i] \in rem
        BY <2>5 DEF Chosen, Rest
      <3> HIDE DEF rem
      <3> QED BY <3>1
    <2>7. ms1 \in [0 .. (n - 1) -> Stores] /\ ms1[0] = new_model(call.model, lop)
      BY <1>2, <2>1, <2>3
    <2>8. Rest(rem, os1, (n - 1) + 1) = {} \/ (call.depth + 1) + (n - 1) > MaxDepth
      <3>1. (n - 1) + 1 = n /\ n \in 1 .. n /\ (call.depth + 1) + (n - 1) = call.depth + n
        BY <1>2, <1>3, <1>5
      <3>2. Rest(rem, os1, n) = Rest(call.remaining, os, n + 1)
        BY <2>4, <3>1
      <3> HIDE DEF rem, os1
      <3> QED BY <1>2, <3>1, <3>2
    <2>9. /\ After(call, lop).remaining = rem
          /\ After(call, lop).model = new_model(call.model, lop)
          /\ After(call, lop).depth = call.depth + 1
      BY DEF After
    <2> HIDE DEF os1, ms1, rem, lop
    <2>10. Run(After(call, lop), n - 1, os1, ms1)
      BY <2>1, <2>5, <2>6, <2>7, <2>8, <2>9 DEF Run
    <2> QED BY <2>3, <2>10 DEF Succeeds
  <1> QED BY <1>4, <1>5

\* The recursion is well defined: runs answer it.
LEMMA SearchExists ==
    ASSUME NEW ops, \A lop \in ops : lop.op \in KVOp
    PROVE  \E f : Equation(ops, f)
  <1> DEFINE f == [call \in Calls(ops) |-> IF Succeeds(call) THEN TRUE ELSE FALSE]
  <1>1. ASSUME NEW call \in Calls(ops)
        PROVE  Succeeds(call) <=>
                   \/ call.remaining = {}
                   \/ call.depth > MaxDepth
                   \/ \E lop \in call.remaining :
                          /\ lop.invoke_time <= min_complete(call.remaining)
                          /\ matches(call.model, lop)
                          /\ f[After(call, lop)]
    <2>1. \A lop \in call.remaining : f[After(call, lop)] <=> Succeeds(After(call, lop))
      BY AfterType
    <2> QED BY <2>1, SucceedsAtOnce, SucceedsAfterChoice, SucceedsByChoice
  <1>2. ASSUME NEW call \in Calls(ops)
        PROVE  f[call] =
                   (\/ call.remaining = {}
                    \/ call.depth > MaxDepth
                    \/ \E lop \in call.remaining :
                           /\ lop.invoke_time <= min_complete(call.remaining)
                           /\ matches(call.model, lop)
                           /\ f[After(call, lop)])
    <2> DEFINE P == \/ call.remaining = {}
                    \/ call.depth > MaxDepth
                    \/ \E lop \in call.remaining :
                           /\ lop.invoke_time <= min_complete(call.remaining)
                           /\ matches(call.model, lop)
                           /\ f[After(call, lop)]
    <2>1. f[call] = IF Succeeds(call) THEN TRUE ELSE FALSE
      OBVIOUS
    <2>2. Succeeds(call) <=> P
      BY <1>1
    <2>3. P \in BOOLEAN
      OBVIOUS
    <2> HIDE DEF f, P
    <2>4. f[call] = P
      BY <2>1, <2>2, <2>3
    <2> QED BY <2>4 DEF P
  <1>3. f = [call \in Calls(ops) |->
                \/ call.remaining = {}
                \/ call.depth > MaxDepth
                \/ \E lop \in call.remaining :
                       /\ lop.invoke_time <= min_complete(call.remaining)
                       /\ matches(call.model, lop)
                       /\ f[After(call, lop)]]
    BY <1>2
  <1> HIDE DEF f
  <1>4. Equation(ops, f)
    BY <1>3 DEF Equation
  <1> QED BY <1>4

FirstCall(ops) == [remaining |-> ops, model |-> EmptyStore, depth |-> 0]

LEMMA FirstCallType == ASSUME NEW ops PROVE FirstCall(ops) \in Calls(ops)
  BY DEF FirstCall, Calls, Stores, EmptyStore

LEMMA SearchIsEquation ==
    ASSUME NEW ops, \A lop \in ops : lop.op \in KVOp
    PROVE  \E f : Equation(ops, f) /\ try_linearize(ops) = f[FirstCall(ops)]
  <1>1. \E f : Equation(ops, f)
    BY SearchExists
  <1> QED BY <1>1 DEF Equation, try_linearize, FirstCall

\* Whatever solves the recursion finds only runs: the depth limit ends it.
LEMMA SolutionsAreRuns ==
    ASSUME NEW ops, \A lop \in ops : lop.op \in KVOp, NEW f, Equation(ops, f),
           NEW call \in Calls(ops), f[call]
    PROVE  Succeeds(call)
  <1> DEFINE G == {k \in Nat : \A c \in Calls(ops) :
                      c.depth + k > MaxDepth /\ f[c] => Succeeds(c)}
  <1>1. 0 \in G
    <2>1. ASSUME NEW c \in Calls(ops), c.depth + 0 > MaxDepth
          PROVE  Succeeds(c)
      <3>1. c.depth > MaxDepth
        BY <2>1 DEF Calls
      <3> QED BY <3>1, SucceedsAtOnce
    <2> QED BY <2>1
  <1>2. ASSUME NEW k \in Nat, k \in G
        PROVE  k + 1 \in G
    <2>1. ASSUME NEW c \in Calls(ops), c.depth + (k + 1) > MaxDepth, f[c]
          PROVE  Succeeds(c)
      <3>1. CASE c.remaining = {} \/ c.depth > MaxDepth
        BY <3>1, SucceedsAtOnce
      <3>2. CASE \E lop \in c.remaining :
                     /\ lop.invoke_time <= min_complete(c.remaining)
                     /\ matches(c.model, lop)
                     /\ f[After(c, lop)]
        <4>1. PICK lop \in c.remaining :
                     /\ lop.invoke_time <= min_complete(c.remaining)
                     /\ matches(c.model, lop)
                     /\ f[After(c, lop)]
          BY <3>2
        <4>2. After(c, lop) \in Calls(ops)
          BY AfterType
        <4>3. After(c, lop).depth + k > MaxDepth
          BY <2>1, CheckerAssumption DEF After, Calls
        <4>4. Succeeds(After(c, lop))
          BY <1>2, <4>1, <4>2, <4>3
        <4> QED BY <4>1, <4>4, SucceedsAfterChoice
      <3> QED BY <2>1, <3>1, <3>2, SearchStep
    <2> QED BY <2>1
  <1> HIDE DEF G
  <1>3. Nat \subseteq G
    BY <1>1, <1>2, SetInduction
  <1>4. MaxDepth + 1 \in G /\ call.depth + (MaxDepth + 1) > MaxDepth
    BY <1>3, CheckerAssumption DEF Calls
  <1> QED BY <1>4 DEF G

------------------------------------------------------------------------------
(* Histories: operations are invoked once, and responses answer them.       *)

IsAnswerTo(entry, op) ==
    \E body \in Answers(op) : entry = record_response(entry.id, body)

WellFormed(h) ==
    /\ h \in Seq(Invocations \cup Responses)
    /\ \A i, j \in DOMAIN h :
           /\ h[i].event_type = "invoke"
           /\ h[j].event_type = "invoke"
           /\ h[i].id = h[j].id
           => i = j
    /\ \A r \in DOMAIN h : h[r].event_type # "invoke" =>
           \E i \in 1 .. (r - 1) :
               IsInvocation(h, i, h[r].id) /\ IsAnswerTo(h[r], h[i].op)

\* The operation that the response at r completes.
OpAt(h, r) ==
    LET i == CHOOSE i \in DOMAIN h : IsInvocation(h, i, h[r].id)
        info == h[r].event_type = "info"
    IN  [id |-> h[r].id,
         op |-> h[i].op,
         result |-> IF info THEN Absent ELSE h[r].value,
         cas_ok |-> h[r].event_type # "fail",
         invoke_time |-> i,
         complete_time |-> IF info THEN Len(h) + 1 ELSE r]

IsOp(h, lop) ==
    /\ lop.id \in OpIds
    /\ lop.op \in KVOp
    /\ lop.invoke_time \in DOMAIN h
    /\ lop.complete_time \in Completions(h)
    /\ lop.invoke_time < lop.complete_time
    /\ IsInvocation(h, lop.invoke_time, lop.id)
    /\ h[lop.complete_time].id = lop.id
    /\ h[lop.invoke_time].op = lop.op
    /\ OpOf(h, lop.id) = lop.op
    /\ lop.result = h[lop.complete_time].value
    /\ lop.cas_ok = (h[lop.complete_time].event_type # "fail")
    /\ IsAnswerTo(h[lop.complete_time], lop.op)

\* No answer is indeterminate.
LEMMA AnswersAreDefinite ==
    ASSUME NEW op \in KVOp, NEW entry, IsAnswerTo(entry, op)
    PROVE  entry.event_type \in {"ok", "fail"}
  <1>1. PICK body \in Answers(op) : entry = record_response(entry.id, body)
    BY DEF IsAnswerTo
  <1>2. op.type \in {"read", "write", "cas"}
    BY DEF KVOp, OpsOver
  <1>3. body.type # "error" \/ body.code \in {20, 22}
    BY <1>2 DEF Answers, Ok, Error
  <1> QED BY <1>1, <1>3 DEF record_response

LEMMA EntryTypes ==
    ASSUME NEW h, WellFormed(h), NEW i \in DOMAIN h
    PROVE  /\ h[i].id \in OpIds
           /\ h[i].event_type = "invoke" => h[i].op \in KVOp
           /\ i \in Nat /\ i >= 1 /\ i <= Len(h)
           /\ Len(h) \in Nat /\ DOMAIN h = 1 .. Len(h)
  <1>1. h[i] \in Invocations \cup Responses
    BY DEF WellFormed
  <1>2. /\ i \in Nat /\ i >= 1 /\ i <= Len(h)
        /\ Len(h) \in Nat /\ DOMAIN h = 1 .. Len(h)
    BY DEF WellFormed
  <1> QED BY <1>1, <1>2 DEF Invocations, Responses

\* An operation is invoked at one place.
LEMMA InvokedAt ==
    ASSUME NEW h, WellFormed(h), NEW i \in DOMAIN h, NEW id, IsInvocation(h, i, id)
    PROVE  (CHOOSE j \in DOMAIN h : IsInvocation(h, j, id)) = i
  BY DEF WellFormed, IsInvocation

LEMMA OpAtIsOp ==
    ASSUME NEW h, WellFormed(h), NEW r \in Completions(h)
    PROVE  IsOp(h, OpAt(h, r)) /\ OpAt(h, r).complete_time = r
  <1>1. r \in DOMAIN h /\ h[r].event_type # "invoke"
    BY DEF Completions
  <1>2. PICK i \in 1 .. (r - 1) :
               IsInvocation(h, i, h[r].id) /\ IsAnswerTo(h[r], h[i].op)
    BY <1>1 DEF WellFormed
  <1>3. r \in Nat /\ r <= Len(h) /\ Len(h) \in Nat /\ DOMAIN h = 1 .. Len(h)
    BY <1>1, EntryTypes
  <1>4. i \in DOMAIN h /\ i < r
    BY <1>3
  <1>5. (CHOOSE j \in DOMAIN h : IsInvocation(h, j, h[r].id)) = i
    BY <1>2, <1>4, InvokedAt
  <1>6. h[i].op \in KVOp /\ h[r].id \in OpIds
    BY <1>1, <1>2, <1>4, EntryTypes DEF IsInvocation
  <1>7. h[r].event_type # "info"
    BY <1>2, <1>6, AnswersAreDefinite
  <1>8. OpAt(h, r) = [id |-> h[r].id, op |-> h[i].op, result |-> h[r].value,
                      cas_ok |-> h[r].event_type # "fail",
                      invoke_time |-> i, complete_time |-> r]
    BY <1>5, <1>7 DEF OpAt
  <1>9. OpOf(h, h[r].id) = h[i].op
    BY <1>5 DEF OpOf
  <1> DEFINE lop == OpAt(h, r)
  <1>10. /\ lop.id = h[r].id /\ lop.op = h[i].op /\ lop.result = h[r].value
         /\ lop.invoke_time = i /\ lop.complete_time = r
    BY <1>8
  <1>11. lop.cas_ok = (h[r].event_type # "fail")
    BY <1>8
  <1>12. IsInvocation(h, lop.invoke_time, lop.id) /\ IsAnswerTo(h[r], lop.op)
    BY <1>2, <1>10
  <1> HIDE DEF lop
  <1>13. IsOp(h, lop)
    BY <1>4, <1>6, <1>9, <1>10, <1>11, <1>12 DEF IsOp
  <1> QED BY <1>10, <1>13 DEF lop

LEMMA OpsAreOps ==
    ASSUME NEW h, WellFormed(h)
    PROVE  /\ LinearOps(h) = {OpAt(h, r) : r \in Completions(h)}
           /\ \A lop \in LinearOps(h) :
                  IsOp(h, lop) /\ lop = OpAt(h, lop.complete_time)
  <1>1. LinearOps(h) = {OpAt(h, r) : r \in Completions(h)}
    BY DEF LinearOps, OpAt
  <1> QED BY <1>1, OpAtIsOp

\* An operation is completed once.
LEMMA CompletedOnce ==
    ASSUME NEW h, WellFormed(h), NEW q \in Completions(h), NEW r \in Completions(h),
           h[q].id = h[r].id
    PROVE  q = r
  <1>1. /\ q \in Nat /\ q >= 1
        /\ r \in Nat /\ r >= 1
    BY EntryTypes DEF Completions
  <1>2. ~(q < r)
    BY <1>1 DEF Completions
  <1>3. ~(r < q)
    BY <1>1 DEF Completions
  <1> QED BY <1>1, <1>2, <1>3

LEMMA OpsById ==
    ASSUME NEW h, WellFormed(h), NEW a \in LinearOps(h), NEW b \in LinearOps(h),
           a.id = b.id
    PROVE  a = b
  <1>1. /\ IsOp(h, a) /\ a = OpAt(h, a.complete_time)
        /\ IsOp(h, b) /\ b = OpAt(h, b.complete_time)
    BY OpsAreOps
  <1>2. a.complete_time = b.complete_time
    BY <1>1, CompletedOnce DEF IsOp
  <1> QED BY <1>1, <1>2

------------------------------------------------------------------------------
(* The model of the search and the store.                                   *)

\* The recorded result of an operation is possible in a model exactly when it
\* is what the store would have answered, and then the two move alike.
LEMMA MatchesIsReply ==
    ASSUME NEW h, WellFormed(h), NEW lop, IsOp(h, lop), NEW s \in Stores
    PROVE  /\ matches(s, lop) <=>
                  h[lop.complete_time] =
                      record_response(lop.id, reply_to(s, lop.op))
           /\ matches(s, lop) => new_model(s, lop) = apply_op(s, lop.op)
  <1> DEFINE op == lop.op
             e == h[lop.complete_time]
  <1>1. PICK body \in Answers(op) : e = record_response(lop.id, body)
    BY DEF IsOp, IsAnswerTo
  <1>2. /\ op \in KVOp
        /\ lop.result = e.value
        /\ lop.cas_ok = (e.event_type # "fail")
    BY DEF IsOp
  <1>3. Absent \notin Values
    BY StoreAssumption
  <1>4. e = [event_type |-> IF body.type # "error" THEN "ok"
                            ELSE IF body.code \in {20, 22} THEN "fail" ELSE "info",
             id |-> lop.id,
             value |-> IF body.type = "read_ok" THEN body.value ELSE Absent]
    BY <1>1 DEF record_response
  <1>5. CASE op \in [type : {"read"}, key : Keys]
    <2>1. op.type = "read" /\ s[op.key] \in Values \cup {Absent}
      BY <1>5 DEF Stores
    <2>2. body \in [type : {"read_ok"}, value : Values] \cup {Error(20)}
      BY <1>1, <2>1 DEF Answers
    <2>3. matches(s, lop) <=> s[op.key] = e.value
      BY <1>2, <2>1 DEF matches
    <2>4. new_model(s, lop) = s /\ apply_op(s, op) = s
      BY <2>1 DEF new_model, apply_op
    <2>5. CASE s[op.key] = Absent
      BY <1>3, <1>4, <2>1, <2>2, <2>3, <2>4, <2>5 DEF reply_to, record_response, Error
    <2>6. CASE s[op.key] # Absent
      BY <1>3, <1>4, <2>1, <2>2, <2>3, <2>4, <2>6 DEF reply_to, record_response, Error
    <2> QED BY <2>5, <2>6
  <1>6. CASE op \in [type : {"write"}, key : Keys, value : Values]
    <2>1. op.type = "write" /\ body = Ok("write_ok")
      BY <1>1, <1>6 DEF Answers
    <2> QED BY <1>4, <2>1 DEF matches, reply_to, record_response, new_model, apply_op, Ok
  <1>7. CASE op \in [type : {"cas"}, key : Keys, from : Values, to : Values]
    <2>1. /\ op.type = "cas"
          /\ op.from \in Values
          /\ body \in {Ok("cas_ok"), Error(20), Error(22)}
      BY <1>1, <1>7 DEF Answers
    <2>2. matches(s, lop) <=> (lop.cas_ok = (s[op.key] = op.from))
      BY <2>1 DEF matches
    <2>3. e.event_type # "fail" <=> body = Ok("cas_ok")
      BY <1>4, <2>1 DEF Ok, Error
    <2>4. e.value = Absent /\ e.id = lop.id
      BY <1>4, <2>1 DEF Ok, Error
    <2>5. matches(s, lop) <=> (body = Ok("cas_ok") <=> s[op.key] = op.from)
      BY <1>2, <2>2, <2>3
    <2>6. CASE s[op.key] = op.from
      <3>1. reply_to(s, op) = Ok("cas_ok")
        BY <1>3, <2>1, <2>6 DEF reply_to
      <3>2. e = record_response(lop.id, reply_to(s, op)) <=> body = Ok("cas_ok")
        BY <1>4, <2>1, <3>1 DEF record_response, Ok, Error
      <3>3. matches(s, lop) => new_model(s, lop) = apply_op(s, op)
        BY <1>2, <2>1, <2>3, <2>5, <2>6 DEF new_model, apply_op
      <3> QED BY <2>5, <2>6, <3>2, <3>3
    <2>7. CASE s[op.key] # op.from
      <3>1. reply_to(s, op) \in {Error(20), Error(22)}
        BY <2>1, <2>7 DEF reply_to
      <3>2. e = record_response(lop.id, reply_to(s, op)) <=> body # Ok("cas_ok")
        BY <1>4, <2>1, <3>1 DEF record_response, Ok, Error
      <3>3. matches(s, lop) => new_model(s, lop) = apply_op(s, op)
        BY <1>2, <2>1, <2>3, <2>5, <2>7 DEF new_model, apply_op
      <3> QED BY <2>5, <2>7, <3>2, <3>3
    <2> QED BY <2>6, <2>7
  <1> QED BY <1>2, <1>5, <1>6, <1>7 DEF KVOp, OpsOver

\* Operations on one key look at that key only, ...
LEMMA OneKey ==
    ASSUME NEW s \in Stores, NEW t \in Stores, NEW lop, lop.op \in KVOp,
           s[lop.op.key] = t[lop.op.key]
    PROVE  /\ matches(s, lop) <=> matches(t, lop)
           /\ new_model(s, lop)[lop.op.key] = new_model(t, lop)[lop.op.key]
  <1> DEFINE op == lop.op
  <1>1. op.key \in Keys /\ op.type \in {"read", "write", "cas"}
    BY DEF KVOp, OpsOver
  <1>2. matches(s, lop) <=> matches(t, lop)
    BY DEF matches
  <1>3. CASE op.type = "write"
    BY <1>1, <1>2, <1>3 DEF new_model, Stores
  <1>4. CASE op.type = "cas"
    BY <1>1, <1>2, <1>4 DEF new_model, Stores
  <1>5. CASE op.type = "read"
    BY <1>1, <1>2, <1>5 DEF new_model, Stores
  <1> QED BY <1>1, <1>2, <1>3, <1>4, <1>5

\* ... and change no other.
LEMMA OtherKeys ==
    ASSUME NEW s \in Stores, NEW op \in KVOp, NEW key \in Keys, key # op.key
    PROVE  apply_op(s, op)[key] = s[key]
  BY DEF apply_op, Stores

LEMMA ApplyType ==
    ASSUME NEW s \in Stores, NEW op \in KVOp
    PROVE  apply_op(s, op) \in Stores
  <1>1. CASE op \in [type : {"read"}, key : Keys]
    BY <1>1 DEF apply_op, Stores
  <1>2. CASE op \in [type : {"write"}, key : Keys, value : Values]
    BY <1>2 DEF apply_op, Stores
  <1>3. CASE op \in [type : {"cas"}, key : Keys, from : Values, to : Values]
    BY <1>3 DEF apply_op, Stores
  <1> QED BY <1>1, <1>2, <1>3 DEF KVOp, OpsOver

\* The replay of an order of operations is well defined.
LEMMA ReplayStores ==
    ASSUME NEW h, NEW order, Len(order) \in Nat,
           \A i \in 1 .. Len(order) : OpOf(h, order[i]) \in KVOp
    PROVE  /\ Replay(h, order) \in [0 .. Len(order) -> Stores]
           /\ Replay(h, order)[0] = EmptyStore
           /\ \A i \in 1 .. Len(order) : Replay(h, order)[i] =
                  apply_op(Replay(h, order)[i - 1], OpOf(h, order[i]))
  <1>0. PICK n \in Nat : n = Len(order)
    OBVIOUS
  <1> USE <1>0
  <1> DEFINE IsReplay(k, g) ==
                 /\ g \in [0 .. k -> Stores]
                 /\ g[0] = EmptyStore
                 /\ \A i \in 1 .. k : g[i] = apply_op(g[i - 1], OpOf(h, order[i]))
             G == {k \in Nat : k <= n => \E g : IsReplay(k, g)}
  <1>1. 0 \in G
    <2> DEFINE g == [i \in 0 .. 0 |-> EmptyStore]
    <2>1. IsReplay(0, g)
      BY DEF Stores, EmptyStore
    <2> HIDE DEF g, IsReplay
    <2> QED BY <2>1
  <1>2. ASSUME NEW k \in Nat, k \in G
        PROVE  k + 1 \in G
    <2>1. SUFFICES ASSUME k + 1 <= n
                   PROVE  \E g : IsReplay(k + 1, g)
      OBVIOUS
    <2>2. PICK g : IsReplay(k, g)
      BY <1>2, <2>1
    <2> DEFINE x == apply_op(g[k], OpOf(h, order[k + 1]))
               f == [i \in 0 .. (k + 1) |-> IF i = k + 1 THEN x ELSE g[i]]
    <2>3. x \in Stores
      <3>1. g[k] \in Stores /\ k + 1 \in 1 .. n
        BY <2>1, <2>2
      <3> QED BY <3>1, ApplyType
    <2>4. f \in [0 .. (k + 1) -> Stores] /\ f[0] = EmptyStore
      BY <2>2, <2>3
    <2>5. ASSUME NEW i \in 1 .. (k + 1)
          PROVE  f[i] = apply_op(f[i - 1], OpOf(h, order[i]))
      <3>1. CASE i = k + 1
        BY <3>1
      <3>2. CASE i # k + 1
        <4>1. i \in 1 .. k /\ f[i] = g[i] /\ f[i - 1] = g[i - 1]
          BY <3>2
        <4> HIDE DEF f
        <4> QED BY <2>2, <4>1
      <3> QED BY <3>1, <3>2
    <2> HIDE DEF f
    <2>6. IsReplay(k + 1, f)
      BY <2>4, <2>5
    <2> QED BY <2>6
  <1> HIDE DEF G
  <1>3. n \in G
    BY <1>1, <1>2, SetInduction
  <1>4. PICK g : IsReplay(n, g)
    BY <1>3 DEF G
  <1>5. g = [k \in 0 .. Len(order) |-> IF k = 0 THEN EmptyStore
                                       ELSE apply_op(g[k - 1], OpOf(h, order[k]))]
    BY <1>4
  <1> DEFINE st == Replay(h, order)
  <1>6. st = [k \in 0 .. Len(order) |-> IF k = 0 THEN EmptyStore
                                        ELSE apply_op(st[k - 1], OpOf(h, order[k]))]
    BY <1>5 DEF Replay
  <1> HIDE DEF st
  <1>7. /\ st[0] = EmptyStore
        /\ \A i \in 1 .. n : st[i] = apply_op(st[i - 1], OpOf(h, order[i]))
        /\ DOMAIN st = 0 .. n
    BY <1>6
  <1> DEFINE H == {k \in Nat : k <= n => st[k] \in Stores}
  <1>8. 0 \in H
    BY <1>7 DEF Stores, EmptyStore
  <1>9. ASSUME NEW k \in Nat, k \in H
        PROVE  k + 1 \in H
    <2>1. SUFFICES ASSUME k + 1 <= n
                   PROVE  st[k + 1] \in Stores
      OBVIOUS
    <2>2. k + 1 \in 1 .. n /\ st[k] \in Stores /\ (k + 1) - 1 = k
      BY <1>9, <2>1
    <2> QED BY <1>7, <2>2, ApplyType
  <1> HIDE DEF H
  <1>10. Nat \subseteq H
    BY <1>8, <1>9, SetInduction
  <1>11. \A k \in 0 .. n : st[k] \in Stores
    BY <1>10 DEF H
  <1>12. st \in [0 .. n -> Stores]
    BY <1>6, <1>7, <1>11
  <1> QED BY <1>7, <1>12 DEF st

------------------------------------------------------------------------------
(* A linearizable history passes when every operation was answered.         *)

KeyOps(h, key) == {lop \in LinearOps(h) : lop.op.key = key}

LEMMA MinComplete ==
    ASSUME NEW R, NEW lop \in R, \A x \in R : x.complete_time \in Nat
    PROVE  /\ \E x \in R : min_complete(R) = x.complete_time
           /\ \A x \in R : min_complete(R) <= x.complete_time
  <1> DEFINE T == {x.complete_time : x \in R}
  <1>1. \E t \in T : \A u \in T : t <= u
    BY LeastNatural
  <1>2. min_complete(R) \in T /\ \A u \in T : min_complete(R) <= u
    BY <1>1 DEF min_complete, Min
  <1> QED BY <1>2

LEMMA CompletedFinite ==
    ASSUME NEW h, WellFormed(h)
    PROVE  IsFiniteSet(Completed(h)) /\ IsFiniteSet(Completions(h))
  <1>1. Len(h) \in Nat /\ DOMAIN h = 1 .. Len(h)
    BY DEF WellFormed
  <1>2. IsFiniteSet(1 .. Len(h)) /\ Completions(h) \in SUBSET (1 .. Len(h))
    BY <1>1, FS_Interval DEF Completions
  <1>3. IsFiniteSet(Completions(h))
    BY <1>2, FS_Subset
  <1> DEFINE f == [r \in Completions(h) |-> h[r].id]
  <1>4. f \in Surjection(Completions(h), Completed(h))
    BY DEF Surjection, Completed
  <1> HIDE DEF f
  <1>5. IsFiniteSet(Completed(h))
    BY <1>3, <1>4, FS_Surjection
  <1> QED BY <1>3, <1>5

\* An order in SetToSeqs names everything once.
LEMMA OrderOf ==
    ASSUME NEW S, IsFiniteSet(S), NEW order \in SetToSeqs(S)
    PROVE  /\ Len(order) \in Nat
           /\ DOMAIN order = 1 .. Len(order)
           /\ \A i \in 1 .. Len(order) : order[i] \in S
           /\ \A i, j \in 1 .. Len(order) : order[i] = order[j] => i = j
           /\ \A x \in S : \E i \in 1 .. Len(order) : order[i] = x
  <1> DEFINE n == Cardinality(S)
  <1>1. n \in Nat
    BY FS_CardinalityType
  <1>2. /\ order \in [1 .. n -> S]
        /\ \A i, j \in 1 .. n : i # j => order[i] # order[j]
    BY DEF SetToSeqs
  <1>3. order \in Injection(1 .. n, S)
    BY <1>2 DEF Injection, IsInjective
  <1>4. Cardinality(1 .. n) = n
    BY <1>1, FS_Interval
  <1> HIDE DEF n
  <1>5. Cardinality(1 .. n) = Cardinality(S)
    BY <1>4 DEF n
  <1>6. order \in Surjection(1 .. n, S)
    BY <1>3, <1>5, FS_Injection
  <1>7. \A x \in S : \E i \in 1 .. n : order[i] = x
    BY <1>6 DEF Surjection
  <1>8. Len(order) = n
    BY <1>1, <1>2
  <1> QED BY <1>1, <1>2, <1>7, <1>8

\* The search for one key can follow any order that explains the history: of
\* what remains, the first one in the order was invoked before anything that
\* remains completed.
LEMMA OrderIsFound ==
    ASSUME NEW h, WellFormed(h), NEW key \in Keys, NEW order \in SetToSeqs(Completed(h)),
           \A m, n \in DOMAIN order : m < n => ~HappensBefore(h, order[n], order[m]),
           \A r \in Completions(h) : \E n \in DOMAIN order :
               /\ order[n] = h[r].id
               /\ h[r] = record_response(h[r].id,
                             reply_to(Replay(h, order)[n - 1], OpOf(h, h[r].id)))
    PROVE  try_linearize(KeyOps(h, key))
  <1> DEFINE N == Len(order)
             ops == KeyOps(h, key)
             st == Replay(h, order)
  <1>1. /\ N \in Nat
        /\ DOMAIN order = 1 .. N
        /\ \A i \in 1 .. N : order[i] \in Completed(h)
        /\ \A i, j \in 1 .. N : order[i] = order[j] => i = j
        /\ \A x \in Completed(h) : \E i \in 1 .. N : order[i] = x
    BY OrderOf, CompletedFinite
  <1>2. \A x \in Completed(h) : \E lop \in LinearOps(h) : lop.id = x
    <2>1. SUFFICES ASSUME NEW r \in Completions(h)
                   PROVE  \E lop \in LinearOps(h) : lop.id = h[r].id
      BY DEF Completed
    <2>2. OpAt(h, r) \in LinearOps(h) /\ OpAt(h, r).id = h[r].id
      BY OpsAreOps, OpAtIsOp DEF IsOp
    <2> QED BY <2>2
  <1>3. \A lop \in LinearOps(h) : IsOp(h, lop)
    BY OpsAreOps
  <1>4. \A i \in 1 .. N : OpOf(h, order[i]) \in KVOp
    <2>1. TAKE i \in 1 .. N
    <2>2. PICK lop \in LinearOps(h) : lop.id = order[i]
      BY <1>1, <1>2
    <2> QED BY <1>3, <2>2 DEF IsOp
  <1>5. /\ st \in [0 .. N -> Stores]
        /\ st[0] = EmptyStore
        /\ \A i \in 1 .. N : st[i] = apply_op(st[i - 1], OpOf(h, order[i]))
    BY <1>1, <1>4, ReplayStores
  <1>6. \A lop \in ops : lop.op \in KVOp /\ IsOp(h, lop) /\ lop.op.key = key
    BY <1>3 DEF IsOp, KeyOps
  <1>7. PICK f : Equation(ops, f) /\ try_linearize(ops) = f[FirstCall(ops)]
    BY <1>6, SearchIsEquation
  <1> DEFINE R(p) == {lop \in ops : \E n \in 1 .. N : n > p /\ order[n] = lop.id}
             Call(p, m, d) == [remaining |-> R(p), model |-> m, depth |-> d]
             Found(p) == \A m \in Stores, d \in Nat :
                             m[key] = st[p][key] => f[Call(p, m, d)]
             G == {k \in Nat : \A p \in 0 .. N : N - p <= k => Found(p)}
  <1>8. \A p \in 0 .. N, m \in Stores, d \in Nat : Call(p, m, d) \in Calls(ops)
    BY DEF Calls
  <1>9. Found(N)
    <2>1. R(N) = {}
      BY <1>1
    <2>2. ASSUME NEW m \in Stores, NEW d \in Nat
          PROVE  f[Call(N, m, d)]
      <3>1. Call(N, m, d) \in Calls(ops) /\ Call(N, m, d).remaining = {}
        BY <1>1, <1>8, <2>1
      <3> HIDE DEF Call, ops
      <3> QED BY <1>7, <3>1, SearchStep
    <2> QED BY <2>2
  <1>10. ASSUME NEW p \in 0 .. N, p # N, Found(p + 1)
         PROVE  Found(p)
    <2>1. p + 1 \in 1 .. N /\ p + 1 \in 0 .. N /\ (p + 1) - 1 = p /\ p \in Nat
      BY <1>1, <1>10
    <2>2. PICK lop \in LinearOps(h) : lop.id = order[p + 1]
      BY <1>1, <1>2, <2>1
    <2>3. /\ IsOp(h, lop) /\ lop.op \in KVOp
          /\ OpOf(h, order[p + 1]) = lop.op
          /\ st[p] \in Stores
          /\ st[p + 1] = apply_op(st[p], lop.op)
      BY <1>3, <1>5, <2>1, <2>2 DEF IsOp
    <2>4. CASE lop.op.key # key
      <3>1. R(p) = R(p + 1)
        <4>1. ASSUME NEW x \in ops, NEW n \in 1 .. N, n > p, order[n] = x.id
              PROVE  n > p + 1
          <5>1. x # lop
            BY <1>6, <2>4
          <5>2. x \in LinearOps(h)
            BY DEF KeyOps
          <5>3. n # p + 1
            BY <2>2, <4>1, <5>1, <5>2, OpsById
          <5> QED BY <1>1, <2>1, <4>1, <5>3
        <4>2. \A n \in 1 .. N : n > p + 1 => n > p
          BY <2>1
        <4> QED BY <4>1, <4>2
      <3>2. st[p + 1][key] = st[p][key]
        BY <2>3, <2>4, OtherKeys
      <3> HIDE DEF R
      <3> QED BY <1>10, <3>1, <3>2
    <2>5. CASE lop.op.key = key
      <3>1. lop \in ops
        BY <2>5 DEF KeyOps
      <3>2. lop \in R(p) /\ lop \notin R(p + 1)
        <4>1. p + 1 > p
          BY <2>1
        <4>2. lop \in R(p)
          BY <2>1, <2>2, <3>1, <4>1
        <4>3. ASSUME NEW n \in 1 .. N, n > p + 1, order[n] = lop.id
              PROVE  FALSE
          BY <1>1, <2>1, <2>2, <4>3
        <4> QED BY <4>2, <4>3
      <3>3. R(p) \ {lop} = R(p + 1)
        <4>1. ASSUME NEW x \in ops, x # lop, NEW n \in 1 .. N, n > p, order[n] = x.id
              PROVE  n > p + 1
          <5>1. x \in LinearOps(h)
            BY DEF KeyOps
          <5>2. n # p + 1
            BY <2>2, <4>1, <5>1, OpsById
          <5> QED BY <1>1, <2>1, <4>1, <5>2
        <4>2. \A n \in 1 .. N : n > p + 1 => n > p
          BY <2>1
        <4> QED BY <3>2, <4>1, <4>2
      <3>4. lop.invoke_time <= min_complete(R(p))
        <4>1. \A x \in R(p) : x.complete_time \in Nat
          BY <1>6, EntryTypes DEF IsOp, Completions
        <4>2. PICK x \in R(p) : min_complete(R(p)) = x.complete_time
          BY <3>2, <4>1, MinComplete
        <4>3. x \in ops /\ IsOp(h, x)
          BY <1>6
        <4>4. PICK n \in 1 .. N : n > p /\ order[n] = x.id
          BY <4>2
        <4>5. lop.invoke_time \in Nat
          BY <2>3, EntryTypes DEF IsOp
        <4>6. CASE x = lop
          <5>1. lop.invoke_time < lop.complete_time
            BY <2>3 DEF IsOp
          <5> QED BY <4>1, <4>2, <4>5, <4>6, <5>1
        <4>7. CASE x # lop
          <5>1. n # p + 1
            <6>1. x \in LinearOps(h)
              BY <4>3 DEF KeyOps
            <6> QED BY <2>2, <4>4, <4>7, <6>1, OpsById
          <5>2. p + 1 < n
            BY <1>1, <2>1, <4>4, <5>1
          <5>3. ~HappensBefore(h, order[n], order[p + 1])
            BY <1>1, <2>1, <5>2
          <5>4. ~(x.complete_time < lop.invoke_time)
            BY <2>2, <2>3, <4>3, <4>4, <5>3 DEF HappensBefore, IsOp
          <5> QED BY <4>1, <4>2, <4>5, <5>4
        <4> QED BY <4>6, <4>7
      <3>5. matches(st[p], lop)
        <4>1. lop.complete_time \in Completions(h) /\ h[lop.complete_time].id = lop.id
              /\ OpOf(h, lop.id) = lop.op
          BY <2>3 DEF IsOp
        <4>2. PICK n \in DOMAIN order :
                 /\ order[n] = lop.id
                 /\ h[lop.complete_time] =
                       record_response(lop.id, reply_to(st[n - 1], lop.op))
          BY <4>1
        <4>3. n = p + 1
          BY <1>1, <2>1, <2>2, <4>2
        <4>4. h[lop.complete_time] = record_response(lop.id, reply_to(st[p], lop.op))
          BY <2>1, <4>2, <4>3
        <4> QED BY <2>3, <4>4, MatchesIsReply
      <3>6. new_model(st[p], lop) = st[p + 1]
        BY <2>3, <3>5, MatchesIsReply
      <3>7. ASSUME NEW m \in Stores, NEW d \in Nat, m[key] = st[p][key]
            PROVE  f[Call(p, m, d)]
        <4>1. /\ matches(m, lop)
              /\ new_model(m, lop)[key] = st[p + 1][key]
              /\ new_model(m, lop) \in Stores
          BY <2>3, <2>5, <3>5, <3>6, <3>7, OneKey, NewModelType
        <4>2. After(Call(p, m, d), lop) = Call(p + 1, new_model(m, lop), d + 1)
          BY <3>3 DEF After
        <4>3. f[Call(p + 1, new_model(m, lop), d + 1)]
          BY <1>10, <4>1
        <4>4. /\ Call(p, m, d).remaining = R(p)
              /\ Call(p, m, d).model = m
              /\ Call(p, m, d) \in Calls(ops)
          BY <1>8
        <4> HIDE DEF Call, R, ops
        <4> QED BY <1>7, <3>2, <3>4, <4>1, <4>2, <4>3, <4>4, SearchStep
      <3> QED BY <3>7
    <2> QED BY <2>4, <2>5
  <1> HIDE DEF Found
  <1>11. 0 \in G
    <2>1. ASSUME NEW p \in 0 .. N, N - p <= 0
          PROVE  Found(p)
      <3>1. p = N
        <4>1. N \in Nat /\ p \in 0 .. N /\ N - p <= 0
          BY <1>1, <2>1
        <4> HIDE DEF N
        <4> QED BY <4>1
      <3> QED BY <1>9, <3>1
    <2> QED BY <2>1
  <1>12. ASSUME NEW k \in Nat, k \in G
         PROVE  k + 1 \in G
    <2>1. ASSUME NEW p \in 0 .. N, N - p <= k + 1
          PROVE  Found(p)
      <3>1. CASE p = N
        BY <1>9, <3>1
      <3>2. CASE p # N
        <4>1. p + 1 \in 0 .. N /\ N - (p + 1) <= k
          <5>1. N \in Nat /\ p \in 0 .. N /\ N - p <= k + 1 /\ p # N
            BY <1>1, <2>1, <3>2
          <5> HIDE DEF N
          <5> QED BY <5>1
        <4>2. Found(p + 1)
          BY <1>12, <4>1
        <4> QED BY <1>10, <3>2, <4>2
      <3> QED BY <3>1, <3>2
    <2> QED BY <2>1
  <1> HIDE DEF G
  <1>13. Nat \subseteq G
    BY <1>11, <1>12, SetInduction
  <1>14. Found(0)
    <2>1. N \in G /\ 0 \in 0 .. N /\ N - 0 <= N
      BY <1>1, <1>13
    <2> QED BY <2>1 DEF G
  <1>15. R(0) = ops
    <2>1. ASSUME NEW lop \in ops
          PROVE  \E n \in 1 .. N : n > 0 /\ order[n] = lop.id
      <3>1. lop.id \in Completed(h)
        BY <1>6 DEF IsOp, Completed
      <3>2. PICK n \in 1 .. N : order[n] = lop.id
        BY <1>1, <3>1
      <3> QED BY <1>1, <3>2
    <2> QED BY <2>1
  <1>16. f[Call(0, EmptyStore, 0)]
    <2>1. EmptyStore \in Stores /\ EmptyStore[key] = st[0][key]
      BY <1>5 DEF Stores, EmptyStore
    <2> HIDE DEF Call
    <2> QED BY <1>14, <2>1 DEF Found
  <1>17. Call(0, EmptyStore, 0) = FirstCall(ops)
    BY <1>15 DEF FirstCall
  <1> HIDE DEF Call, ops
  <1> QED BY <1>7, <1>16, <1>17 DEF ops

LEMMA LinearizablePasses ==
    ASSUME NEW h, WellFormed(h), Unanswered(h) = {}, Linearizable(h)
    PROVE  check_linearizability(h)
  <1>1. PICK order \in SetToSeqs(Completed(h)) :
           /\ \A m, n \in DOMAIN order : m < n => ~HappensBefore(h, order[n], order[m])
           /\ \A r \in Completions(h) : \E n \in DOMAIN order :
                 /\ order[n] = h[r].id
                 /\ h[r] = record_response(h[r].id,
                               reply_to(Replay(h, order)[n - 1], OpOf(h, h[r].id)))
    <2>1. PICK pending \in SUBSET Unanswered(h) :
             \E order \in SetToSeqs(Completed(h) \cup pending) :
                /\ \A m, n \in DOMAIN order :
                      m < n => ~HappensBefore(h, order[n], order[m])
                /\ \A r \in Completions(h) : \E n \in DOMAIN order :
                      /\ order[n] = h[r].id
                      /\ h[r] = record_response(h[r].id,
                                    reply_to(Replay(h, order)[n - 1], OpOf(h, h[r].id)))
      BY DEF Linearizable
    <2>2. Completed(h) \cup pending = Completed(h)
      OBVIOUS
    <2> QED BY <2>1, <2>2
  <1>2. ASSUME NEW lop \in LinearOps(h)
        PROVE  try_linearize(KeyOps(h, lop.op.key))
    <2>1. lop.op.key \in Keys
      BY OpsAreOps DEF IsOp, KVOp, OpsOver
    <2> QED BY <1>1, <2>1, OrderIsFound
  <1> QED BY <1>2 DEF check_linearizability, KeyOps

------------------------------------------------------------------------------
(* A history that passes is linearizable.                                   *)

LEMMA OpsFinite ==
    ASSUME NEW h, WellFormed(h)
    PROVE  /\ IsFiniteSet(LinearOps(h))
           /\ Cardinality(LinearOps(h)) <= Len(h)
           /\ \A key : /\ IsFiniteSet(KeyOps(h, key))
                       /\ Cardinality(KeyOps(h, key)) \in Nat
                       /\ Cardinality(KeyOps(h, key)) <= Len(h)
  <1>1. LinearOps(h) = {OpAt(h, r) : r \in Completions(h)}
    BY OpsAreOps
  <1> DEFINE f == [r \in Completions(h) |-> OpAt(h, r)]
  <1>2. f \in Surjection(Completions(h), LinearOps(h))
    BY <1>1 DEF Surjection
  <1> HIDE DEF f
  <1>3. IsFiniteSet(Completions(h))
    BY CompletedFinite
  <1>4. IsFiniteSet(LinearOps(h)) /\ Cardinality(LinearOps(h)) <= Cardinality(Completions(h))
    BY <1>2, <1>3, FS_Surjection
  <1>5. Len(h) \in Nat /\ Completions(h) \in SUBSET (1 .. Len(h))
    BY DEF WellFormed, Completions
  <1>6. IsFiniteSet(1 .. Len(h)) /\ Cardinality(1 .. Len(h)) = Len(h)
    <2>1. PICK n \in Nat : n = Len(h)
      BY <1>5
    <2>2. IsFiniteSet(1 .. n) /\ Cardinality(1 .. n) = n
      BY FS_Interval
    <2> QED BY <2>1, <2>2
  <1>7. Cardinality(Completions(h)) <= Len(h)
    BY <1>5, <1>6, FS_Subset
  <1>8. Cardinality(LinearOps(h)) \in Nat /\ Cardinality(Completions(h)) \in Nat
    BY <1>3, <1>4, FS_CardinalityType
  <1>9. Cardinality(LinearOps(h)) <= Len(h)
    BY <1>4, <1>5, <1>7, <1>8
  <1>10. ASSUME NEW key
         PROVE  /\ IsFiniteSet(KeyOps(h, key))
                /\ Cardinality(KeyOps(h, key)) \in Nat
                /\ Cardinality(KeyOps(h, key)) <= Len(h)
    <2>1. KeyOps(h, key) \in SUBSET LinearOps(h)
      BY DEF KeyOps
    <2>2. /\ IsFiniteSet(KeyOps(h, key))
          /\ Cardinality(KeyOps(h, key)) <= Cardinality(LinearOps(h))
      BY <1>4, <2>1, FS_Subset
    <2>3. Cardinality(KeyOps(h, key)) \in Nat
      BY <2>2, FS_CardinalityType
    <2> QED BY <1>5, <1>8, <1>9, <2>2, <2>3
  <1> QED BY <1>4, <1>9, <1>10

\* An order of the operations on one key, with the models between them, that
\* explains the answers and never waits for what was invoked too late.
KeyOrder(h, key, n, os, ms) ==
    /\ n \in Nat
    /\ os \in [1 .. n -> KeyOps(h, key)]
    /\ ms \in [0 .. n -> Stores]
    /\ ms[0] = EmptyStore
    /\ \A i \in 1 .. n : matches(ms[i - 1], os[i]) /\ ms[i] = new_model(ms[i - 1], os[i])
    /\ \A i, j \in 1 .. n : os[i] = os[j] => i = j
    /\ \A lop \in KeyOps(h, key) : \E i \in 1 .. n : os[i] = lop
    /\ \A i, j \in 1 .. n : i <= j => os[i].invoke_time <= os[j].complete_time

LEMMA RunIsKeyOrder ==
    ASSUME NEW h, WellFormed(h), NEW key \in Keys,
           Succeeds(FirstCall(KeyOps(h, key))),
           Cardinality(KeyOps(h, key)) <= MaxDepth + 1
    PROVE  \E n, os, ms : KeyOrder(h, key, n, os, ms)
  <1> DEFINE ops == KeyOps(h, key)
  <1>1. PICK n, os, ms : Run(FirstCall(ops), n, os, ms)
    BY DEF Succeeds
  <1>2. /\ n \in Nat
        /\ os \in [1 .. n -> ops]
        /\ ms \in [0 .. n -> Stores]
        /\ ms[0] = EmptyStore
        /\ \A i \in 1 .. n : Chosen(ops, os, ms, i)
        /\ Rest(ops, os, n + 1) = {} \/ 0 + n > MaxDepth
    BY <1>1 DEF Run, FirstCall
  <1>3. \A i \in 1 .. n : matches(ms[i - 1], os[i]) /\ ms[i] = new_model(ms[i - 1], os[i])
    BY <1>2 DEF Chosen
  <1>4. ASSUME NEW i \in 1 .. n, NEW j \in 1 .. n, i < j
        PROVE  os[i] # os[j]
    <2>1. i \in 1 .. (j - 1)
      BY <1>2, <1>4
    <2> QED BY <1>2, <2>1 DEF Chosen, Rest
  <1>5. \A i, j \in 1 .. n : os[i] = os[j] => i = j
    BY <1>2, <1>4
  <1>6. \A lop \in ops : lop.complete_time \in Nat /\ lop.invoke_time \in Nat
    BY OpsAreOps, EntryTypes DEF KeyOps, IsOp, Completions
  <1>7. ASSUME NEW i \in 1 .. n, NEW j \in 1 .. n, i <= j
        PROVE  os[i].invoke_time <= os[j].complete_time
    <2> DEFINE S == Rest(ops, os, i)
    <2>1. \A k \in 1 .. (i - 1) : k \in 1 .. n /\ k < j
      BY <1>2, <1>7
    <2>2. os[j] \in S
      BY <1>2, <1>4, <2>1 DEF Rest
    <2>3. os[i].invoke_time <= min_complete(S)
      BY <1>2 DEF Chosen
    <2>4. \A x \in S : x.complete_time \in Nat
      BY <1>6 DEF Rest
    <2>5. /\ \E x \in S : min_complete(S) = x.complete_time
          /\ min_complete(S) <= os[j].complete_time
      BY <2>2, <2>4, MinComplete
    <2>6. min_complete(S) \in Nat
      BY <2>4, <2>5
    <2>7. os[i].invoke_time \in Nat /\ os[j].complete_time \in Nat
      BY <1>2, <1>6
    <2> QED BY <2>3, <2>5, <2>6, <2>7
  <1>8. \A lop \in ops : \E i \in 1 .. n : os[i] = lop
    <2>1. CASE Rest(ops, os, n + 1) = {}
      BY <1>2, <2>1 DEF Rest
    <2>2. CASE n > MaxDepth
      <3>1. /\ IsFiniteSet(ops)
            /\ Cardinality(ops) \in Nat
        BY OpsFinite
      <3>2. os \in Injection(1 .. n, ops)
        BY <1>2, <1>5 DEF Injection, IsInjective
      <3>3. IsFiniteSet(1 .. n) /\ Cardinality(1 .. n) = n
        BY <1>2, FS_Interval
      <3> HIDE DEF ops
      <3>4. /\ Cardinality(1 .. n) <= Cardinality(ops)
            /\ Cardinality(1 .. n) = Cardinality(ops) <=> os \in Surjection(1 .. n, ops)
        BY <3>1, <3>2, FS_Injection
      <3>5. Cardinality(ops) <= MaxDepth + 1
        BY DEF ops
      <3>6. Cardinality(1 .. n) = Cardinality(ops)
        BY <1>2, <2>2, <3>1, <3>3, <3>4, <3>5, CheckerAssumption
      <3>7. os \in Surjection(1 .. n, ops)
        BY <3>4, <3>6
      <3> QED BY <3>7 DEF Surjection
    <2> QED BY <1>2, <2>1, <2>2
  <1> HIDE DEF ops
  <1>9. KeyOrder(h, key, n, os, ms)
    BY <1>2, <1>3, <1>5, <1>7, <1>8 DEF KeyOrder, ops
  <1> QED BY <1>9

\* Every key has such an order when the checker passes.
LEMMA KeyOrders ==
    ASSUME NEW h, WellFormed(h), check_linearizability(h),
           \A key \in Keys : Cardinality(KeyOps(h, key)) <= MaxDepth + 1
    PROVE  \E n, os, ms : \A key \in Keys :
               KeyOrder(h, key, n[key], os[key], ms[key])
  <1>1. ASSUME NEW key \in Keys
        PROVE  \E n, os, ms : KeyOrder(h, key, n, os, ms)
    <2> DEFINE ops == KeyOps(h, key)
    <2>1. \A lop \in ops : lop.op \in KVOp
      BY OpsAreOps DEF KeyOps, IsOp
    <2>2. CASE ops = {}
      <3>1. FirstCall(ops) \in Calls(ops) /\ FirstCall(ops).remaining = {}
        BY <2>2, FirstCallType DEF FirstCall
      <3> HIDE DEF ops
      <3>2. Succeeds(FirstCall(ops))
        BY <3>1, SucceedsAtOnce
      <3> QED BY <3>2, RunIsKeyOrder DEF ops
    <2>3. CASE ops # {}
      <3>1. try_linearize(ops)
        BY <2>3 DEF check_linearizability, KeyOps
      <3>2. PICK f : Equation(ops, f) /\ try_linearize(ops) = f[FirstCall(ops)]
        BY <2>1, SearchIsEquation
      <3>3. f[FirstCall(ops)] /\ FirstCall(ops) \in Calls(ops)
        BY <3>1, <3>2, FirstCallType
      <3> HIDE DEF ops
      <3>4. Succeeds(FirstCall(ops))
        BY <2>1, <3>2, <3>3, SolutionsAreRuns
      <3> QED BY <3>4, RunIsKeyOrder DEF ops
    <2> QED BY <2>2, <2>3
  <1> DEFINE T(key) == CHOOSE t : KeyOrder(h, key, t[1], t[2], t[3])
  <1>2. ASSUME NEW key \in Keys
        PROVE  KeyOrder(h, key, T(key)[1], T(key)[2], T(key)[3])
    <2>1. PICK n, os, ms : KeyOrder(h, key, n, os, ms)
      BY <1>1
    <2>2. KeyOrder(h, key, <<n, os, ms>>[1], <<n, os, ms>>[2], <<n, os, ms>>[3])
      BY <2>1
    <2>3. \E t : KeyOrder(h, key, t[1], t[2], t[3])
      BY <2>2
    <2> QED BY <2>3
  <1> HIDE DEF T
  <1> DEFINE N == [key \in Keys |-> T(key)[1]]
             O == [key \in Keys |-> T(key)[2]]
             M == [key \in Keys |-> T(key)[3]]
  <1>3. ASSUME NEW key \in Keys
        PROVE  KeyOrder(h, key, N[key], O[key], M[key])
    <2>1. N[key] = T(key)[1] /\ O[key] = T(key)[2] /\ M[key] = T(key)[3]
      OBVIOUS
    <2> QED BY <1>2, <2>1
  <1> HIDE DEF N, O, M
  <1> QED BY <1>3

\* Finitely many elements in a strict total order can be listed in it.
StrictOrder(U, R) ==
    /\ \A a \in U : <<a, a>> \notin R
    /\ \A a, b \in U : a # b => <<a, b>> \in R \/ <<b, a>> \in R
    /\ \A a, b, c \in U : <<a, b>> \in R /\ <<b, c>> \in R => <<a, c>> \in R

LEMMA LastExists ==
    ASSUME NEW U, NEW R, StrictOrder(U, R),
           NEW S \in SUBSET U, IsFiniteSet(S), S # {}
    PROVE  \E x \in S : \A y \in S \ {x} : <<y, x>> \in R
  <1> DEFINE G == {k \in Nat : \A X \in SUBSET U :
                      IsFiniteSet(X) /\ Cardinality(X) = k /\ X # {}
                      => \E x \in X : \A y \in X \ {x} : <<y, x>> \in R}
  <1>1. 0 \in G
    BY FS_EmptySet
  <1>2. ASSUME NEW k \in Nat, k \in G
        PROVE  k + 1 \in G
    <2>1. SUFFICES ASSUME NEW X \in SUBSET U, IsFiniteSet(X),
                          Cardinality(X) = k + 1, X # {}
                   PROVE  \E x \in X : \A y \in X \ {x} : <<y, x>> \in R
      OBVIOUS
    <2>2. PICK a \in X : TRUE
      BY <2>1
    <2> DEFINE X1 == X \ {a}
    <2>3. X1 \in SUBSET U /\ IsFiniteSet(X1) /\ Cardinality(X1) = k
      <3>1. IsFiniteSet(X1) /\ Cardinality(X1) = Cardinality(X) - 1
        BY <2>1, <2>2, FS_RemoveElement
      <3> QED BY <2>1, <3>1
    <2>4. CASE X1 = {}
      BY <2>2, <2>4
    <2>5. CASE X1 # {}
      <3>1. PICK b \in X1 : \A y \in X1 \ {b} : <<y, b>> \in R
        BY <1>2, <2>3, <2>5
      <3>2. a \in U /\ b \in U /\ a # b /\ X \subseteq U
        BY <2>1, <2>2, <3>1
      <3>3. CASE <<a, b>> \in R
        BY <3>1, <3>3
      <3>4. CASE <<b, a>> \in R
        <4>1. ASSUME NEW y \in X \ {a}
              PROVE  <<y, a>> \in R
          <5>1. y = b \/ <<y, b>> \in R
            BY <3>1
          <5> QED BY <3>2, <3>4, <5>1 DEF StrictOrder
        <4> QED BY <2>2, <4>1
      <3> QED BY <3>2, <3>3, <3>4 DEF StrictOrder
    <2> QED BY <2>4, <2>5
  <1> HIDE DEF G
  <1>3. Cardinality(S) \in Nat
    BY FS_CardinalityType
  <1>4. Cardinality(S) \in G
    BY <1>1, <1>2, <1>3, SetInduction
  <1> QED BY <1>4 DEF G

Listed(S, n, s, R) ==
    /\ s \in [1 .. n -> S]
    /\ \A x \in S : \E i \in 1 .. n : s[i] = x
    /\ \A i, j \in 1 .. n : i < j => <<s[i], s[j]>> \in R

LEMMA ListExists ==
    ASSUME NEW U, NEW R, StrictOrder(U, R), NEW S \in SUBSET U, IsFiniteSet(S)
    PROVE  Cardinality(S) \in Nat /\ \E s : Listed(S, Cardinality(S), s, R)
  <1> DEFINE G == {k \in Nat : \A X \in SUBSET U :
                      IsFiniteSet(X) /\ Cardinality(X) = k => \E s : Listed(X, k, s, R)}
  <1>1. 0 \in G
    <2>1. ASSUME NEW X \in SUBSET U, IsFiniteSet(X), Cardinality(X) = 0
          PROVE  \E s : Listed(X, 0, s, R)
      <3>1. X = {}
        BY <2>1, FS_EmptySet
      <3> DEFINE s == [i \in 1 .. 0 |-> i]
      <3>2. s \in [1 .. 0 -> X]
        OBVIOUS
      <3> HIDE DEF s
      <3>3. Listed(X, 0, s, R)
        BY <3>1, <3>2 DEF Listed
      <3> QED BY <3>3
    <2> QED BY <2>1
  <1>2. ASSUME NEW k \in Nat, k \in G
        PROVE  k + 1 \in G
    <2>1. ASSUME NEW X \in SUBSET U, IsFiniteSet(X), Cardinality(X) = k + 1
          PROVE  \E s : Listed(X, k + 1, s, R)
      <3>1. X # {}
        BY <2>1, FS_EmptySet
      <3>2. PICK a \in X : \A y \in X \ {a} : <<y, a>> \in R
        BY <2>1, <3>1, LastExists
      <3> DEFINE X1 == X \ {a}
      <3>3. X1 \in SUBSET U /\ IsFiniteSet(X1) /\ Cardinality(X1) = k
        <4>1. IsFiniteSet(X1) /\ Cardinality(X1) = Cardinality(X) - 1
          BY <2>1, <3>2, FS_RemoveElement
        <4> QED BY <2>1, <4>1
      <3>4. PICK s : Listed(X1, k, s, R)
        BY <1>2, <3>3
      <3> DEFINE t == [i \in 1 .. (k + 1) |-> IF i = k + 1 THEN a ELSE s[i]]
      <3>5. t \in [1 .. (k + 1) -> X]
        BY <3>2, <3>4 DEF Listed
      <3>6. \A x \in X : \E i \in 1 .. (k + 1) : t[i] = x
        <4>1. TAKE x \in X
        <4>2. CASE x = a
          <5>1. k + 1 \in 1 .. (k + 1) /\ t[k + 1] = a
            OBVIOUS
          <5> QED BY <4>2, <5>1
        <4>3. CASE x # a
          <5>1. PICK i \in 1 .. k : s[i] = x
            BY <3>4, <4>3 DEF Listed
          <5>2. i \in 1 .. (k + 1) /\ t[i] = s[i]
            OBVIOUS
          <5> QED BY <5>1, <5>2
        <4> QED BY <4>2, <4>3
      <3>7. ASSUME NEW i \in 1 .. (k + 1), NEW j \in 1 .. (k + 1), i < j
            PROVE  <<t[i], t[j]>> \in R
        <4>1. i \in 1 .. k /\ t[i] = s[i] /\ s[i] \in X1
          BY <3>4, <3>7 DEF Listed
        <4>2. CASE j = k + 1
          BY <3>2, <4>1, <4>2
        <4>3. CASE j # k + 1
          <5>1. j \in 1 .. k /\ t[j] = s[j]
            BY <4>3
          <5> QED BY <3>4, <3>7, <4>1, <5>1 DEF Listed
        <4> QED BY <4>2, <4>3
      <3> HIDE DEF t
      <3>8. Listed(X, k + 1, t, R)
        BY <3>5, <3>6, <3>7 DEF Listed
      <3> QED BY <3>8
    <2> QED BY <2>1
  <1> HIDE DEF G
  <1>3. Cardinality(S) \in Nat
    BY FS_CardinalityType
  <1>4. Cardinality(S) \in G
    BY <1>1, <1>2, <1>3, SetInduction
  <1> QED BY <1>3, <1>4 DEF G

\* The instants of effect: of an operation, the latest invocation up to it in
\* the order of its key.
Instants(h, n, os, pos, time) ==
    \A lop \in LinearOps(h) :
        LET key == lop.op.key
        IN  /\ key \in Keys
            /\ pos[lop] \in 1 .. n[key]
            /\ os[key][pos[lop]] = lop
            /\ time[lop] \in Nat
            /\ \E i \in 1 .. pos[lop] : time[lop] = os[key][i].invoke_time
            /\ \A i \in 1 .. pos[lop] : os[key][i].invoke_time <= time[lop]

LEMMA LargestNatural ==
    ASSUME NEW T, T \subseteq Nat, T # {}, NEW n \in Nat, \A x \in T : x <= n
    PROVE  \E x \in T : \A y \in T : y <= x
  <1> DEFINE D == {n - x : x \in T}
  <1>1. D \subseteq Nat /\ D # {}
    <2>1. \A x \in T : n - x \in Nat
      OBVIOUS
    <2>2. PICK x \in T : TRUE
      OBVIOUS
    <2> QED BY <2>1, <2>2
  <1>2. PICK d \in D : \A e \in D : d <= e
    BY <1>1, LeastNatural
  <1>3. PICK x \in T : d = n - x
    BY <1>2
  <1>4. ASSUME NEW y \in T
        PROVE  y <= x
    <2>1. n - x <= n - y
      BY <1>2, <1>3
    <2> QED BY <2>1
  <1> QED BY <1>4

LEMMA InstantsExist ==
    ASSUME NEW h, WellFormed(h), NEW n, NEW os, NEW ms,
           \A key \in Keys : KeyOrder(h, key, n[key], os[key], ms[key])
    PROVE  \E pos, time : Instants(h, n, os, pos, time)
  <1> DEFINE L == LinearOps(h)
             pos == [lop \in L |-> CHOOSE i \in 1 .. n[lop.op.key] : os[lop.op.key][i] = lop]
             T(lop) == {os[lop.op.key][i].invoke_time : i \in 1 .. pos[lop]}
             time == [lop \in L |-> CHOOSE t \in T(lop) : \A u \in T(lop) : u <= t]
  <1>1. ASSUME NEW lop \in L
        PROVE  /\ lop.op.key \in Keys
               /\ pos[lop] \in 1 .. n[lop.op.key]
               /\ os[lop.op.key][pos[lop]] = lop
               /\ n[lop.op.key] \in Nat
    <2>1. lop.op.key \in Keys
      BY OpsAreOps DEF IsOp, KVOp, OpsOver
    <2>2. lop \in KeyOps(h, lop.op.key)
      BY DEF KeyOps
    <2>3. \E i \in 1 .. n[lop.op.key] : os[lop.op.key][i] = lop
      BY <2>1, <2>2 DEF KeyOrder
    <2>4. n[lop.op.key] \in Nat
      BY <2>1 DEF KeyOrder
    <2> QED BY <2>1, <2>3, <2>4
  <1> HIDE DEF pos
  <1>2. ASSUME NEW lop \in L
        PROVE  time[lop] \in T(lop) /\ T(lop) \subseteq Nat /\ \A u \in T(lop) : u <= time[lop]
    <2>1. ASSUME NEW i \in 1 .. pos[lop]
          PROVE  /\ os[lop.op.key][i].invoke_time \in Nat
                 /\ os[lop.op.key][i].invoke_time <= Len(h)
      <3>1. i \in 1 .. n[lop.op.key]
        BY <1>1
      <3>2. os[lop.op.key][i] \in LinearOps(h)
        <4>1. os[lop.op.key] \in [1 .. n[lop.op.key] -> KeyOps(h, lop.op.key)]
          BY <1>1 DEF KeyOrder
        <4>2. os[lop.op.key][i] \in KeyOps(h, lop.op.key)
          BY <3>1, <4>1
        <4> QED BY <4>2 DEF KeyOps
      <3> QED BY <3>2, OpsAreOps, EntryTypes DEF IsOp
    <2>2. T(lop) \subseteq Nat /\ \A u \in T(lop) : u <= Len(h)
      BY <2>1
    <2>3. T(lop) # {}
      <3>1. pos[lop] \in 1 .. pos[lop]
        BY <1>1
      <3> QED BY <3>1
    <2>4. Len(h) \in Nat
      BY DEF WellFormed
    <2> HIDE DEF T
    <2>5. \E t \in T(lop) : \A u \in T(lop) : u <= t
      BY <2>2, <2>3, <2>4, LargestNatural
    <2> QED BY <2>2, <2>5
  <1> HIDE DEF time
  <1>3. Instants(h, n, os, pos, time)
    BY <1>1, <1>2 DEF Instants
  <1> QED BY <1>3

\* An instant lies in the interval of its operation, instants follow the order
\* of each key, and at one instant only operations on one key take effect.
LEMMA InstantFacts ==
    ASSUME NEW h, WellFormed(h), NEW n, NEW os, NEW ms,
           \A key \in Keys : KeyOrder(h, key, n[key], os[key], ms[key]),
           NEW pos, NEW time, Instants(h, n, os, pos, time)
    PROVE  /\ \A a \in LinearOps(h) :
                  a.invoke_time <= time[a] /\ time[a] <= a.complete_time
           /\ \A a, b \in LinearOps(h) : a.op.key = b.op.key =>
                  /\ pos[a] <= pos[b] => time[a] <= time[b]
                  /\ pos[a] = pos[b] => a = b
           /\ \A a, b \in LinearOps(h) : time[a] = time[b] => a.op.key = b.op.key
  <1>1. ASSUME NEW a \in LinearOps(h)
        PROVE  /\ a.op.key \in Keys
               /\ KeyOrder(h, a.op.key, n[a.op.key], os[a.op.key], ms[a.op.key])
               /\ pos[a] \in 1 .. n[a.op.key]
               /\ n[a.op.key] \in Nat
               /\ os[a.op.key][pos[a]] = a
               /\ time[a] \in Nat
               /\ \E i \in 1 .. pos[a] : time[a] = os[a.op.key][i].invoke_time
               /\ \A i \in 1 .. pos[a] : os[a.op.key][i].invoke_time <= time[a]
    <2>1. /\ a.op.key \in Keys
          /\ pos[a] \in 1 .. n[a.op.key]
          /\ os[a.op.key][pos[a]] = a
          /\ time[a] \in Nat
          /\ \E i \in 1 .. pos[a] : time[a] = os[a.op.key][i].invoke_time
          /\ \A i \in 1 .. pos[a] : os[a.op.key][i].invoke_time <= time[a]
      BY DEF Instants
    <2>2. KeyOrder(h, a.op.key, n[a.op.key], os[a.op.key], ms[a.op.key])
      BY <2>1
    <2>3. n[a.op.key] \in Nat
      BY <2>2 DEF KeyOrder
    <2> QED BY <2>1, <2>2, <2>3
  <1>2. \A key \in Keys : \A i \in 1 .. n[key] : os[key][i] \in KeyOps(h, key)
    BY DEF KeyOrder
  <1>3. \A a \in LinearOps(h) : IsOp(h, a) /\ a.invoke_time \in Nat
    BY OpsAreOps, EntryTypes DEF IsOp
  <1>4. ASSUME NEW a \in LinearOps(h)
        PROVE  a.invoke_time <= time[a] /\ time[a] <= a.complete_time
    <2>1. pos[a] \in 1 .. pos[a]
      BY <1>1
    <2>2. PICK i \in 1 .. pos[a] : time[a] = os[a.op.key][i].invoke_time
      BY <1>1
    <2>3. i \in 1 .. n[a.op.key] /\ i <= pos[a]
      BY <1>1
    <2>4. os[a.op.key][i].invoke_time <= os[a.op.key][pos[a]].complete_time
      BY <1>1, <2>3 DEF KeyOrder
    <2> QED BY <1>1, <2>1, <2>2, <2>4
  <1>5. ASSUME NEW a \in LinearOps(h), NEW b \in LinearOps(h), a.op.key = b.op.key
        PROVE  /\ pos[a] <= pos[b] => time[a] <= time[b]
               /\ pos[a] = pos[b] => a = b
    <2>1. pos[a] = pos[b] => a = b
      BY <1>1, <1>5
    <2>2. ASSUME pos[a] <= pos[b]
          PROVE  time[a] <= time[b]
      <3>1. PICK i \in 1 .. pos[a] : time[a] = os[a.op.key][i].invoke_time
        BY <1>1
      <3>2. i \in 1 .. pos[b]
        BY <1>1, <2>2
      <3> QED BY <1>1, <1>5, <3>1, <3>2
    <2> QED BY <2>1, <2>2
  <1>6. ASSUME NEW a \in LinearOps(h), NEW b \in LinearOps(h), time[a] = time[b]
        PROVE  a.op.key = b.op.key
    <2>1. PICK i \in 1 .. pos[a] : time[a] = os[a.op.key][i].invoke_time
      BY <1>1
    <2>2. PICK j \in 1 .. pos[b] : time[b] = os[b.op.key][j].invoke_time
      BY <1>1
    <2>3. i \in 1 .. n[a.op.key] /\ j \in 1 .. n[b.op.key]
      BY <1>1
    <2> DEFINE x == os[a.op.key][i]
               y == os[b.op.key][j]
    <2>4. x \in KeyOps(h, a.op.key) /\ y \in KeyOps(h, b.op.key)
      BY <1>1, <1>2, <2>3
    <2>5. /\ x \in LinearOps(h) /\ x.op.key = a.op.key
          /\ y \in LinearOps(h) /\ y.op.key = b.op.key
          /\ x.invoke_time = y.invoke_time
      BY <1>6, <2>1, <2>2, <2>4 DEF KeyOps
    <2> HIDE DEF x, y
    <2>6. x.id = y.id
      BY <1>3, <2>5 DEF IsOp, IsInvocation
    <2>7. x = y
      BY <2>5, <2>6, OpsById
    <2> QED BY <2>5, <2>7
  <1> QED BY <1>4, <1>5, <1>6

\* First by instant, then by place in the order of the key.
Sooner(h, pos, time) ==
    {ab \in LinearOps(h) \X LinearOps(h) :
        \/ time[ab[1]] < time[ab[2]]
        \/ time[ab[1]] = time[ab[2]] /\ pos[ab[1]] < pos[ab[2]]}

LEMMA SoonerIsOrder ==
    ASSUME NEW h, WellFormed(h), NEW n, NEW os, NEW ms,
           \A key \in Keys : KeyOrder(h, key, n[key], os[key], ms[key]),
           NEW pos, NEW time, Instants(h, n, os, pos, time)
    PROVE  StrictOrder(LinearOps(h), Sooner(h, pos, time))
  <1> DEFINE L == LinearOps(h)
             R == Sooner(h, pos, time)
  <1>1. \A a \in L : time[a] \in Nat /\ pos[a] \in Nat
    <2>1. TAKE a \in L
    <2>2. a.op.key \in Keys /\ pos[a] \in 1 .. n[a.op.key] /\ time[a] \in Nat
      BY DEF Instants
    <2>3. n[a.op.key] \in Nat
      BY <2>2 DEF KeyOrder
    <2> QED BY <2>2, <2>3
  <1>2. /\ \A a, b \in L : a.op.key = b.op.key => (pos[a] = pos[b] => a = b)
        /\ \A a, b \in L : time[a] = time[b] => a.op.key = b.op.key
    BY InstantFacts
  <1>3. \A a, b \in L : <<a, b>> \in R <=>
                            \/ time[a] < time[b]
                            \/ time[a] = time[b] /\ pos[a] < pos[b]
    BY DEF Sooner
  <1> HIDE DEF L, R
  <1>4. \A a \in L : <<a, a>> \notin R
    BY <1>1, <1>3
  <1>5. \A a, b \in L : a # b => <<a, b>> \in R \/ <<b, a>> \in R
    <2>1. TAKE a, b \in L
    <2>2. CASE time[a] = time[b]
      <3>1. pos[a] = pos[b] => a = b
        BY <1>2, <2>2
      <3> QED BY <1>1, <1>3, <2>2, <3>1
    <2>3. CASE time[a] # time[b]
      BY <1>1, <1>3, <2>3
    <2> QED BY <2>2, <2>3
  <1>6. \A a, b, c \in L : <<a, b>> \in R /\ <<b, c>> \in R => <<a, c>> \in R
    <2>1. TAKE a, b, c \in L
    <2>2. /\ time[a] \in Nat /\ time[b] \in Nat /\ time[c] \in Nat
          /\ pos[a] \in Nat /\ pos[b] \in Nat /\ pos[c] \in Nat
      BY <1>1
    <2> QED BY <1>3, <2>2
  <1>7. StrictOrder(L, R)
    BY <1>4, <1>5, <1>6 DEF StrictOrder
  <1> QED BY <1>7 DEF L, R

\* The replay of the merged order goes, on each key, through the models of the
\* order of that key.
Followed(n, os, ms, s, st, p, key) ==
    \E c \in 0 .. n[key] :
        /\ \A j \in 1 .. n[key] : j <= c <=> \E i \in 1 .. p : s[i] = os[key][j]
        /\ st[p][key] = ms[key][c][key]

LEMMA MergedStep ==
    ASSUME NEW h, WellFormed(h), NEW n, NEW os, NEW ms,
           \A key \in Keys : KeyOrder(h, key, n[key], os[key], ms[key]),
           NEW pos, NEW time, Instants(h, n, os, pos, time),
           NEW N \in Nat, NEW s, Listed(LinearOps(h), N, s, Sooner(h, pos, time)),
           NEW st, st \in [0 .. N -> Stores],
           \A i \in 1 .. N : st[i] = apply_op(st[i - 1], s[i].op),
           NEW p \in 0 .. N, p # N,
           \A key \in Keys : Followed(n, os, ms, s, st, p, key)
    PROVE  /\ matches(st[p], s[p + 1])
           /\ \A key \in Keys : Followed(n, os, ms, s, st, p + 1, key)
  <1> DEFINE x == s[p + 1]
             k == x.op.key
             q == pos[x]
             L == LinearOps(h)
  <1>1. p + 1 \in 1 .. N /\ p + 1 \in 0 .. N /\ p \in Nat /\ (p + 1) - 1 = p
    OBVIOUS
  <1>2. /\ \A i \in 1 .. N : s[i] \in L
        /\ \A y \in L : \E i \in 1 .. N : s[i] = y
        /\ \A i, j \in 1 .. N : i < j => <<s[i], s[j]>> \in Sooner(h, pos, time)
    BY DEF Listed
  <1>3. x \in L
    BY <1>1, <1>2
  <1>4. /\ IsOp(h, x) /\ x.op \in KVOp
        /\ k \in Keys
        /\ q \in 1 .. n[k]
        /\ os[k][q] = x
    <2>1. IsOp(h, x)
      BY <1>3, OpsAreOps
    <2>2. k \in Keys /\ q \in 1 .. n[k] /\ os[k][q] = x
      BY <1>3 DEF Instants
    <2> QED BY <2>1, <2>2 DEF IsOp
  <1>5. StrictOrder(L, Sooner(h, pos, time))
    BY SoonerIsOrder
  <1>6. \A i, j \in 1 .. N : s[i] = s[j] => i = j
    <2>1. TAKE i, j \in 1 .. N
    <2>2. CASE i < j
      BY <1>2, <1>5, <2>2 DEF StrictOrder
    <2>3. CASE j < i
      BY <1>2, <1>5, <2>3 DEF StrictOrder
    <2> QED BY <2>2, <2>3
  <1>7. st[p] \in Stores /\ st[p + 1] = apply_op(st[p], x.op)
    BY <1>1
  <1>8. KeyOrder(h, k, n[k], os[k], ms[k])
    BY <1>4
  <1>9. /\ n[k] \in Nat
        /\ \A j \in 1 .. n[k] : os[k][j] \in KeyOps(h, k)
        /\ \A j \in 0 .. n[k] : ms[k][j] \in Stores
        /\ \A i, j \in 1 .. n[k] : os[k][i] = os[k][j] => i = j
        /\ \A i \in 1 .. n[k] : /\ matches(ms[k][i - 1], os[k][i])
                                /\ ms[k][i] = new_model(ms[k][i - 1], os[k][i])
    BY <1>8 DEF KeyOrder
  <1>10. PICK c \in 0 .. n[k] :
            /\ \A j \in 1 .. n[k] : j <= c <=> \E i \in 1 .. p : s[i] = os[k][j]
            /\ st[p][k] = ms[k][c][k]
    BY <1>4 DEF Followed
  <1> HIDE DEF x, k, q, L
  <1>11. ASSUME NEW j \in 1 .. n[k], j < q
         PROVE  \E i \in 1 .. p : s[i] = os[k][j]
    <2> DEFINE y == os[k][j]
    <2>1. y \in L /\ y.op.key = k
      BY <1>9 DEF KeyOps, L
    <2> HIDE DEF y
    <2>2. pos[y] \in 1 .. n[k] /\ os[k][pos[y]] = y
      BY <2>1 DEF Instants, L
    <2>3. pos[y] = j
      BY <1>9, <2>2 DEF y
    <2>4. /\ pos[y] <= pos[x] => time[y] <= time[x]
          /\ time[y] \in Nat /\ time[x] \in Nat
      <3>1. x \in LinearOps(h) /\ y \in LinearOps(h) /\ y.op.key = x.op.key
        BY <1>3, <2>1 DEF L, k
      <3>2. pos[y] <= pos[x] => time[y] <= time[x]
        BY ZenonT(40), <3>1, InstantFacts
      <3>3. time[y] \in Nat /\ time[x] \in Nat
        BY <3>1 DEF Instants
      <3> QED BY <3>2, <3>3
    <2>5. pos[x] \in Nat /\ j \in Nat /\ j < pos[x]
      BY <1>4, <1>9, <1>11 DEF q
    <2>6. <<y, x>> \in Sooner(h, pos, time)
      <3>1. time[y] < time[x] \/ (time[y] = time[x] /\ pos[y] < pos[x])
        BY <2>3, <2>4, <2>5
      <3> QED BY <1>3, <2>1, <3>1 DEF Sooner, L
    <2>7. <<x, y>> \notin Sooner(h, pos, time)
      BY <1>3, <1>5, <2>1, <2>6 DEF StrictOrder
    <2>8. PICK i \in 1 .. N : s[i] = y
      BY <1>2, <2>1
    <2>9. y # x
      BY <1>3, <1>5, <2>6 DEF StrictOrder
    <2>10. i # p + 1
      BY <2>8, <2>9 DEF x
    <2>11. ~(p + 1 < i)
      BY <1>1, <1>2, <2>7, <2>8 DEF x
    <2>12. i \in 1 .. p
      BY <1>1, <2>10, <2>11
    <2> QED BY <2>8, <2>12 DEF y
  <1>12. ~(q <= c)
    <2>1. SUFFICES ASSUME q <= c
                   PROVE  FALSE
      OBVIOUS
    <2>2. PICK i \in 1 .. p : s[i] = x
      BY <1>4, <1>10, <2>1
    <2>3. i \in 1 .. N /\ i # p + 1
      BY <1>1
    <2> QED BY <1>1, <1>6, <2>2, <2>3 DEF x
  <1>13. q = c + 1
    <2>1. q \in Nat /\ q >= 1 /\ q <= n[k] /\ c \in Nat
      BY <1>4, <1>9
    <2>2. q - 1 <= c
      <3>1. CASE q = 1
        BY <2>1, <3>1
      <3>2. CASE q # 1
        <4>1. q - 1 \in 1 .. n[k] /\ q - 1 < q
          BY <1>9, <2>1, <3>2
        <4> QED BY <1>10, <1>11, <4>1
      <3> QED BY <3>1, <3>2
    <2> QED BY <1>12, <2>1, <2>2
  <1>14. matches(ms[k][c], x) /\ ms[k][c + 1] = new_model(ms[k][c], x) /\ ms[k][c] \in Stores
    <2>1. q - 1 = c
      BY <1>13
    <2> QED BY <1>4, <1>9, <1>13, <2>1
  <1>15. /\ matches(st[p], x)
         /\ new_model(st[p], x)[k] = new_model(ms[k][c], x)[k]
    <2>1. st[p][x.op.key] = ms[k][c][x.op.key]
      BY <1>10 DEF k
    <2> QED BY <1>4, <1>7, <1>14, <2>1, OneKey DEF k
  <1>16. st[p + 1] = new_model(st[p], x)
    BY <1>4, <1>7, <1>15, MatchesIsReply
  <1>17. Followed(n, os, ms, s, st, p + 1, k)
    <2>1. c + 1 \in 0 .. n[k]
      BY <1>4, <1>9, <1>13
    <2>2. ASSUME NEW j \in 1 .. n[k]
          PROVE  j <= c + 1 <=> \E i \in 1 .. (p + 1) : s[i] = os[k][j]
      <3>1. CASE j <= c
        <4>1. PICK i \in 1 .. p : s[i] = os[k][j]
          BY <1>10, <3>1
        <4>2. i \in 1 .. (p + 1) /\ j <= c + 1
          BY <1>1, <1>9, <3>1
        <4> QED BY <4>1, <4>2
      <3>2. CASE j = c + 1
        <4>1. s[p + 1] = os[k][j] /\ p + 1 \in 1 .. (p + 1) /\ j <= c + 1
          BY <1>1, <1>4, <1>9, <1>13, <3>2 DEF x
        <4> QED BY <4>1
      <3>3. CASE j > c + 1
        <4>1. ~(j <= c) /\ j # q
          BY <1>9, <1>13, <3>3
        <4>2. ASSUME NEW i \in 1 .. (p + 1), s[i] = os[k][j]
              PROVE  FALSE
          <5>1. CASE i = p + 1
            BY <1>4, <1>9, <4>1, <4>2, <5>1 DEF x
          <5>2. CASE i # p + 1
            <6>1. i \in 1 .. p
              BY <1>1, <5>2
            <6> QED BY <1>10, <4>1, <4>2, <6>1
          <5> QED BY <5>1, <5>2
        <4>3. ~(j <= c + 1)
          BY <1>9, <3>3
        <4> QED BY <4>2, <4>3
      <3> QED BY <1>9, <3>1, <3>2, <3>3
    <2>3. st[p + 1][k] = ms[k][c + 1][k]
      BY <1>14, <1>15, <1>16
    <2> QED BY <2>1, <2>2, <2>3 DEF Followed
  <1>18. ASSUME NEW key \in Keys, key # k
         PROVE  Followed(n, os, ms, s, st, p + 1, key)
    <2>1. PICK d \in 0 .. n[key] :
             /\ \A j \in 1 .. n[key] : j <= d <=> \E i \in 1 .. p : s[i] = os[key][j]
             /\ st[p][key] = ms[key][d][key]
      BY DEF Followed
    <2>2. \A j \in 1 .. n[key] : os[key][j] \in KeyOps(h, key)
      BY DEF KeyOrder
    <2>3. ASSUME NEW j \in 1 .. n[key]
          PROVE  s[p + 1] # os[key][j]
      BY <1>18, <2>2 DEF KeyOps, k, x
    <2>4. ASSUME NEW j \in 1 .. n[key]
          PROVE  j <= d <=> \E i \in 1 .. (p + 1) : s[i] = os[key][j]
      <3>1. \A i \in 1 .. (p + 1) : i = p + 1 \/ i \in 1 .. p
        BY <1>1
      <3>2. \A i \in 1 .. p : i \in 1 .. (p + 1)
        BY <1>1
      <3> QED BY <2>1, <2>3, <3>1, <3>2
    <2>5. st[p + 1][key] = st[p][key]
      BY <1>4, <1>7, <1>18, OtherKeys DEF k
    <2> QED BY <2>1, <2>4, <2>5 DEF Followed
  <1> QED BY <1>15, <1>17, <1>18 DEF x

LEMMA PassingIsLinearizable ==
    ASSUME NEW h, WellFormed(h), check_linearizability(h),
           \A key \in Keys : Cardinality(KeyOps(h, key)) <= MaxDepth + 1
    PROVE  Linearizable(h)
  <1> DEFINE L == LinearOps(h)
  <1>1. PICK n, os, ms : \A key \in Keys : KeyOrder(h, key, n[key], os[key], ms[key])
    BY KeyOrders
  <1>2. PICK pos, time : Instants(h, n, os, pos, time)
    BY <1>1, InstantsExist
  <1> DEFINE R == Sooner(h, pos, time)
  <1>3. StrictOrder(L, R)
    BY <1>1, <1>2, SoonerIsOrder
  <1>4. IsFiniteSet(L) /\ L \in SUBSET L
    BY OpsFinite
  <1>5. PICK N \in Nat : N = Cardinality(L)
    BY <1>4, FS_CardinalityType
  <1>6. PICK s : Listed(L, N, s, R)
    BY <1>3, <1>4, <1>5, ListExists
  <1>7. /\ \A i \in 1 .. N : s[i] \in L
        /\ \A y \in L : \E i \in 1 .. N : s[i] = y
        /\ \A i, j \in 1 .. N : i < j => <<s[i], s[j]>> \in R
    BY <1>6 DEF Listed
  <1>8. \A i, j \in 1 .. N : s[i] = s[j] => i = j
    <2>1. TAKE i, j \in 1 .. N
    <2>2. CASE i < j
      BY <1>3, <1>7, <2>2 DEF StrictOrder
    <2>3. CASE j < i
      BY <1>3, <1>7, <2>3 DEF StrictOrder
    <2> QED BY <2>2, <2>3
  <1>9. \A lop \in L : IsOp(h, lop)
    BY OpsAreOps
  <1> HIDE DEF L, R
  <1> DEFINE order == [i \in 1 .. N |-> s[i].id]
             st == Replay(h, order)
  <1>10. \A lop \in L : lop.id \in Completed(h)
    BY <1>9 DEF IsOp, Completed
  <1>11. /\ \A i \in 1 .. N : order[i] \in Completed(h)
         /\ \A i, j \in 1 .. N : i # j => order[i] # order[j]
    <2>1. \A i \in 1 .. N : order[i] \in Completed(h)
      BY <1>7, <1>10
    <2>2. ASSUME NEW i \in 1 .. N, NEW j \in 1 .. N, order[i] = order[j]
          PROVE  i = j
      <3>1. s[i].id = s[j].id /\ s[i] \in LinearOps(h) /\ s[j] \in LinearOps(h)
        BY <1>7, <2>2 DEF L
      <3>2. s[i] = s[j]
        BY <3>1, OpsById
      <3> QED BY <1>8, <3>2
    <2> QED BY <2>1, <2>2
  <1>12. \A r \in Completions(h) : \E i \in 1 .. N :
            s[i].complete_time = r /\ order[i] = h[r].id
    <2>1. TAKE r \in Completions(h)
    <2>2. /\ OpAt(h, r) \in L
          /\ OpAt(h, r).complete_time = r
          /\ OpAt(h, r).id = h[r].id
      BY OpsAreOps, OpAtIsOp DEF IsOp, L
    <2>3. PICK i \in 1 .. N : s[i] = OpAt(h, r)
      BY <1>7, <2>2
    <2> QED BY <2>2, <2>3
  <1>13. Len(order) = N /\ DOMAIN order = 1 .. N
    OBVIOUS
  <1>14. order \in SetToSeqs(Completed(h))
    <2>1. order \in [1 .. N -> Completed(h)]
      BY <1>11
    <2>2. order \in Injection(1 .. N, Completed(h))
      BY <1>11, <2>1 DEF Injection, IsInjective
    <2>3. order \in Surjection(1 .. N, Completed(h))
      <3>1. \A x \in Completed(h) : \E i \in 1 .. N : order[i] = x
        BY <1>12 DEF Completed
      <3> QED BY <2>1, <3>1 DEF Surjection
    <2> HIDE DEF order
    <2>4. ExistsBijection(1 .. N, Completed(h))
      BY <2>2, <2>3 DEF ExistsBijection, Bijection
    <2>5. Cardinality(Completed(h)) = N
      BY <2>4, FS_CountingElements
    <2> QED BY <1>11, <2>1, <2>5 DEF SetToSeqs
  <1>15. \A i \in 1 .. N : OpOf(h, order[i]) = s[i].op /\ s[i].op \in KVOp
    BY <1>7, <1>9 DEF IsOp
  <1>16. /\ st \in [0 .. N -> Stores]
         /\ st[0] = EmptyStore
         /\ \A i \in 1 .. N : st[i] = apply_op(st[i - 1], s[i].op)
    <2>1. Len(order) \in Nat /\ \A i \in 1 .. Len(order) : OpOf(h, order[i]) \in KVOp
      BY <1>13, <1>15
    <2> HIDE DEF order
    <2>2. /\ st \in [0 .. Len(order) -> Stores]
          /\ st[0] = EmptyStore
          /\ \A i \in 1 .. Len(order) : st[i] = apply_op(st[i - 1], OpOf(h, order[i]))
      BY <2>1, ReplayStores
    <2> HIDE DEF st
    <2> QED BY <1>13, <1>15, <2>2
  <1>17. \A i, j \in DOMAIN order : i < j => ~HappensBefore(h, order[j], order[i])
    <2>1. SUFFICES ASSUME NEW i \in 1 .. N, NEW j \in 1 .. N, i < j,
                          HappensBefore(h, order[j], order[i])
                   PROVE  FALSE
      BY <1>13
    <2> DEFINE a == s[i]
               b == s[j]
    <2>2. a \in L /\ b \in L /\ IsOp(h, a) /\ IsOp(h, b)
      BY <1>7, <1>9
    <2>3. PICK r \in Completions(h), q \in DOMAIN h :
             r < q /\ h[r].id = b.id /\ IsInvocation(h, q, a.id)
      BY <2>1 DEF HappensBefore
    <2> HIDE DEF a, b
    <2>4. r = b.complete_time
      BY <2>2, <2>3, CompletedOnce DEF IsOp
    <2>5. q = a.invoke_time
      BY <2>2, <2>3 DEF IsOp, WellFormed, IsInvocation
    <2>6. /\ a.invoke_time <= time[a]
          /\ time[b] <= b.complete_time
      BY <1>1, <1>2, <2>2, InstantFacts DEF L
    <2>7. time[a] \in Nat /\ time[b] \in Nat
      BY <1>2, <2>2 DEF Instants, L
    <2>8. q \in Nat /\ r \in Nat
      BY <2>3, EntryTypes DEF Completions
    <2>9. time[b] < time[a]
      BY <2>3, <2>4, <2>5, <2>6, <2>7, <2>8
    <2>10. <<a, b>> \in R
      BY <1>7, <2>1 DEF a, b
    <2> QED BY <2>7, <2>9, <2>10 DEF R, Sooner
  <1> HIDE DEF order, st
  <1> DEFINE Q(p) == \A key \in Keys : Followed(n, os, ms, s, st, p, key)
             G == {p \in Nat : p <= N => Q(p)}
  <1>18. ASSUME NEW p \in 0 .. N, p # N, Q(p)
         PROVE  matches(st[p], s[p + 1]) /\ Q(p + 1)
    BY <1>1, <1>2, <1>6, <1>16, <1>18, MergedStep DEF L, R
  <1>19. 0 \in G
    <2>1. ASSUME NEW key \in Keys
          PROVE  Followed(n, os, ms, s, st, 0, key)
      <3>1. n[key] \in Nat /\ ms[key][0] = EmptyStore
        BY <1>1 DEF KeyOrder
      <3>2. 0 \in 0 .. n[key]
        BY <3>1
      <3>3. \A j \in 1 .. n[key] : j <= 0 <=> \E i \in 1 .. 0 : s[i] = os[key][j]
        BY <3>1
      <3>4. st[0][key] = ms[key][0][key]
        BY <1>16, <3>1
      <3> QED BY <3>2, <3>3, <3>4 DEF Followed
    <2> QED BY <2>1
  <1> HIDE DEF Q
  <1>20. ASSUME NEW p \in Nat, p \in G
         PROVE  p + 1 \in G
    <2>1. SUFFICES ASSUME p + 1 <= N
                   PROVE  Q(p + 1)
      OBVIOUS
    <2>2. p \in 0 .. N /\ p # N /\ Q(p)
      BY <1>20, <2>1
    <2> QED BY <1>18, <2>2
  <1> HIDE DEF G
  <1>21. Nat \subseteq G
    BY <1>19, <1>20, SetInduction
  <1>22. ASSUME NEW i \in 1 .. N
         PROVE  matches(st[i - 1], s[i])
    <2>1. i - 1 \in 0 .. N /\ i - 1 # N /\ i - 1 \in Nat /\ i - 1 <= N /\ (i - 1) + 1 = i
      OBVIOUS
    <2>2. Q(i - 1)
      BY <1>21, <2>1 DEF G
    <2>3. matches(st[i - 1], s[(i - 1) + 1])
      BY <1>18, <2>1, <2>2
    <2> QED BY <2>1, <2>3
  <1>23. ASSUME NEW r \in Completions(h)
         PROVE  \E i \in DOMAIN order :
                   /\ order[i] = h[r].id
                   /\ h[r] = record_response(h[r].id,
                                 reply_to(st[i - 1], OpOf(h, h[r].id)))
    <2>1. PICK i \in 1 .. N : s[i].complete_time = r /\ order[i] = h[r].id
      BY <1>12
    <2>2. IsOp(h, s[i]) /\ s[i].id = h[r].id /\ OpOf(h, h[r].id) = s[i].op
      BY <1>7, <1>9, <2>1 DEF IsOp
    <2>3. i - 1 \in 0 .. N
      OBVIOUS
    <2>4. st[i - 1] \in Stores
      BY <1>16, <2>3
    <2>5. h[s[i].complete_time] =
             record_response(s[i].id, reply_to(st[i - 1], s[i].op))
      BY <1>22, <2>2, <2>4, MatchesIsReply
    <2> QED BY <1>13, <2>1, <2>2, <2>5
  <1>24. order \in SetToSeqs(Completed(h) \cup {}) /\ {} \in SUBSET Unanswered(h)
    BY <1>14
  <1> QED BY <1>17, <1>23, <1>24 DEF Linearizable, st


------------------------------------------------------------------------------
(* Histories that grow.                                                     *)

Extends(g, h) ==
    /\ WellFormed(h) /\ WellFormed(g)
    /\ Len(h) <= Len(g)
    /\ \A i \in 1 .. Len(h) : g[i] = h[i]

\* What was invoked stays, with its operation, and no operation invoked by
\* then finds a new one before it.
LEMMA ExtensionKeeps ==
    ASSUME NEW h, NEW g, Extends(g, h)
    PROVE  /\ Invoked(h) \subseteq Invoked(g)
           /\ \A id \in Invoked(h) : OpOf(g, id) = OpOf(h, id) /\ OpOf(h, id) \in KVOp
           /\ \A a : \A b \in Invoked(h) : HappensBefore(g, a, b) => HappensBefore(h, a, b)
  <1>1. /\ WellFormed(h) /\ WellFormed(g)
        /\ Len(h) \in Nat /\ Len(g) \in Nat /\ Len(h) <= Len(g)
        /\ DOMAIN h = 1 .. Len(h) /\ DOMAIN g = 1 .. Len(g)
        /\ \A i \in 1 .. Len(h) : g[i] = h[i]
    BY DEF Extends, WellFormed
  <1>2. ASSUME NEW b \in Invoked(h)
        PROVE  \E i \in DOMAIN h : i \in DOMAIN g /\ IsInvocation(h, i, b) /\ IsInvocation(g, i, b)
    <2>1. PICK i \in DOMAIN h : h[i].event_type = "invoke" /\ h[i].id = b
      BY DEF Invoked
    <2>2. i \in DOMAIN g /\ g[i] = h[i]
      BY <1>1
    <2> QED BY <2>1, <2>2 DEF IsInvocation
  <1>3. Invoked(h) \subseteq Invoked(g)
    BY <1>2 DEF Invoked, IsInvocation
  <1>4. ASSUME NEW b \in Invoked(h)
        PROVE  OpOf(g, b) = OpOf(h, b) /\ OpOf(h, b) \in KVOp
    <2>1. PICK i \in DOMAIN h : i \in DOMAIN g /\ IsInvocation(h, i, b) /\ IsInvocation(g, i, b)
      BY <1>2
    <2>2. OpOf(h, b) = h[i].op /\ OpOf(g, b) = g[i].op
      BY <1>1, <2>1, InvokedAt DEF OpOf
    <2>3. g[i] = h[i] /\ h[i].op \in KVOp
      BY <1>1, <2>1, EntryTypes DEF IsInvocation
    <2> QED BY <2>2, <2>3
  <1>5. ASSUME NEW a, NEW b \in Invoked(h), HappensBefore(g, a, b)
        PROVE  HappensBefore(h, a, b)
    <2>1. PICK r \in Completions(g), j \in DOMAIN g :
             r < j /\ g[r].id = a /\ IsInvocation(g, j, b)
      BY <1>5 DEF HappensBefore
    <2>2. PICK i \in DOMAIN h : i \in DOMAIN g /\ IsInvocation(h, i, b) /\ IsInvocation(g, i, b)
      BY <1>2
    <2>3. i = j
      BY <1>1, <2>1, <2>2 DEF WellFormed, IsInvocation
    <2>4. r \in 1 .. Len(h) /\ r \in DOMAIN h /\ g[r] = h[r]
      BY <1>1, <2>1, <2>3 DEF Completions
    <2>5. \A q \in 1 .. (r - 1) : g[q] = h[q]
      BY <1>1, <2>4
    <2>6. r \in Completions(h)
      BY <2>1, <2>4, <2>5 DEF Completions, IsInvocation
    <2> QED BY <2>1, <2>2, <2>3, <2>4, <2>6 DEF HappensBefore
  <1> QED BY <1>3, <1>4, <1>5

\* An invocation with a new id.
LEMMA InvocationRecorded ==
    ASSUME NEW h, WellFormed(h), NEW id \in OpIds, id \notin Invoked(h), NEW op \in KVOp,
           NEW g, g = Append(h, [event_type |-> "invoke", id |-> id, op |-> op])
    PROVE  /\ Extends(g, h)
           /\ Invoked(g) = Invoked(h) \cup {id}
           /\ Len(g) = Len(h) + 1
           /\ \A i \in 1 .. Len(g) : g[i].event_type # "invoke" => i \in 1 .. Len(h)
  <1> DEFINE e == [event_type |-> "invoke", id |-> id, op |-> op]
  <1>1. h \in Seq(Invocations \cup Responses) /\ Len(h) \in Nat /\ DOMAIN h = 1 .. Len(h)
    BY DEF WellFormed
  <1>2. e \in Invocations
    BY DEF Invocations
  <1>3. e.id = id /\ e.event_type = "invoke" /\ e.op = op
    OBVIOUS
  <1> HIDE DEF e
  <1>4. g = Append(h, e)
    BY DEF e
  <1>5. g \in Seq(Invocations \cup Responses)
    BY <1>1, <1>2, <1>4
  <1>6. /\ Len(g) = Len(h) + 1
        /\ DOMAIN g = 1 .. (Len(h) + 1)
        /\ \A i \in 1 .. Len(h) : g[i] = h[i]
        /\ g[Len(h) + 1] = e
    BY <1>1, <1>2, <1>4
  <1>7. \A i \in 1 .. (Len(h) + 1) : i \in 1 .. Len(h) \/ i = Len(h) + 1
    BY <1>1
  <1>8. \A i \in DOMAIN h : h[i].event_type = "invoke" => h[i].id # id
    BY DEF Invoked
  <1>9. ASSUME NEW i \in DOMAIN g, NEW j \in DOMAIN g,
               g[i].event_type = "invoke", g[j].event_type = "invoke", g[i].id = g[j].id
        PROVE  i = j
    <2>1. CASE i \in 1 .. Len(h) /\ j \in 1 .. Len(h)
      BY <1>1, <1>6, <1>9, <2>1 DEF WellFormed
    <2>2. CASE i = Len(h) + 1 \/ j = Len(h) + 1
      BY <1>1, <1>3, <1>6, <1>7, <1>8, <1>9, <2>2
    <2> QED BY <1>6, <1>7, <2>1, <2>2
  <1>10. ASSUME NEW r \in DOMAIN g, g[r].event_type # "invoke"
         PROVE  \E i \in 1 .. (r - 1) :
                   IsInvocation(g, i, g[r].id) /\ IsAnswerTo(g[r], g[i].op)
    <2>1. r \in DOMAIN h /\ g[r] = h[r]
      BY <1>1, <1>3, <1>6, <1>7, <1>10
    <2>2. PICK i \in 1 .. (r - 1) :
             IsInvocation(h, i, h[r].id) /\ IsAnswerTo(h[r], h[i].op)
      BY <1>10, <2>1 DEF WellFormed
    <2>3. i \in 1 .. Len(h)
      BY <1>1, <2>1
    <2> QED BY <1>6, <2>1, <2>2, <2>3 DEF IsInvocation
  <1>11. WellFormed(g)
    BY <1>5, <1>9, <1>10 DEF WellFormed
  <1>12. Extends(g, h)
    BY <1>1, <1>6, <1>11 DEF Extends
  <1>13. Invoked(g) = Invoked(h) \cup {id}
    <2>1. Invoked(g) \subseteq Invoked(h) \cup {id}
      BY <1>1, <1>3, <1>6, <1>7 DEF Invoked
    <2>2. id \in Invoked(g)
      <3>1. Len(h) + 1 \in DOMAIN g
        BY <1>1, <1>6
      <3> QED BY <1>3, <1>6, <3>1 DEF Invoked
    <2> QED BY <1>12, <2>1, <2>2, ExtensionKeeps
  <1>14. \A i \in 1 .. Len(g) : g[i].event_type # "invoke" => i \in 1 .. Len(h)
    BY <1>3, <1>6, <1>7
  <1> QED BY <1>6, <1>12, <1>13, <1>14

\* Responses to operations that were invoked.
LEMMA ResponsesRecorded ==
    ASSUME NEW h, WellFormed(h), NEW rs \in Seq(Responses),
           \A j \in DOMAIN rs : /\ rs[j].event_type # "invoke"
                                /\ rs[j].id \in Invoked(h)
                                /\ IsAnswerTo(rs[j], OpOf(h, rs[j].id)),
           NEW g, g = h \o rs
    PROVE  /\ Extends(g, h)
           /\ Invoked(g) = Invoked(h)
           /\ \A i \in DOMAIN g : i \in DOMAIN h \/ \E j \in DOMAIN rs : g[i] = rs[j]
  <1>1. /\ h \in Seq(Invocations \cup Responses) /\ Len(h) \in Nat /\ DOMAIN h = 1 .. Len(h)
        /\ rs \in Seq(Invocations \cup Responses) /\ Len(rs) \in Nat /\ DOMAIN rs = 1 .. Len(rs)
    BY DEF WellFormed
  <1>2. /\ g \in Seq(Invocations \cup Responses)
        /\ Len(g) = Len(h) + Len(rs)
        /\ DOMAIN g = 1 .. (Len(h) + Len(rs))
        /\ \A i \in 1 .. Len(h) : g[i] = h[i]
        /\ \A i \in 1 .. (Len(h) + Len(rs)) : i > Len(h) => g[i] = rs[i - Len(h)]
    BY <1>1
  <1>3. ASSUME NEW i \in DOMAIN g
        PROVE  i \in DOMAIN h \/ (i - Len(h) \in DOMAIN rs /\ g[i] = rs[i - Len(h)])
    BY <1>1, <1>2
  <1>4. \A i \in DOMAIN g : g[i].event_type = "invoke" => i \in DOMAIN h /\ g[i] = h[i]
    BY <1>1, <1>2, <1>3
  <1>5. \A i, j \in DOMAIN g :
           /\ g[i].event_type = "invoke"
           /\ g[j].event_type = "invoke"
           /\ g[i].id = g[j].id
           => i = j
    BY <1>4 DEF WellFormed
  <1>6. ASSUME NEW r \in DOMAIN g, g[r].event_type # "invoke"
        PROVE  \E i \in 1 .. (r - 1) :
                  IsInvocation(g, i, g[r].id) /\ IsAnswerTo(g[r], g[i].op)
    <2>1. CASE r \in DOMAIN h
      <3>1. g[r] = h[r]
        BY <1>1, <1>2, <2>1
      <3>2. PICK i \in 1 .. (r - 1) :
               IsInvocation(h, i, h[r].id) /\ IsAnswerTo(h[r], h[i].op)
        BY <1>6, <2>1, <3>1 DEF WellFormed
      <3>3. i \in 1 .. Len(h)
        BY <1>1, <2>1
      <3> QED BY <1>2, <3>1, <3>2, <3>3 DEF IsInvocation
    <2>2. CASE r \notin DOMAIN h
      <3>1. PICK j \in DOMAIN rs : g[r] = rs[j]
        BY <1>3, <2>2
      <3>2. PICK i \in DOMAIN h : h[i].event_type = "invoke" /\ h[i].id = rs[j].id
        BY <3>1 DEF Invoked
      <3>3. i \in 1 .. (r - 1) /\ g[i] = h[i]
        BY <1>1, <1>2, <2>2
      <3>4. IsInvocation(h, i, rs[j].id)
        BY <3>2 DEF IsInvocation
      <3>5. OpOf(h, rs[j].id) = h[i].op
        BY <3>4, InvokedAt DEF OpOf
      <3> QED BY <3>1, <3>2, <3>3, <3>5 DEF IsInvocation
    <2> QED BY <2>1, <2>2
  <1>7. WellFormed(g)
    BY <1>2, <1>5, <1>6 DEF WellFormed
  <1>8. Extends(g, h)
    BY <1>1, <1>2, <1>7 DEF Extends
  <1>9. Invoked(g) = Invoked(h)
    <2>1. Invoked(g) \subseteq Invoked(h)
      BY <1>4 DEF Invoked
    <2> QED BY <1>8, <2>1, ExtensionKeeps
  <1> QED BY <1>3, <1>8, <1>9

LEMMA RecordedType ==
    ASSUME NEW op \in KVOp, NEW body \in Answers(op), NEW id \in OpIds
    PROVE  record_response(id, body) \in Responses
  <1>1. op.type \in {"read", "write", "cas"}
    BY DEF KVOp, OpsOver
  <1>2. body.type = "read_ok" => body.value \in Values
    BY <1>1 DEF Answers, Ok, Error
  <1> QED BY <1>2 DEF record_response, Responses

\* What the store answers is an answer to the operation.
LEMMA ReplyIsAnswer ==
    ASSUME NEW s \in Stores, NEW op \in KVOp
    PROVE  reply_to(s, op) \in Answers(op)
  <1>1. CASE op \in [type : {"read"}, key : Keys]
    BY <1>1 DEF reply_to, Stores, Answers, Ok, Error
  <1>2. CASE op \in [type : {"write"}, key : Keys, value : Values]
    BY <1>2 DEF reply_to, Stores, Answers, Ok, Error
  <1>3. CASE op \in [type : {"cas"}, key : Keys, from : Values, to : Values]
    BY <1>3 DEF reply_to, Stores, Answers, Ok, Error
  <1> QED BY <1>1, <1>2, <1>3 DEF KVOp, OpsOver

==============================================================================
