---------------------------- MODULE LinearizableKV ----------------------------
(***************************************************************************)
(* What the cluster promises its clients: one atomic key-value store.      *)
(* Every call takes effect at most once, at one instant between the call   *)
(* and its first answer, and every answer to a call is the result the      *)
(* operation had at that instant.  Calls may stay unanswered (partitions,  *)
(* crashes), and an answer may be repeated, never changed.                 *)
(***************************************************************************)
EXTENDS KVStore

CONSTANT Ids   \* identities of client operations (client, msg_id)

VARIABLES
    store,     \* the atomic store
    called,    \* operations invoked: records [id, op]
    done,      \* operations that took effect, with their result: [id, body]
    answered   \* results that reached a client: [id, body]

vars == <<store, called, done, answered>>

TypeOK ==
    /\ store \in Stores
    /\ called \subseteq [id : Ids, op : KVOp]
    /\ done \subseteq [id : Ids, body : ReplyBodies]
    /\ answered \subseteq [id : Ids, body : ReplyBodies]

Init ==
    /\ store = EmptyStore
    /\ called = {}
    /\ done = {}
    /\ answered = {}

Call(id, op) ==
    /\ \A c \in called : c.id # id
    /\ called' = called \cup {[id |-> id, op |-> op]}
    /\ UNCHANGED <<store, done, answered>>

TakeEffect(c) ==
    /\ \A d \in done : d.id # c.id
    /\ store' = apply_op(store, c.op)
    /\ done' = done \cup {[id |-> c.id, body |-> reply_to(store, c.op)]}
    /\ UNCHANGED <<called, answered>>

Answer(d) ==
    /\ answered' = answered \cup {d}
    /\ UNCHANGED <<store, called, done>>

Next ==
    \/ \E id \in Ids, op \in KVOp : Call(id, op)
    \/ \E c \in called : TakeEffect(c)
    \/ \E d \in done : Answer(d)

Spec == Init /\ [][Next]_vars
==============================================================================
