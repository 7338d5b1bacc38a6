------------------------------- MODULE KVStore -------------------------------
(***************************************************************************)
(* The key-value state machine that every node of the cluster runs: the    *)
(* operations a log entry can carry, the effect of an operation on the     *)
(* store, and the body of the answer the coordinator sends.                *)
(***************************************************************************)

CONSTANTS
    Keys,           \* strings that can be keys of the store
    NonStringKeys,  \* JSON values a client can put in "key" that are not strings
    EmptyKey,       \* the key "" that every non-string key is read as
    Values,         \* JSON values
    Absent          \* "the store has no entry for this key"

ASSUME StoreAssumption ==
    /\ Absent \notin Values
    /\ EmptyKey \in Keys
    /\ Keys \cap NonStringKeys = {}

(***************************************************************************)
(* KVOp, over a given set of keys: what the client's body says (over all   *)
(* JSON keys) and what the log entry says (over strings).                  *)
(***************************************************************************)
OpsOver(K) ==
    [type : {"read"}, key : K]
        \cup [type : {"write"}, key : K, value : Values]
        \cup [type : {"cas"}, key : K, from : Values, to : Values]

Bodies == OpsOver(Keys \cup NonStringKeys)

KVOp == OpsOver(Keys)

\* msg["body"]["key"].as_str().unwrap_or("")
key_as_str(key) == IF key \in Keys THEN key ELSE EmptyKey

parse_op(body) == [body EXCEPT !.key = key_as_str(body.key)]

Stores == [Keys -> Values \cup {Absent}]

EmptyStore == [k \in Keys |-> Absent]

\* The store after an operation: a write inserts, a compare-and-swap inserts
\* when the current value is the expected one, a read changes nothing.
apply_op(store, op) ==
    IF op.type = "write"
    THEN [store EXCEPT ![op.key] = op.value]
    ELSE IF op.type = "cas" /\ store[op.key] = op.from
         THEN [store EXCEPT ![op.key] = op.to]
         ELSE store

Error(code) == [type |-> "error", code |-> code]

Ok(type) == [type |-> type]

ReplyBodies ==
    [type : {"read_ok"}, value : Values]
        \cup {Ok("write_ok"), Ok("cas_ok"), Error(20), Error(22)}

\* The answer to an operation executed on the given store.
reply_to(store, op) ==
    IF op.type = "write"
    THEN Ok("write_ok")
    ELSE IF store[op.key] = Absent
         THEN Error(20)
         ELSE IF op.type = "read"
              THEN [type |-> "read_ok", value |-> store[op.key]]
              ELSE IF store[op.key] # op.from THEN Error(22) ELSE Ok("cas_ok")
==============================================================================
