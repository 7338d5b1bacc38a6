------------------------------ MODULE KVDatabase ------------------------------
(***************************************************************************)
(* The state machine of the OmniPaxos KV server (src/server/database.rs)   *)
(* over the commands of src/common.rs: Put, Delete and Get.                *)
(***************************************************************************)

CONSTANTS
    Keys,     \* strings used as keys
    Values,   \* strings used as values
    None      \* Option::None: the map has no entry for the key

ASSUME DatabaseAssumption == None \notin Values

Put(key, value) == [type |-> "Put", key |-> key, value |-> value]
Delete(key) == [type |-> "Delete", key |-> key]
Get(key) == [type |-> "Get", key |-> key]

KVCommand ==
    [type : {"Put"}, key : Keys, value : Values]
        \cup [type : {"Delete", "Get"}, key : Keys]

Databases == [Keys -> Values \cup {None}]

EmptyDatabase == [k \in Keys |-> None]

\* The database after a command.
handle_command(db, cmd) ==
    IF cmd.type = "Put" THEN [db EXCEPT ![cmd.key] = cmd.value]
    ELSE IF cmd.type = "Delete" THEN [db EXCEPT ![cmd.key] = None]
    ELSE db

\* What the client is told: a read result for a Get, otherwise that it is done.
response_to(db, cmd, id) ==
    IF cmd.type = "Get" THEN [type |-> "Read", id |-> id, value |-> db[cmd.key]]
    ELSE [type |-> "Write", id |-> id]
==============================================================================
