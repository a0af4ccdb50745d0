------------------------------ MODULE ErrorLog ------------------------------
(***************************************************************************)
(* The error log (components/error_log/error_log.c): a ring of entries,    *)
(* s_head and s_count, written by any task through error_log_add and read  *)
(* by the web server through error_log_to_json, with no lock.  A step is   *)
(* one access to the shared variables; a data race is their interleaving.  *)
(***************************************************************************)
EXTENDS Naturals, Sequences, FiniteSets

CONSTANTS
  Writers,   \* tasks that call error_log_add
  Size,      \* ERROR_LOG_MAX_ENTRIES
  MaxAdds,   \* bound: calls of error_log_add
  MaxExports \* bound: calls of error_log_to_json

ASSUME LogAssumption ==
  Size \in Nat \ {0} /\ MaxAdds \in Nat /\ MaxExports \in Nat

VARIABLES
  entries,  \* s_entries: the call that wrote the header fields and the one
            \* that wrote the message of each entry; 0 for an empty one
  head,     \* s_head
  count,    \* s_count
  pc,       \* where each writer is in error_log_add
  call,     \* the call a writer is executing, numbered from 1
  slot,     \* e: the entry it writes
  reg,      \* the value it loaded of s_head or s_count
  calls,    \* calls so far
  rpc,      \* "idle" or "export": the web server task
  export,   \* the entries copied by error_log_to_json so far
  exports,  \* exports so far
  calm      \* history: no writer has run since the export began

logVars == <<entries, head, count, pc, call, slot, reg, calls>>
readVars == <<rpc, export, exports, calm>>
vars == <<entries, head, count, pc, call, slot, reg, calls, rpc, export, exports, calm>>

Ring == 0..(Size - 1)
Calls == 0..MaxAdds

Init ==
  /\ entries = [i \in Ring |-> [meta |-> 0, message |-> 0]]
  /\ head = 0 /\ count = 0
  /\ pc = [w \in Writers |-> "idle"]
  /\ call = [w \in Writers |-> 0]
  /\ slot = [w \in Writers |-> 0]
  /\ reg = [w \in Writers |-> 0]
  /\ calls = 0
  /\ rpc = "idle" /\ export = <<>> /\ exports = 0 /\ calm = TRUE

-----------------------------------------------------------------------------
(* error_log_add, statement by statement.                                   *)
Step(w, from, to) ==
  /\ pc[w] = from /\ pc' = [pc EXCEPT ![w] = to]
  /\ calm' = FALSE
  /\ UNCHANGED <<rpc, export, exports>>

(* Mutant of AddBegin: the slot after the head is written.                  *)
AddBeginNext(w) ==
  /\ calls < MaxAdds
  /\ Step(w, "idle", "meta")
  /\ calls' = calls + 1
  /\ call' = [call EXCEPT ![w] = calls + 1]
  /\ slot' = [slot EXCEPT ![w] = (head + 1) % Size]
  /\ UNCHANGED <<entries, head, count, reg>>

AddBegin(w) ==
  /\ calls < MaxAdds
  /\ Step(w, "idle", "meta")
  /\ calls' = calls + 1
  /\ call' = [call EXCEPT ![w] = calls + 1]
  /\ slot' = [slot EXCEPT ![w] = head]
  /\ UNCHANGED <<entries, head, count, reg>>

WriteMeta(w) ==
  /\ Step(w, "meta", "message")
  /\ entries' = [entries EXCEPT ![slot[w]].meta = call[w]]
  /\ UNCHANGED <<head, count, call, slot, reg, calls>>

WriteMessage(w) ==
  /\ Step(w, "message", "loadHead")
  /\ entries' = [entries EXCEPT ![slot[w]].message = call[w]]
  /\ UNCHANGED <<head, count, call, slot, reg, calls>>

LoadHead(w) ==
  /\ Step(w, "loadHead", "storeHead")
  /\ reg' = [reg EXCEPT ![w] = head]
  /\ UNCHANGED <<entries, head, count, call, slot, calls>>

(* Mutant of StoreHead: the head does not wrap around.                      *)
StoreHeadUnwrapped(w) ==
  /\ Step(w, "storeHead", "loadCount")
  /\ head' = reg[w] + 1
  /\ UNCHANGED <<entries, count, call, slot, reg, calls>>

StoreHead(w) ==
  /\ Step(w, "storeHead", "loadCount")
  /\ head' = (reg[w] + 1) % Size
  /\ UNCHANGED <<entries, count, call, slot, reg, calls>>

LoadCount(w) ==
  /\ Step(w, "loadCount", "storeCount")
  /\ reg' = [reg EXCEPT ![w] = count]
  /\ UNCHANGED <<entries, head, count, call, slot, calls>>

(* Mutant of StoreCount: the count is not capped.                           *)
StoreCountUncapped(w) ==
  /\ Step(w, "storeCount", "idle")
  /\ count' = reg[w] + 1
  /\ UNCHANGED <<entries, head, call, slot, reg, calls>>

StoreCount(w) ==
  /\ Step(w, "storeCount", "idle")
  /\ count' = IF reg[w] < Size THEN reg[w] + 1 ELSE count
  /\ UNCHANGED <<entries, head, call, slot, reg, calls>>

-----------------------------------------------------------------------------
(* error_log_get: the index of the i-th oldest entry.  C's % of a negative  *)
(* number would be negative; NeverOutOfRange shows that it is not.          *)
Actual(i) == ((head + i + Size) - count) % Size

(* Mutant of EntryAt: the newest entry is not the last.                     *)
EntryAtShifted(i) == entries[(Actual(i) + 1) % Size]

EntryAt(i) == entries[Actual(i)]

(* error_log_to_json: one entry of the loop at a time, the bound of the     *)
(* loop and the position computed afresh from s_count and s_head.           *)
ExportBegin ==
  /\ rpc = "idle" /\ exports < MaxExports
  /\ rpc' = "export" /\ export' = <<>> /\ exports' = exports + 1
  /\ calm' = \A w \in Writers : pc[w] = "idle"
  /\ UNCHANGED logVars

ExportEntry ==
  /\ rpc = "export" /\ Len(export) < count
  /\ export' = Append(export, EntryAt(Len(export)))
  /\ UNCHANGED <<rpc, exports, calm>> /\ UNCHANGED logVars

ExportEnd ==
  /\ rpc = "export" /\ Len(export) >= count
  /\ rpc' = "idle"
  /\ UNCHANGED <<export, exports, calm>> /\ UNCHANGED logVars

Write(w) ==
  \/ AddBegin(w) \/ WriteMeta(w) \/ WriteMessage(w) \/ LoadHead(w)
  \/ StoreHead(w) \/ LoadCount(w) \/ StoreCount(w)

Next ==
  \/ \E w \in Writers : Write(w)
  \/ ExportBegin \/ ExportEntry \/ ExportEnd

Spec == Init /\ [][Next]_vars

-----------------------------------------------------------------------------
(* The shape of the state.                                                  *)
TypeOK ==
  /\ entries \in [Ring -> [meta : Calls, message : Calls]]
  /\ head \in Ring /\ count \in Nat
  /\ pc \in [Writers -> {"idle", "meta", "message", "loadHead", "storeHead",
                         "loadCount", "storeCount"}]
  /\ call \in [Writers -> Calls] /\ slot \in [Writers -> Ring]
  /\ reg \in [Writers -> Nat]
  /\ calls \in Calls /\ exports \in 0..MaxExports
  /\ rpc \in {"idle", "export"}
  /\ export \in Seq([meta : Calls, message : Calls])
  /\ calm \in BOOLEAN

(* However the tasks race, the count never exceeds the ring, so that the    *)
(* subtraction in error_log_get never makes C's % negative and no entry     *)
(* outside the array is read (39-40, 60).                                   *)
NeverOutOfRange == count <= Size

(* With one task adding at a time, the entries that error_log_get can       *)
(* return are the abstract log.  A writer that has moved the head but not   *)
(* yet the count has added its entry; one that is filling the slot of the   *)
(* oldest entry of a full ring has forgotten that one.                      *)
Added(w) == pc[w] \in {"loadCount", "storeCount"} /\ count < Size
Overwriting(w) == pc[w] \in {"message", "loadHead", "storeHead"} /\ count = Size
stored == (count + Cardinality({w \in Writers : Added(w)}))
            - Cardinality({w \in Writers : Overwriting(w)})
oldest == (head + Size
             - (count + Cardinality({w \in Writers : Added(w)})))
            + Cardinality({w \in Writers : Overwriting(w)})
View == [i \in 1..stored |-> entries[(oldest + i - 1) % Size]]

Abstract == INSTANCE BoundedLog
  WITH log <- View, Entries <- {[meta |-> e, message |-> e] : e \in 1..MaxAdds}

(* error_log_add implements the abstract log when one task calls it.        *)
ImplementsBoundedLog == Abstract!Spec

(* An export that no writer disturbed is the log, oldest entry first, with  *)
(* no entry twice and none torn (57-87).                                    *)
CalmExportExact ==
  calm /\ Len(export) >= count /\ rpc = "export" =>
    /\ Len(export) = IF calls < Size THEN calls ELSE Size
    /\ \A i \in DOMAIN export :
         LET e == (calls - Len(export)) + i IN export[i] = [meta |-> e, message |-> e]
=============================================================================
