------------------------------ MODULE AuditLog ------------------------------
(***************************************************************************)
(* What the audit log of tool calls promises (internal/storage/models.go,  *)
(* ToolCall; internal/mcpserver/recorder.go): a table that only grows, in  *)
(* which a call has at most one row, written before the call is answered   *)
(* or not at all.  ToolCalls implements it.                                *)
(***************************************************************************)
EXTENDS Sequences

CONSTANTS Calls, Actors

VARIABLES
    log,      \* the rows, oldest first
    closed    \* the calls whose answer has left, or will never leave

vars == <<log, closed>>

Entries == [call : Calls, actor : Actors, isError : BOOLEAN]

Logged(c) == \E i \in DOMAIN log : log[i].call = c

Init == log = << >> /\ closed = {}

Write(e) ==
    /\ e.call \notin closed
    /\ ~Logged(e.call)
    /\ log' = Append(log, e)
    /\ UNCHANGED closed

(* Calls end: one is answered, or all that run die with their process.     *)
Close(C) ==
    /\ closed' = closed \cup C
    /\ UNCHANGED log

Next ==
    \/ \E e \in Entries : Write(e)
    \/ \E C \in SUBSET Calls : Close(C)

Spec == Init /\ [][Next]_vars
=============================================================================
