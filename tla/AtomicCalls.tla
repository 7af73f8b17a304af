----------------------------- MODULE AtomicCalls -----------------------------
(***************************************************************************)
(* What the methods of the repositories promise: a call takes effect on    *)
(* its row at one moment while it is under way, or not at all, and its     *)
(* answer tells what it did.  The exception is the answer "error": the     *)
(* call may have taken effect, and if not it may still do so later.        *)
(*                                                                         *)
(* FlagServer takes this for granted.                                      *)
(***************************************************************************)
EXTENDS Statements

CONSTANTS
  Threads,     \* the worker threads
  Rows         \* the primary keys called for

VARIABLES
  table,       \* table[r]: the committed version of row r
  call,        \* call[t]: the call t has under way
  answer,      \* answer[t]: the answer to t, Error until there is one
  doubt        \* doubt[r]: a call that ended in an error and may take effect

atomicVars == <<table, call, answer, doubt>>

AtomicInit ==
  /\ table \in [Rows -> 0..MaxVersion]
  /\ call = [t \in Threads |-> NoCall]
  /\ answer = [t \in Threads |-> Error]
  /\ doubt = [r \in Rows |-> "none"]

Ask(t) ==
  /\ call[t] = NoCall
  /\ \E op \in Op, r \in Rows :
       call' = [call EXCEPT ![t] = [op |-> op, row |-> r, result |-> Error]]
  /\ answer' = [answer EXCEPT ![t] = Error]
  /\ UNCHANGED <<table, doubt>>

(* A change waits until none is in doubt on its row. *)
Perform(t) ==
  /\ call[t] # NoCall /\ call[t].result = Error
  /\ LET r == call[t].row IN
     /\ Changes(call[t].op, table[r]) => doubt[r] = "none"
     /\ table' = [table EXCEPT ![r] = After(call[t].op, @)]
     /\ call' = [call EXCEPT ![t].result = Result(call[t].op, table[r])]
  /\ UNCHANGED <<answer, doubt>>

Return(t) ==
  /\ call[t] # NoCall /\ call[t].result # Error
  /\ answer' = [answer EXCEPT ![t] = call[t].result]
  /\ call' = [call EXCEPT ![t] = NoCall]
  /\ UNCHANGED <<table, doubt>>

(* A call that took effect is not in doubt any more, though t is not told. *)
Break(t) ==
  /\ call[t] # NoCall
  /\ answer' = [answer EXCEPT ![t] = Error]
  /\ call' = [call EXCEPT ![t] = NoCall]
  /\ \/ UNCHANGED doubt
     \/ /\ call[t].result = Error /\ doubt[call[t].row] = "none"
        /\ doubt' = [doubt EXCEPT ![call[t].row] = call[t].op]
  /\ UNCHANGED table

Settle(r) ==
  /\ doubt[r] # "none"
  /\ doubt' = [doubt EXCEPT ![r] = "none"]
  /\ \/ table' = [table EXCEPT ![r] = After(doubt[r], @)]
     \/ UNCHANGED table
  /\ UNCHANGED <<call, answer>>

AtomicNext ==
  \/ \E t \in Threads : Ask(t) \/ Perform(t) \/ Return(t) \/ Break(t)
  \/ \E r \in Rows : Settle(r)

Atomic == AtomicInit /\ [][AtomicNext]_atomicVars
=============================================================================
