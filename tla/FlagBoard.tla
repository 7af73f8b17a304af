----------------------------- MODULE FlagBoard -----------------------------
(***************************************************************************)
(* What FlagController promises its clients: the flags are a board that    *)
(* every change rewrites at one moment between its request and its answer, *)
(* and the answer says what was written.  An evaluation and a list answer  *)
(* with what stood on the board meanwhile, a get with what stood there     *)
(* once.  A request that ends in an error may take effect still, once.     *)
(*                                                                         *)
(* FlagServer implements it with caches, transactions and failures.        *)
(***************************************************************************)
EXTENDS Flags

CONSTANTS
  Threads,     \* the worker threads
  Request      \* the requests there are

VARIABLES
  board,       \* board[n]: the flag under name n
  past,        \* every flag that ever stood on the board
  served,      \* served[t]: the request under way on t, if it is done and what it knows
  said,        \* the answer the last step gave; its status is "none" if it gave none
  unsettled    \* changes answered with an error that may take effect still

boardVars == <<board, past, served, said, unsettled>>

Silent == said'.status = "none"

BoardInit ==
  /\ board \in [Name -> FlagOrNone]
  /\ past = {board[n] : n \in Name} \ {NoFlag}
  /\ DOMAIN served = {}
  /\ said.status = "none"
  /\ unsettled = {}

Serving(r, done, rows) == [req |-> r, done |-> done, rows |-> rows]

Answer(t, status, rows) ==
  /\ served' = [u \in DOMAIN served \ {t} |-> served[u]]
  /\ said' = [req |-> served[t].req, status |-> status, rows |-> rows]

(* Request r turns flag old into flag new. *)
Edition(id, n, body, enabled, version) ==
  [id |-> id, env |-> n[1], key |-> n[2],
   body |-> body, enabled |-> enabled, version |-> version]

Follows(r, old, new) ==
  \/ /\ r.op = "create" /\ old = NoFlag /\ new # NoFlag
     /\ new = Edition(new.id, r.name, r.body, r.enabled, 1)
     /\ \A f \in past : f.id # new.id
  \/ /\ r.op = "update" /\ old # NoFlag
     /\ new = Edition(old.id, r.name, r.body, r.enabled, old.version + 1)
  \/ /\ r.op = "toggle" /\ old # NoFlag
     /\ new = Edition(old.id, r.name, old.body, ~old.enabled, old.version + 1)
  \/ r.op = "delete" /\ old # NoFlag /\ new = NoFlag

Rewrite(r) ==
  /\ Follows(r, board[r.name], board'[r.name])
  /\ board' = [board EXCEPT ![r.name] = board'[r.name]]
  /\ past' = past \cup ({board'[r.name]} \ {NoFlag})
-----------------------------------------------------------------------------
Ask(t) ==
  /\ t \in DOMAIN served' \ DOMAIN served
  /\ served'[t].req \in Request
  /\ served' = [u \in DOMAIN served \cup {t} |->
                  IF u = t THEN Serving(served'[t].req, FALSE, {}) ELSE served[u]]
  /\ Silent
  /\ UNCHANGED <<board, past, unsettled>>

(* The change takes effect, and its answer is settled. *)
Change(t) ==
  LET r == served[t].req IN
  /\ ~served[t].done /\ Rewrite(r)
  /\ served' = [served EXCEPT ![t] = Serving(r, TRUE, {<<r.name, board'[r.name]>>})]
  /\ Silent
  /\ unsettled' \subseteq unsettled

AnswerChange(t) ==
  /\ served[t].done
  /\ Answer(t, "ok", served[t].rows)
  /\ UNCHANGED <<board, past, unsettled>>

(* An evaluation takes a flag from the board, each flag once.              *)
Unread(t) == served[t].req.names \ {row[1] : row \in served[t].rows}

Look(t) ==
  LET r == served[t].req
      rows == served[t].rows IN
  /\ r.op \in {"evaluate", "evaluate_bulk"}
  /\ \E n \in Unread(t) :
       /\ board[n] # NoFlag
       /\ served' = [served EXCEPT ![t] = Serving(r, FALSE, rows \cup {<<n, board[n]>>})]
  /\ Silent
  /\ UNCHANGED <<board, past, unsettled>>

AnswerEvaluation(t) ==
  /\ served[t].req.op \in {"evaluate", "evaluate_bulk"}
  /\ \E n \in Name :
       /\ Unread(t) = {n} /\ board[n] # NoFlag
       /\ Answer(t, "ok", served[t].rows \cup {<<n, board[n]>>})
  /\ UNCHANGED <<board, past, unsettled>>

AnswerList(t) ==
  /\ served[t].req.op = "list"
  /\ Answer(t, "ok", {<<n, board[n]>> : n \in {m \in served[t].req.names : board[m] # NoFlag}})
  /\ UNCHANGED <<board, past, unsettled>>

AnswerGet(t) ==
  LET r == served[t].req IN
  /\ r.op = "get"
  /\ \E f \in past :
       /\ NameOf(f) = r.name
       /\ \/ Answer(t, "ok", {<<r.name, f>>})
          \/ /\ r.inm # NoFlag /\ r.inm.version = f.version
             /\ Answer(t, "not_modified", {<<r.name, f>>})
  /\ UNCHANGED <<board, past, unsettled>>

(* The board does not allow what is asked for. *)
Refuse(t) ==
  LET r == served[t].req IN
  /\ ~served[t].done
  /\ \/ /\ r.op \notin {"create", "list"}
        /\ \E n \in r.names : board[n] = NoFlag /\ Answer(t, "not_found", {<<n, NoFlag>>})
     \/ /\ r.op = "create" /\ board[r.name] # NoFlag
        /\ Answer(t, "conflict", {<<r.name, board[r.name]>>})
  /\ UNCHANGED <<board, past, unsettled>>

(* An error: nothing has happened.  It still may, unless the board forgets. *)
Fail(t) ==
  /\ ~served[t].done
  /\ Answer(t, "error", {})
  /\ unsettled' \subseteq unsettled \cup {served[t].req}
  /\ UNCHANGED <<board, past>>

Settle(r) ==
  /\ Rewrite(r) /\ Silent
  /\ unsettled' = unsettled \ {r}
  /\ UNCHANGED served

(* Requests are lost in a crash, or nothing happens that clients see.      *)
Vanish ==
  /\ Silent
  /\ \E gone \in SUBSET DOMAIN served :
       served' = [t \in DOMAIN served \ gone |-> served[t]]
  /\ UNCHANGED <<board, past, unsettled>>

BoardNext ==
  \/ Vanish
  \/ \E r \in unsettled : Settle(r)
  \/ \E t \in Threads : Ask(t)
  \/ \E t \in DOMAIN served :
       \/ Change(t) \/ AnswerChange(t)
       \/ Look(t) \/ AnswerEvaluation(t) \/ AnswerList(t) \/ AnswerGet(t)
       \/ Refuse(t) \/ Fail(t)

BoardSpec == BoardInit /\ [][BoardNext]_boardVars
=============================================================================
