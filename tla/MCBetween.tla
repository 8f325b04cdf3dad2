----------------------------- MODULE MCBetween ------------------------------
(* What lies between tasks, KERNEL's list of them, the clipboard, and       *)
(* DDEML's callbacks and transactions, in one run of TLC: they share no     *)
(* state here, and each goes on alone, the others as they began.  The last  *)
(* handle's priority is left as it is.  A program does one thing, not both, *)
(* that takes a promise of DDEML's away, and one that begins a transaction  *)
(* in the middle of a post begins two.                                      *)
EXTENDS TaskList, Clipboard, DdeCallbacks, DdeTransactions

CONSTANT FirstItem  \* items are alike, and the first transaction begun is of this

VARIABLE part  \* the one that goes on

BetweenInit ==
  /\ part \in {"list", "clipboard", "callbacks", "transactions"}
  /\ ListInit /\ ClipInit /\ CallbacksInit /\ TransactionsInit

BetweenNext ==
  /\ UNCHANGED part
  /\ \/ /\ part = "list" /\ ListNext
        /\ records'[Max(Handle)].priority = 0
        /\ UNCHANGED <<clipVars, callbacksVars, transactionsVars>>
     \/ /\ part = "clipboard" /\ ClipNext
        /\ UNCHANGED <<listVars, callbacksVars, transactionsVars>>
     \/ /\ part = "callbacks" /\ CallbacksNext
        /\ misused' # {"enabled", "ended"}
        /\ UNCHANGED <<listVars, clipVars, transactionsVars>>
     \/ /\ part = "transactions" /\ TransactionsNext
        /\ begun' # <<>> => begun'[1].item = FirstItem
        /\ loose' # {"again", "within"}
        /\ "within" \in loose' => Len(begun') <= 2
        /\ UNCHANGED <<listVars, clipVars, callbacksVars>>

BetweenSpec ==
  BetweenInit /\ [][BetweenNext]_<<part, listVars, clipVars, callbacksVars, transactionsVars>>

\* The types of what the clipboard, DDEML's callbacks and its transactions keep.
BetweenTypeOK == ClipTypeOK /\ CallbacksTypeOK /\ TransactionsTypeOK
=============================================================================
