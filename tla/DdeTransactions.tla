-------------------------- MODULE DdeTransactions ---------------------------
(***************************************************************************)
(* The transactions of one DDEML conversation (ddeml/xact.rs: transact,    *)
(* send, server_dde, reply, client_dde, answer, finish, abandon_one) and   *)
(* the posts that carry them (ddeml/conv.rs: post_dde, repost).  The       *)
(* client and the server are two tasks.  A message says which item it is   *)
(* for and no more: an answer is matched to a transaction by that, and to  *)
(* the right one by the order all goes in.                                 *)
(***************************************************************************)
EXTENDS Integers, SequencesExt

CONSTANTS
  Item,      \* what is asked for and poked
  MaxSent,   \* BOUND: transactions begun
  Places,    \* BOUND: messages of the conversation a task's queue holds
  Tries      \* how often a post is tried: five times

ASSUME TransactionsAssumption == /\ MaxSent \in Nat
                                 /\ Places \in Nat \ {0}
                                 /\ Tries \in Nat \ {0}

VARIABLES
  begun,        \* history: the transactions, as they were begun
  pool,         \* the asynchronous ones of the client's, in order (its word 3Ah)
  sync,         \* the synchronous one that is waited for; nought, none
  answered,     \* those of both that have their answer
  completions,  \* XTYP_XACT_COMPLETE waiting to be called back
  requests,     \* the server's callbacks waiting
  wire,         \* each side's messages posted, not dispatched
  posting,      \* each side's posts being tried, the innermost first
  kept,         \* each side's posts kept to be posted again (its word 34h)
  timer,        \* each side's timer 4 is set
  answerOf,     \* history: the transaction whose answer each was given
  loose         \* history: what a program did that takes the order's promise away

transactionsVars == <<begun, pool, sync, answered, completions, requests, wire, posting,
                      kept, timer, answerOf, loose>>

client == <<pool, sync, answered, completions, answerOf>>
posts == <<wire, posting, kept, timer>>

-----------------------------------------------------------------------------
(* State.                                                                  *)

Side == {"client", "server"}
Number == 1 .. MaxSent

\* A message is about a transaction: it (the client's), or its answer: data or a
\* positive acknowledgement (yes), or a negative one.
Post == [n : Number, yes : BOOLEAN]

Sent == 1 .. Len(begun)
Async == ToSet(pool)

\* The type of the state: each list holds a transaction once.
TransactionsTypeOK ==
  /\ begun \in Seq([item : Item, kind : {"request", "poke"}])
  /\ pool \in Seq(Number) /\ completions \in Seq(Number) /\ requests \in Seq(Number)
  /\ IsInjective(pool) /\ IsInjective(completions) /\ IsInjective(requests)
  /\ sync \in Number \cup {0} /\ answered \subseteq Number
  /\ \A s \in Side :
       /\ wire[s] \in Seq(Post) /\ Len(wire[s]) <= Places
       /\ kept[s] \in Seq(Post) /\ timer[s] \in BOOLEAN
       /\ posting[s] \in Seq([post : Post, tries : 1 .. Tries])
  /\ answerOf \in [Number -> Number \cup {0}]
  /\ loose \subseteq {"again", "within"}

TransactionsInit ==
  /\ begun = <<>> /\ pool = <<>> /\ sync = 0 /\ answered = {}
  /\ completions = <<>> /\ requests = <<>>
  /\ wire = [s \in Side |-> <<>>] /\ posting = wire /\ kept = wire
  /\ timer = [s \in Side |-> FALSE]
  /\ answerOf = [n \in Number |-> 0] /\ loose = {}

-----------------------------------------------------------------------------
(* Posts.                                                                  *)

\* Mutant: a post goes ahead of those kept where there is room.
AheadOfKept(s) == kept[s] # <<>> /\ Len(wire[s]) = Places

\* Posts are kept, and a new one goes behind them.
BehindKept(s) == kept[s] # <<>>

\* Posts after the first n.
LeftAfterPosts(list, n) == SubSeq(list, n + 1, Len(list))

\* The posts kept tried again in order (repost): where one fails it stays, with those
\* behind it, and the timer is set.
Repost(s, list, set) ==
  LET room == Places - Len(wire[s])
      n == IF Len(list) < room THEN Len(list) ELSE room
      left == LeftAfterPosts(list, n)
  IN /\ wire' = [wire EXCEPT ![s] = @ \o SubSeq(list, 1, n)]
     /\ kept' = [kept EXCEPT ![s] = left]
     /\ timer' = [timer EXCEPT ![s] = set \/ left # <<>>]

\* A post: behind those kept, or tried.
PostDde(s, post) ==
  IF BehindKept(s)
  THEN Repost(s, Append(kept[s], post), timer[s]) /\ UNCHANGED posting
  ELSE IF Len(wire[s]) < Places
  THEN wire' = [wire EXCEPT ![s] = Append(@, post)] /\ UNCHANGED <<posting, kept, timer>>
  ELSE /\ posting' = [posting EXCEPT ![s] = <<[post |-> post, tries |-> 1]>> \o @]
       /\ UNCHANGED <<wire, kept, timer>>

\* Back from its Yield a task tries again; back from the one after the last try it
\* keeps the post, whether or not there is room by now.
TryAgain(s) ==
  LET try == Head(posting[s])
      over == try.tries = Tries
      room == Len(wire[s]) < Places
  IN /\ posting[s] # <<>>
     /\ \/ /\ ~over /\ room
           /\ wire' = [wire EXCEPT ![s] = Append(@, try.post)]
           /\ posting' = [posting EXCEPT ![s] = Tail(@)]
           /\ UNCHANGED kept
        \/ /\ ~over /\ ~room
           /\ posting' = [posting EXCEPT ![s][1].tries = @ + 1]
           /\ UNCHANGED <<wire, kept>>
        \/ /\ over
           /\ kept' = [kept EXCEPT ![s] = Append(@, try.post)]
           /\ posting' = [posting EXCEPT ![s] = Tail(@)]
           /\ UNCHANGED wire
     /\ UNCHANGED <<begun, client, requests, timer, loose>>

\* A side dispatches messages, and its program goes on: not in the middle of a post.
Free(s) == posting[s] = <<>>

\* Timer 4.
TimerDue(s) ==
  /\ Free(s) /\ timer[s]
  /\ Repost(s, kept[s], FALSE)
  /\ UNCHANGED <<begun, client, requests, posting, loose>>

\* DdeEnableCallback, for what it does to the posts kept.
Enable(s) ==
  /\ Free(s) /\ kept[s] # <<>>
  /\ Repost(s, kept[s], timer[s])
  /\ UNCHANGED <<begun, client, requests, posting, loose>>

-----------------------------------------------------------------------------
(* The client.                                                             *)

\* All the places a transaction or its answer is on its way in, nearest the client first.
OnTheWay ==
  LET numbers(list) == [i \in DOMAIN list |-> list[i].n]
      held(s) == [i \in DOMAIN posting[s] |-> posting[s][i].post.n]
  IN numbers(wire["server"]) \o numbers(kept["server"]) \o held("server") \o requests
     \o numbers(wire["client"]) \o numbers(kept["client"]) \o held("client")

\* Transactions that still wait for their answer.
Awaiting == {n \in Async \cup ({sync} \ {0}) : n \notin answered}

\* Of what is on its way nobody waits for these any more.
Late == ToSet(OnTheWay) \ Awaiting

\* A transaction begun (transact, send): asynchronously, or waited for. The program
\* may do so in a procedure another task's message runs in a Yield of a post.
Transact(item, kind, waits) ==
  LET n == Len(begun) + 1
      sameLate == \E m \in Late : begun[m].item = item
      sameAwaited == \E m \in Awaiting : begun[m].item = item
  IN /\ n <= MaxSent
     /\ sync = 0
     /\ Len(posting["client"]) < 2 /\ (waits => Free("client"))
     /\ begun' = Append(begun, [item |-> item, kind |-> kind])
     /\ IF waits THEN sync' = n /\ UNCHANGED pool
        ELSE pool' = Append(pool, n) /\ UNCHANGED sync
     /\ PostDde("client", [n |-> n, yes |-> TRUE])
     /\ loose' = loose \cup (IF sameLate \/ (waits /\ sameAwaited) THEN {"again"} ELSE {})
                       \cup (IF Free("client") THEN {} ELSE {"within"})
     /\ UNCHANGED <<answered, completions, answerOf, requests>>

\* Mutant: an acknowledgement is looked for from the latest transaction.
LastOf(places) == CHOOSE i \in places : \A j \in places : j <= i

\* Of the places of those an answer may be to, that of the transaction it is matched to.
FirstOf(places) == CHOOSE i \in places : \A j \in places : i <= j

\* Whether an answer is matched to a transaction (matches): by the item, and data
\* only to a request.
Matches(answer, n) ==
  /\ n \notin answered
  /\ begun[n].item = begun[answer.n].item
  /\ answer.yes /\ begun[answer.n].kind = "request" => begun[n].kind = "request"

\* A transaction's state moves on when its answer is taken.
Answered(n) == answered \cup {n}

\* Asked for data, a transaction is not answered by an acknowledgement of another's.
Unfit(answer, n) ==
  answer.yes /\ begun[answer.n].kind = "poke" /\ begun[n].kind = "request"

\* An answer dispatched (client_dde, answer, finish): to the synchronous transaction,
\* or to the first of the others, which is to be called back; where it matches none,
\* or does not fit the one it matches, it is thrown away.
TakeAnswer ==
  LET answer == Head(wire["server"])
      asked == IF sync = 0 THEN pool ELSE <<sync>> \o pool
      fit == {i \in DOMAIN asked : Matches(answer, asked[i])}
      n == asked[FirstOf(fit)]
  IN /\ Free("client") /\ wire["server"] # <<>>
     /\ wire' = [wire EXCEPT !["server"] = Tail(@)]
     /\ IF fit = {} \/ Unfit(answer, n)
        THEN UNCHANGED <<answered, answerOf, completions>>
        ELSE /\ answered' = Answered(n)
             /\ answerOf' = [answerOf EXCEPT ![n] = answer.n]
             /\ completions' = IF n = sync THEN completions ELSE Append(completions, n)
     /\ UNCHANGED <<begun, pool, sync, requests, posting, kept, timer, loose>>

\* The wait is over: answered, or at its time-out.
WaitEnds ==
  /\ Free("client") /\ sync # 0
  /\ sync' = 0
  /\ UNCHANGED <<begun, pool, answered, completions, answerOf, requests, posts, loose>>

\* Mutant: the record of a transaction completed stays.
KeepRecord(n) == pool

\* A transaction completed, its record goes, if it is still there.
DropRecord(n) ==
  IF n \in Async THEN RemoveAt(pool, CHOOSE i \in DOMAIN pool : pool[i] = n) ELSE pool

\* XTYP_XACT_COMPLETE called back.
Complete ==
  /\ Free("client") /\ completions # <<>>
  /\ completions' = Tail(completions)
  /\ pool' = DropRecord(Head(completions))
  /\ UNCHANGED <<begun, sync, answered, answerOf, requests, posts, loose>>

\* DdeAbandonTransaction, for one or all. A completion waiting still comes.
Abandon(gone, left) ==
  /\ Free("client") /\ gone # {}
  /\ pool' = left
  /\ loose' = IF \E m \in gone \cap Awaiting, n \in Awaiting \ gone : begun[m].item = begun[n].item
              THEN loose \cup {"again"} ELSE loose
  /\ UNCHANGED <<begun, sync, answered, completions, answerOf, requests, posts>>

-----------------------------------------------------------------------------
(* The server.                                                             *)

\* A message dispatched (server_dde): a callback waits.
TakeRequest ==
  /\ Free("server") /\ wire["client"] # <<>>
  /\ requests' = Append(requests, Head(wire["client"]).n)
  /\ wire' = [wire EXCEPT !["client"] = Tail(@)]
  /\ UNCHANGED <<begun, client, posting, kept, timer, loose>>

\* The callback made and its answer posted (reply).
Reply(yes) ==
  /\ Free("server") /\ requests # <<>>
  /\ requests' = Tail(requests)
  /\ PostDde("server", [n |-> Head(requests), yes |-> yes])
  /\ UNCHANGED <<begun, client, loose>>

TransactionsNext ==
  \/ \E s \in Side : TryAgain(s) \/ TimerDue(s) \/ Enable(s)
  \/ \E item \in Item, kind \in {"request", "poke"}, waits \in BOOLEAN :
       Transact(item, kind, waits)
  \/ TakeAnswer \/ WaitEnds \/ Complete
  \/ \E n \in Async : Abandon({n}, DropRecord(n))
  \/ Abandon(Async, <<>>)
  \/ TakeRequest \/ \E yes \in BOOLEAN : Reply(yes)

TransactionsSpec == TransactionsInit /\ [][TransactionsNext]_transactionsVars

-----------------------------------------------------------------------------
(* Properties.                                                             *)

\* What is on its way is in the order it was begun, over posts kept and tried again
\* and both sides (post_dde, "behind the posts kept"), and is in one place; unless a
\* procedure run in the middle of a post begins another, which may go first.
OnTheWayInOrder ==
  "within" \in loose \/
    \A i, j \in DOMAIN OnTheWay : i < j => OnTheWay[i] < OnTheWay[j]

\* No answer is given to another's transaction, though items are all that is matched
\* (client_dde). That takes programs that do not wait for an item while they ask for
\* it otherwise, nor ask again for one whose answer they gave up, before it has come.
OwnAnswers == loose # {} \/ \A n \in Sent : answerOf[n] \in {0, n}

\* A transaction whose answer is waited for is on its way, or its answer is: no full
\* queue, post kept or answer taken loses it.
NoneLost == loose # {} \/ Awaiting \subseteq ToSet(OnTheWay)

\* Queues that fill neither lose nor turn round what is between the two (post_dde).
KeptSafe == OnTheWayInOrder /\ NoneLost

\* An asynchronous transaction with its answer is called back for once.
CalledBackOnce ==
  \A n \in Async : n \in answered <=> \E i \in DOMAIN completions : completions[i] = n

\* A post that is kept is to be posted again on timer 4 (conv.rs:961-964 and
\* kb/topics/dynamic-data-exchange.md:129).
KeptIsTimed == \A s \in Side : kept[s] # <<>> => timer[s]
=============================================================================
