--------------------------- MODULE PriceOracle ---------------------------
(***************************************************************************)
(* The price oracle service (price-oracle/src/oracle.rs).                  *)
(*                                                                         *)
(* Every PriceStream call creates a bounded futures mpsc channel, spawns a *)
(* price_processor task holding the sender and returns the receiver, which *)
(* tonic drains into the client's response stream.  The processor loops:   *)
(* sleep one second, fetch every subscribed price (each fetch may fail),   *)
(* feed the successful ones into the channel one by one in subscription    *)
(* order, then flush.  feed waits while the channel is full and fails once *)
(* the receiver is dropped; the failure is logged and the loop goes on.    *)
(* flush waits for capacity and succeeds on a dropped receiver.            *)
(*                                                                         *)
(* A price is abstracted to the token it is for; the Ethereum calls to     *)
(* the aggregator contracts are a nondeterministic success or failure.     *)
(***************************************************************************)
EXTENDS Naturals, Sequences, SequencesExt

CONSTANTS
  Client,     \* PriceStream requests (one response stream each)
  Tokens,     \* the subscription list, in its order (a sequence of tokens)
  Buffer      \* the buffer argument of mpsc::channel (256 in the code)

ASSUME Tokens # <<>> /\ IsInjective(Tokens)
ASSUME Buffer \in Nat

\* A futures mpsc channel holds buffer + (number of senders) messages
\* before the sender is parked; each channel here has one sender.
Cap == Buffer + 1

Token == ToSet(Tokens)

VARIABLES
  rx,      \* receiver of each stream: "none" before the call, "open", "dropped"
  proc,    \* the processor task: "none", "sleeping", "feeding"
  todo,    \* prices of the current round not fed yet, in order
  chan     \* prices sitting in each stream's channel, oldest first

vars == <<rx, proc, todo, chan>>

TypeOK ==
  /\ rx \in [Client -> {"none", "open", "dropped"}]
  /\ proc \in [Client -> {"none", "sleeping", "feeding"}]
  /\ todo \in [Client -> Seq(Token)]
  /\ chan \in [Client -> Seq(Token)]
  /\ \A c \in Client : Len(chan[c]) <= Cap

\* PriceOracle::new_with_subscription resolved every aggregator address and
\* the server is serving; no stream has been requested yet.
Init ==
  /\ rx = [c \in Client |-> "none"]
  /\ proc = [c \in Client |-> "none"]
  /\ todo = [c \in Client |-> <<>>]
  /\ chan = [c \in Client |-> <<>>]

\* get_price outcome for each token: the decimals call, the
\* latest_round_data call, and the negative-price check, any of which fails.
GetPrice == {"ok", "err"}

\* get_prices: the results of all tokens, in subscription order; the
\* processor keeps the successful ones.
GetPrices(res) == SelectSeq(Tokens, LAMBDA t : res[t] = "ok")

\* price_stream: a channel, a processor task spawned on it, the receiver
\* handed to tonic.
PriceStream(c) ==
  /\ rx[c] = "none"
  /\ rx' = [rx EXCEPT ![c] = "open"]
  /\ proc' = [proc EXCEPT ![c] = "sleeping"]
  /\ UNCHANGED <<todo, chan>>

\* price_processor: the one-second sleep ends and get_prices returns.
Fetch(c) ==
  /\ proc[c] = "sleeping"
  /\ \E res \in [Token -> GetPrice] :
       todo' = [todo EXCEPT ![c] = GetPrices(res)]
  /\ proc' = [proc EXCEPT ![c] = "feeding"]
  /\ UNCHANGED <<rx, chan>>

\* Mutant of Feed: a channel that takes a message whatever its capacity.
FeedUnbounded(c) ==
  /\ proc[c] = "feeding" /\ todo[c] # <<>>
  /\ \/ /\ rx[c] = "open"
        /\ chan' = [chan EXCEPT ![c] = Append(@, Head(todo[c]))]
     \/ /\ rx[c] = "dropped"
        /\ UNCHANGED chan
  /\ todo' = [todo EXCEPT ![c] = Tail(@)]
  /\ UNCHANGED <<rx, proc>>

\* Mutant of Feed: a send that waits for capacity even when the receiver
\* is gone, instead of failing.
FeedBlocking(c) ==
  /\ proc[c] = "feeding" /\ todo[c] # <<>>
  /\ rx[c] = "open" /\ Len(chan[c]) < Cap
  /\ chan' = [chan EXCEPT ![c] = Append(@, Head(todo[c]))]
  /\ todo' = [todo EXCEPT ![c] = Tail(@)]
  /\ UNCHANGED <<rx, proc>>

\* sender.feed(Ok(price)).await for the next successful price: it waits
\* while the channel is full; on a dropped receiver it returns an error,
\* which is logged, and the price is lost.
Feed(c) ==
  /\ proc[c] = "feeding" /\ todo[c] # <<>>
  /\ \/ /\ rx[c] = "open" /\ Len(chan[c]) < Cap
        /\ chan' = [chan EXCEPT ![c] = Append(@, Head(todo[c]))]
     \/ /\ rx[c] = "dropped"
        /\ UNCHANGED chan
  /\ todo' = [todo EXCEPT ![c] = Tail(@)]
  /\ UNCHANGED <<rx, proc>>

\* sender.flush().await: ready once the channel has capacity, or at once on
\* a dropped receiver; then the loop goes back to its sleep.
Flush(c) ==
  /\ proc[c] = "feeding" /\ todo[c] = <<>>
  /\ rx[c] = "dropped" \/ Len(chan[c]) < Cap
  /\ proc' = [proc EXCEPT ![c] = "sleeping"]
  /\ UNCHANGED <<rx, todo, chan>>

\* tonic takes the oldest price off the receiver for the response stream.
Recv(c) ==
  /\ rx[c] = "open" /\ chan[c] # <<>>
  /\ chan' = [chan EXCEPT ![c] = Tail(@)]
  /\ UNCHANGED <<rx, proc, todo>>

\* The client goes away: tonic drops the receiver and the prices in it.
\* Nothing tells the processor, which keeps its loop.
Disconnect(c) ==
  /\ rx[c] = "open"
  /\ rx' = [rx EXCEPT ![c] = "dropped"]
  /\ chan' = [chan EXCEPT ![c] = <<>>]
  /\ UNCHANGED <<proc, todo>>

Next ==
  \E c \in Client :
    \/ PriceStream(c) \/ Fetch(c) \/ Feed(c) \/ Flush(c)
    \/ Recv(c) \/ Disconnect(c)

\* Tokio runs every spawned processor step.  A client either keeps reading
\* its stream or eventually goes away; a client that stops reading and
\* stays connected is outside what the service can answer for.
Fairness ==
  \A c \in Client :
    /\ WF_vars(Fetch(c)) /\ WF_vars(Feed(c)) /\ WF_vars(Flush(c))
    /\ WF_vars(Recv(c) \/ Disconnect(c))

Spec == Init /\ [][Next]_vars /\ Fairness

-----------------------------------------------------------------------------
(* Properties.                                                              *)

\* Every round of prices the processor fetched is handed over and the
\* processor gets back to its sleep, also when its client disconnects in
\* the middle of the round with the channel full: no processor hangs in
\* feed or flush.  About the error path of sender.feed and sender.flush on
\* a dropped receiver.
RoundsComplete ==
  \A c \in Client : (proc[c] = "feeding") ~> (proc[c] = "sleeping")

=============================================================================
