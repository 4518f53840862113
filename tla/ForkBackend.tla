---------------------------- MODULE ForkBackend ----------------------------
(***************************************************************************)
(* The forked chain state (simulator/simulation/fork_db): ForkDB clients,  *)
(* one per EVM, each with its own local database, and the GlobalBackend    *)
(* future they share, which answers from its cache or fetches from the     *)
(* provider, once per key, and notifies every listener of the key.         *)
(*                                                                         *)
(* A client sends one request at a time and blocks, so the channel and the *)
(* queue of the backend are sets of requests: their order is left open.    *)
(* The provider answers or fails at any time; revm loads an account before *)
(* it reads a slot of it.                                                  *)
(***************************************************************************)
EXTENDS Naturals, FiniteSets

CONSTANTS
  Clients,          (* ForkDB instances.                                   *)
  Accounts,         (* Accounts that exist on the chain.                   *)
  Slots,            (* Storage slots.                                      *)
  Numbers,          (* Block numbers.                                      *)
  AccountOf         (* The account of each slot.                           *)

Keys == Accounts \cup Slots \cup Numbers

ASSUME ForkAssumption ==
  /\ AccountOf \in [Slots -> Accounts]
  /\ Accounts \cap Slots = {}
  /\ Accounts \cap Numbers = {}
  /\ Slots \cap Numbers = {}

VARIABLES
  pc,               (* The backend: asleep, or where its poll is.          *)
  woken,            (* Its waker has been called since the poll began.     *)
  incoming,         (* Requests in the channel.                            *)
  queued_requests,  (* Requests received and not yet looked at.            *)
  listeners,        (* account_, storage_ and block_requests.              *)
  pending,          (* pending_requests: the futures in progress.          *)
  todo,             (* The futures this round of the poll has not polled.  *)
  db,               (* The backend's cache.                                *)
  step,             (* What each client is doing.                          *)
  want,             (* The key each client has asked for, or wants to read *)
  reply,            (* The answer in each client's response channel.       *)
  loaded,           (* Accounts the client's EVM has loaded.               *)
  info,             (* The client's local database: account infos.         *)
  storage           (* The client's local database: slots.                 *)

backend_vars == << pc, woken, incoming, queued_requests, listeners, pending,
                   todo, db >>
local_vars == << loaded, info, storage >>
client_vars == << step, want, reply, local_vars >>
vars == << backend_vars, client_vars >>

-----------------------------------------------------------------------------

Requests == [client : Clients, key : Keys]

(* A future is known by its key and the request that made it.  It is lazy: *)
(* the provider is asked when it is polled first.                          *)
Futures == [key : Keys, by : Clients, state : {"new", "flying", "ok", "error"}]

(* The cache holds what the chain has; "empty" is the account that revm's  *)
(* CacheDB makes up when a slot of an unknown account is inserted.         *)
Cached == {"none", "chain", "empty"}

Answers == {"none", "chain", "empty", "error"}

(* A locally committed info is the EVM's "own".                            *)
Infos == {"none", "chain", "empty", "own"}

(* initial_db, made of a state difference: its accounts are fetched with   *)
(* it, so no slot is known without its account.                            *)
InitialDbs ==
  { known \in SUBSET (Accounts \cup Slots) :
      \A s \in Slots \cap known : AccountOf[s] \in known }

(* The factory may inject slots before it makes the clients: it fetches    *)
(* the account of each through the backend, and keeps the slot to itself.  *)
Injections(known) == SUBSET { s \in Slots : AccountOf[s] \in known }

(* The backend starts with the initial database and each client with a     *)
(* copy of it, the injected slots included.                                *)
Init ==
  /\ pc = "asleep"
  /\ woken = FALSE
  /\ incoming = {}
  /\ queued_requests = {}
  /\ listeners = [k \in Keys |-> {}]
  /\ pending = {}
  /\ todo = {}
  /\ step = [c \in Clients |-> "idle"]
  /\ want \in [Clients -> Keys]
  /\ reply = [c \in Clients |-> "none"]
  /\ loaded = [c \in Clients |-> {}]
  /\ \E known \in InitialDbs :
       /\ db = [k \in Keys |-> IF k \in known THEN "chain" ELSE "none"]
       /\ info = [c \in Clients |->
                   [a \in Accounts |-> IF a \in known THEN "chain" ELSE "none"]]
       /\ \E injected \in Injections(known) :
            storage = [c \in Clients |-> (Slots \cap known) \cup injected]

-----------------------------------------------------------------------------
(* ForkDB.                                                                 *)

(* do_get_...: try_send never finds the channel full, a fresh clone of the *)
(* sender has a slot of its own.  Then recv() blocks.                      *)
Ask(c, key) ==
  /\ incoming' = incoming \cup {[client |-> c, key |-> key]}
  /\ woken' = TRUE
  /\ reply' = [reply EXCEPT ![c] = "none"]
  /\ UNCHANGED << pc, queued_requests, listeners, pending, todo, db >>

Resolved(c) == reply[c] # "none"

(* basic(): found locally, or fetched.  Of Database it is kept, of         *)
(* DatabaseRef it is not.                                                  *)
LoadLocal(c, a) ==
  /\ step[c] = "idle"
  /\ info[c][a] # "none"
  /\ a \notin loaded[c]
  /\ loaded' = [loaded EXCEPT ![c] = @ \cup {a}]
  /\ UNCHANGED << backend_vars, step, want, reply, info, storage >>

AskBasic(c, a) ==
  /\ step[c] = "idle"
  /\ info[c][a] = "none"
  /\ a \notin loaded[c]
  /\ step' = [step EXCEPT ![c] = "basic"]
  /\ want' = [want EXCEPT ![c] = a]
  /\ Ask(c, a)
  /\ UNCHANGED local_vars

ReturnBasicUnchecked(c) ==   (* Mutant of ReturnBasic: errors are kept.   *)
  /\ step[c] = "basic"
  /\ Resolved(c)
  /\ step' = [step EXCEPT ![c] = "idle"]
  /\ loaded' = [loaded EXCEPT ![c] = @ \cup {want[c]}]
  /\ info' = [info EXCEPT ![c][want[c]] = reply[c]]
  /\ UNCHANGED << backend_vars, want, reply, storage >>

ReturnBasic(c) ==
  /\ step[c] = "basic"
  /\ Resolved(c)
  /\ step' = [step EXCEPT ![c] = "idle"]
  /\ IF reply[c] = "error"
     THEN UNCHANGED << loaded, info >>
     ELSE /\ loaded' = [loaded EXCEPT ![c] = @ \cup {want[c]}]
          /\ \E kept \in BOOLEAN :
               info' = IF kept THEN [info EXCEPT ![c][want[c]] = reply[c]] ELSE info
  /\ UNCHANGED << backend_vars, want, reply, storage >>

(* Database::storage asks for the account again, then for the slot.        *)
AskInfo(c, s) ==
  /\ step[c] = "idle"
  /\ s \notin storage[c]
  /\ AccountOf[s] \in loaded[c]
  /\ step' = [step EXCEPT ![c] = "info"]
  /\ want' = [want EXCEPT ![c] = s]
  /\ Ask(c, AccountOf[s])
  /\ UNCHANGED local_vars

KeepInfo(c) ==
  /\ step[c] = "info"
  /\ Resolved(c)
  /\ IF reply[c] = "error"
     THEN /\ step' = [step EXCEPT ![c] = "idle"]
          /\ UNCHANGED << backend_vars, reply, info >>
     ELSE /\ step' = [step EXCEPT ![c] = "value"]
          /\ info' = [info EXCEPT ![c][AccountOf[want[c]]] = reply[c]]
          /\ Ask(c, want[c])
  /\ UNCHANGED << want, loaded, storage >>

KeepValue(c) ==
  /\ step[c] = "value"
  /\ Resolved(c)
  /\ step' = [step EXCEPT ![c] = "idle"]
  /\ storage' = IF reply[c] = "error" THEN storage
                ELSE [storage EXCEPT ![c] = @ \cup {want[c]}]
  /\ UNCHANGED << backend_vars, want, reply, loaded, info >>

(* DatabaseRef::storage asks for the slot only; block_hash likewise.       *)
AskValue(c, k) ==
  /\ step[c] = "idle"
  /\ \/ k \in Slots \ storage[c] /\ AccountOf[k] \in loaded[c]
     \/ k \in Numbers
  /\ step' = [step EXCEPT ![c] = "reading"]
  /\ want' = [want EXCEPT ![c] = k]
  /\ Ask(c, k)
  /\ UNCHANGED local_vars

ReturnValue(c) ==
  /\ step[c] = "reading"
  /\ Resolved(c)
  /\ step' = [step EXCEPT ![c] = "idle"]
  /\ UNCHANGED << backend_vars, want, reply, local_vars >>

(* commit(): the EVM's changes to an account; then the next transaction.   *)
Commit(c) ==
  /\ step[c] = "idle"
  /\ \E changed \in SUBSET loaded[c] :
       info' = [info EXCEPT ![c] =
                  [a \in Accounts |-> IF a \in changed THEN "own" ELSE @[a]]]
  /\ loaded' = [loaded EXCEPT ![c] = {}]
  /\ UNCHANGED << backend_vars, step, want, reply, storage >>

-----------------------------------------------------------------------------
(* GlobalBackend::poll.                                                    *)

Wake ==
  /\ pc = "asleep"
  /\ woken
  /\ woken' = FALSE
  /\ pc' = "drain"
  /\ UNCHANGED << incoming, queued_requests, listeners, pending, todo, db,
                  client_vars >>

(* Mutant of Reply: an error is not reported.                              *)
ReplySuccess(cs, answer) ==
  reply' = [c \in Clients |-> IF c \in cs /\ answer # "error" THEN answer ELSE reply[c]]

(* Every sender in the list sends the answer.                              *)
Reply(cs, answer) == reply' = [c \in Clients |-> IF c \in cs THEN answer ELSE reply[c]]

(* Mutant of FetchFor: no look at the listeners.                           *)
FetchAnyway(r) == {[key |-> r.key, by |-> r.client, state |-> "new"]}

(* request_account and its siblings: Entry::Occupied starts no fetch.      *)
FetchFor(r) ==
  IF listeners[r.key] # {} THEN {}
  ELSE {[key |-> r.key, by |-> r.client, state |-> "new"]}

(* Drain queued requests first: on_request answers from the cache; or adds *)
(* a listener, and a future if the key has none yet.                       *)
OnRequest(r) ==
  /\ pc = "drain"
  /\ r \in queued_requests
  /\ queued_requests' = queued_requests \ {r}
  /\ IF db[r.key] # "none"
     THEN /\ Reply({r.client}, db[r.key])
          /\ UNCHANGED << listeners, pending >>
     ELSE /\ listeners' = [listeners EXCEPT ![r.key] = @ \cup {r.client}]
          /\ pending' = pending \cup FetchFor(r)
          /\ UNCHANGED reply
  /\ UNCHANGED << pc, woken, incoming, todo, db, step, want, local_vars >>

Drained ==
  /\ pc = "drain"
  /\ queued_requests = {}
  /\ pc' = "receive"
  /\ UNCHANGED << woken, incoming, queued_requests, listeners, pending, todo, db,
                  client_vars >>

Receive(r) ==
  /\ pc = "receive"
  /\ r \in incoming
  /\ incoming' = incoming \ {r}
  /\ queued_requests' = queued_requests \cup {r}
  /\ UNCHANGED << pc, woken, listeners, pending, todo, db, client_vars >>

PollStartedOnly ==   (* Mutant of Received: new futures are left out.     *)
  /\ pc = "receive"
  /\ incoming = {}
  /\ pc' = "poll"
  /\ todo' = { [key |-> f.key, by |-> f.by] : f \in { g \in pending : g.state # "new" } }
  /\ UNCHANGED << woken, incoming, queued_requests, listeners, pending, db,
                  client_vars >>

Received ==
  /\ pc = "receive"
  /\ incoming = {}
  /\ pc' = "poll"
  /\ todo' = { [key |-> f.key, by |-> f.by] : f \in pending }
  /\ UNCHANGED << woken, incoming, queued_requests, listeners, pending, db,
                  client_vars >>

(* Mutant of Insert: insert_account_info is forgotten.                     *)
InsertNoInfo(key) ==
  db' = [k \in Keys |->
           IF k = key /\ key \notin Accounts THEN "chain"
           ELSE IF key \in Slots /\ k = AccountOf[key] /\ db[k] = "none"
                THEN "empty"
                ELSE db[k]]

(* insert_account_storage makes up an unknown account.                     *)
Insert(key) ==
  db' = [k \in Keys |->
           IF k = key THEN "chain"
           ELSE IF key \in Slots /\ k = AccountOf[key] /\ db[k] = "none"
                THEN "empty"
                ELSE db[k]]

(* Mutant of Unlisten: the entry of the key is not removed.                *)
KeepListeners(key) == key \in Keys /\ UNCHANGED listeners

Unlisten(key) == listeners' = [listeners EXCEPT ![key] = {}]

(* A round polls every future once.  A future that is ready leaves the     *)
(* list, fills the cache or does not, and notifies its listeners.          *)
PollFuture(f) ==
  /\ pc = "poll"
  /\ f \in pending
  /\ [key |-> f.key, by |-> f.by] \in todo
  /\ todo' = todo \ {[key |-> f.key, by |-> f.by]}
  /\ IF f.state \in {"new", "flying"}
     THEN /\ pending' = (pending \ {f}) \cup {[f EXCEPT !.state = "flying"]}
          /\ UNCHANGED << listeners, db, reply >>
     ELSE /\ pending' = pending \ {f}
          /\ Unlisten(f.key)
          /\ IF f.state = "ok"
             THEN Insert(f.key) /\ Reply(listeners[f.key], "chain")
             ELSE Reply(listeners[f.key], "error") /\ UNCHANGED db
  /\ UNCHANGED << pc, woken, incoming, queued_requests, step, want, local_vars >>

(* Mutant of Polled: the queue is not looked at before Poll::Pending.      *)
SleepAtOnce ==
  /\ pc = "poll"
  /\ todo = {}
  /\ pc' = "asleep"
  /\ UNCHANGED << woken, incoming, queued_requests, listeners, pending, todo, db,
                  client_vars >>

(* If no new requests have been queued, Poll::Pending.                     *)
Polled ==
  /\ pc = "poll"
  /\ todo = {}
  /\ pc' = IF queued_requests = {} THEN "asleep" ELSE "drain"
  /\ UNCHANGED << woken, incoming, queued_requests, listeners, pending, todo, db,
                  client_vars >>

(* The provider's answer to a future that has been polled calls the waker. *)
Fetched(f) ==
  /\ f \in pending
  /\ f.state = "flying"
  /\ \E state \in {"ok", "error"} :
       pending' = (pending \ {f}) \cup {[f EXCEPT !.state = state]}
  /\ woken' = TRUE
  /\ UNCHANGED << pc, incoming, queued_requests, listeners, todo, db, client_vars >>

-----------------------------------------------------------------------------

ClientNext(c) ==
  \/ \E a \in Accounts : LoadLocal(c, a) \/ AskBasic(c, a)
  \/ \E s \in Slots : AskInfo(c, s)
  \/ \E k \in Slots \cup Numbers : AskValue(c, k)
  \/ ReturnBasic(c) \/ KeepInfo(c) \/ KeepValue(c) \/ ReturnValue(c) \/ Commit(c)

PollNext ==
  \/ Wake \/ Drained \/ Received \/ Polled
  \/ \E r \in Requests : OnRequest(r) \/ Receive(r)
  \/ \E f \in pending : PollFuture(f)

Next ==
  \/ \E c \in Clients : ClientNext(c)
  \/ PollNext
  \/ \E f \in pending : Fetched(f)

Spec == Init /\ [][Next]_vars

(* The backend has a thread of its own, its runtime polls it when woken;   *)
(* the provider answers each fetch or it fails; a client that can return   *)
(* does.                                                                   *)
Fairness ==
  /\ WF_vars(PollNext)
  /\ \A k \in Keys : WF_vars(\E f \in pending : f.key = k /\ Fetched(f))
  /\ \A c \in Clients :
       WF_vars(ReturnBasic(c) \/ KeepInfo(c) \/ KeepValue(c) \/ ReturnValue(c))

FairSpec == Spec /\ Fairness

-----------------------------------------------------------------------------
(* Properties.                                                             *)

(* Every variable has its type.                                            *)
TypeOK ==
  /\ pc \in {"asleep", "drain", "receive", "poll"}
  /\ woken \in BOOLEAN
  /\ incoming \subseteq Requests
  /\ queued_requests \subseteq Requests
  /\ listeners \in [Keys -> SUBSET Clients]
  /\ pending \subseteq Futures
  /\ todo \subseteq [key : Keys, by : Clients]
  /\ db \in [Keys -> Cached]
  /\ step \in [Clients -> {"idle", "basic", "info", "value", "reading"}]
  /\ want \in [Clients -> Keys]
  /\ reply \in [Clients -> Answers]
  /\ loaded \in [Clients -> SUBSET Accounts]
  /\ info \in [Clients -> [Accounts -> Infos]]
  /\ storage \in [Clients -> SUBSET Slots]

(* on_request's comment: "check if a request for that value is already in  *)
(* progress".  Two fetches of a key are never in flight together, however  *)
(* the requests of the clients, the answers and the errors interleave.     *)
OneFetchPerKey ==
  \A f, g \in pending : f.key = g.key => f = g

(* A key has listeners exactly while it is being fetched: nobody listens   *)
(* to a fetch that is over, no fetch is over without its listeners told.   *)
ListenedIsFetched ==
  \A k \in Keys : listeners[k] # {} <=> \E f \in pending : f.key = k

(* A blocked client is always known to the backend, exactly once: its      *)
(* request is in the channel, in the queue or a listener, or is answered.  *)
NobodyForgotten ==
  \A c \in Clients :
    step[c] # "idle" /\ ~Resolved(c) =>
      Cardinality({ r \in incoming : r.client = c })
        + Cardinality({ r \in queued_requests : r.client = c })
        + Cardinality({ k \in Keys : c \in listeners[k] }) = 1

(* When the backend sleeps and nothing has called its waker, nothing waits *)
(* for it: no request is left, every future in progress has been polled    *)
(* and is not ready.  poll must not return Pending too early.              *)
NoLostWakeup ==
  pc = "asleep" /\ ~woken =>
    /\ incoming = {} /\ queued_requests = {}
    /\ \A f \in pending : f.state = "flying"

(* An account of the chain is never taken for an empty one, although the   *)
(* cache makes up empty accounts: every client has had the account fetched *)
(* before it asks for one of its slots, and the cache never forgets.       *)
NoPhantomAccount ==
  \A c \in Clients :
    reply[c] # "empty" /\ \A a \in Accounts : info[c][a] # "empty"

(* Every blocked client is answered in the end.                            *)
AnsweredInTheEnd ==
  \A c \in Clients : (step[c] # "idle" /\ ~Resolved(c)) ~> Resolved(c)

=============================================================================
