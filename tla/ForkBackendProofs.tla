-------------------------- MODULE ForkBackendProofs --------------------------
(***************************************************************************)
(* Proofs about the forked chain state, for any clients, accounts, slots   *)
(* and block numbers: one fetch per key, no client forgotten, no wakeup    *)
(* lost, no account made up that the chain has.                            *)
(***************************************************************************)
EXTENDS ForkBackend, FiniteSetTheorems, TLAPS

-----------------------------------------------------------------------------
(* The inductive invariant, one named part for each property.              *)

(* A client that waits in recv(), and the key it waits for.                *)
Blocked(c) == step[c] # "idle" /\ ~Resolved(c)

KeyFor(s, k) == IF s = "info" THEN AccountOf[k] ELSE k

Wanted(c) == KeyFor(step[c], want[c])

(* A client has a request with the backend, in the channel or the queue.   *)
Unread(c) == { r \in incoming \cup queued_requests : r.client = c }

(* What a client wants is what its step reads.                             *)
KindFits(s, k) ==
  /\ s = "basic" => k \in Accounts
  /\ s \in {"info", "value"} => k \in Slots
  /\ s = "reading" => k \in Slots \cup Numbers

KindsFit == \A c \in Clients : KindFits(step[c], want[c])

(* A blocked client is in one place: it has one request, for what it       *)
(* wants, or it is a listener of what it wants; any other is in none.      *)
InOnePlace ==
  /\ incoming \cap queued_requests = {}
  /\ \A r \in incoming \cup queued_requests :
       Blocked(r.client) /\ r.key = Wanted(r.client)
  /\ \A k \in Keys : \A c \in listeners[k] :
       Blocked(c) /\ k = Wanted(c) /\ Unread(c) = {}
  /\ \A c \in Clients :
       Blocked(c) => Unread(c) # {} \/ c \in listeners[Wanted(c)]

(* What a sleep without a wakeup needs, from the round of polls on.        *)
NothingMissed ==
  /\ pc = "asleep" => queued_requests = {} /\ todo = {}
  /\ pc \in {"asleep", "poll"} /\ ~woken =>
       /\ incoming = {}
       /\ \A f \in pending : f.state = "flying" \/ [key |-> f.key, by |-> f.by] \in todo

(* The cache holds the account of whatever a client can ask for a slot of. *)
AccountFirst ==
  /\ \A k \in Keys : db[k] # "empty"
  /\ \A c \in Clients :
       /\ \A a \in Accounts :
            info[c][a] # "none" \/ a \in loaded[c] => db[a] = "chain"
       /\ step[c] \in {"info", "value", "reading"} /\ want[c] \in Slots =>
            db[AccountOf[want[c]]] = "chain"
       /\ step[c] = "basic" /\ reply[c] = "chain" => db[want[c]] = "chain"

ForkInv ==
  /\ TypeOK
  /\ KindsFit
  /\ InOnePlace
  /\ OneFetchPerKey
  /\ ListenedIsFetched
  /\ NothingMissed
  /\ AccountFirst
  /\ NoPhantomAccount

-----------------------------------------------------------------------------
(* The client's actions by what they do to the backend: they send a        *)
(* request and block, they return from recv(), or they stay away from it.  *)

Asks(c) ==
  \E s \in {"basic", "info", "value", "reading"}, k \in Keys :
    /\ ~Blocked(c)
    /\ KindFits(s, k)
    /\ step' = [step EXCEPT ![c] = s]
    /\ want' = [want EXCEPT ![c] = k]
    /\ Ask(c, KeyFor(s, k))

Returns(c) ==
  /\ ~Blocked(c)
  /\ step' = [step EXCEPT ![c] = "idle"]
  /\ UNCHANGED << backend_vars, want, reply >>

StaysAway == UNCHANGED << backend_vars, step, want, reply >>

(* Accounts, slots and numbers are keys; what a step asks for is one.      *)
LEMMA KeyTypes ==
  /\ Accounts \subseteq Keys /\ Slots \subseteq Keys /\ Numbers \subseteq Keys
  /\ \A s \in Slots : AccountOf[s] \in Accounts /\ AccountOf[s] \in Keys
  /\ \A s, k : KindFits(s, k) /\ k \in Keys => KeyFor(s, k) \in Keys
  BY ForkAssumption DEF Keys, KindFits, KeyFor

(* A step of a client asks for something, returns an answer or stays away  *)
(* from the backend.                                                       *)
LEMMA ClientShapes ==
  ASSUME TypeOK, KindsFit, NEW c \in Clients, ClientNext(c)
  PROVE  Asks(c) \/ Returns(c) \/ StaysAway
<1> USE KeyTypes
<1>0. /\ want \in [Clients -> Keys]
      /\ step \in [Clients -> {"idle", "basic", "info", "value", "reading"}]
  BY DEF TypeOK
<1>1. ASSUME NEW a \in Accounts, LoadLocal(c, a) PROVE StaysAway
  BY <1>1 DEF LoadLocal, StaysAway
<1>2. ASSUME NEW a \in Accounts, AskBasic(c, a) PROVE Asks(c)
  <2>1. KindFits("basic", a) /\ KeyFor("basic", a) = a
    BY DEF KindFits, KeyFor
  <2>2. a \in Keys /\ ~Blocked(c)
    BY <1>2 DEF AskBasic, Blocked
  <2> QED BY <1>2, <2>1, <2>2 DEF AskBasic, Asks
<1>3. ASSUME NEW s \in Slots, AskInfo(c, s) PROVE Asks(c)
  <2>1. KindFits("info", s) /\ KeyFor("info", s) = AccountOf[s]
    BY DEF KindFits, KeyFor
  <2>2. s \in Keys /\ ~Blocked(c)
    BY <1>3 DEF AskInfo, Blocked
  <2> QED BY <1>3, <2>1, <2>2 DEF AskInfo, Asks
<1>4. ASSUME NEW k \in Slots \cup Numbers, AskValue(c, k) PROVE Asks(c)
  <2>1. KindFits("reading", k) /\ KeyFor("reading", k) = k
    BY DEF KindFits, KeyFor
  <2>2. k \in Keys /\ ~Blocked(c)
    BY <1>4 DEF AskValue, Blocked
  <2> QED BY <1>4, <2>1, <2>2 DEF AskValue, Asks
<1>5. CASE ReturnBasic(c)
  BY <1>5 DEF ReturnBasic, Returns, Blocked
<1>6. CASE KeepInfo(c)
  <2>1. step[c] = "info" /\ Resolved(c) /\ ~Blocked(c) /\ want' = want
    BY <1>6 DEF KeepInfo, Blocked
  <2>2. CASE reply[c] = "error"
    BY <1>6, <2>1, <2>2 DEF KeepInfo, Returns
  <2>3. CASE reply[c] # "error"
    <3>1. KindFits("value", want[c]) /\ KeyFor("value", want[c]) = want[c]
      BY <2>1 DEF KindsFit, KindFits, KeyFor
    <3>2. want' = [want EXCEPT ![c] = want[c]] /\ want[c] \in Keys
      BY <1>0, <2>1
    <3> QED BY <1>6, <2>1, <2>3, <3>1, <3>2 DEF KeepInfo, Asks
  <2> QED BY <2>2, <2>3
<1>7. CASE KeepValue(c)
  BY <1>7 DEF KeepValue, Returns, Blocked
<1>8. CASE ReturnValue(c)
  BY <1>8 DEF ReturnValue, Returns, Blocked
<1>9. CASE Commit(c)
  BY <1>9 DEF Commit, StaysAway
<1> QED BY <1>1, <1>2, <1>3, <1>4, <1>5, <1>6, <1>7, <1>8, <1>9 DEF ClientNext

-----------------------------------------------------------------------------
(* Types.                                                                  *)

(* The client's local database has its types.                              *)
LocalTypes ==
  /\ loaded \in [Clients -> SUBSET Accounts]
  /\ info \in [Clients -> [Accounts -> Infos]]
  /\ storage \in [Clients -> SUBSET Slots]

(* The types hold at the start.                                            *)
LEMMA InitTypes == Init => TypeOK
<1> SUFFICES ASSUME Init PROVE TypeOK
  OBVIOUS
<1>1. /\ info \in [Clients -> [Accounts -> Infos]]
      /\ reply \in [Clients -> Answers]
      /\ db \in [Keys -> Cached]
      /\ step \in [Clients -> {"idle", "basic", "info", "value", "reading"}]
  BY DEF Init, Infos, Answers, Cached
<1>2. /\ listeners \in [Keys -> SUBSET Clients]
      /\ loaded \in [Clients -> SUBSET Accounts]
      /\ storage \in [Clients -> SUBSET Slots]
  BY DEF Init, Injections
<1> QED BY <1>1, <1>2 DEF Init, TypeOK

(* A client's own variables keep their types in each of its steps.         *)
LEMMA LocalStep ==
  ASSUME TypeOK, KindsFit, NEW c \in Clients, ClientNext(c)
  PROVE  LocalTypes'
<1> USE KeyTypes
<1>0. LocalTypes
  BY DEF TypeOK, LocalTypes
<1>1. \A a \in Accounts : loaded[c] \cup {a} \in SUBSET Accounts
  BY <1>0 DEF LocalTypes
<1>2. \A s \in Slots : storage[c] \cup {s} \in SUBSET Slots
  BY <1>0 DEF LocalTypes
<1>3. ASSUME NEW a \in Accounts, NEW x \in Answers
      PROVE  [info EXCEPT ![c][a] = x] \in [Clients -> [Accounts -> Infos]] \/ x = "error"
  <2>1. x \in Infos \/ x = "error"
    BY DEF Infos, Answers
  <2> QED BY <1>0, <2>1 DEF LocalTypes
<1>4. reply[c] \in Answers
  BY DEF TypeOK
<1>5. ASSUME NEW a \in Accounts, LoadLocal(c, a) PROVE LocalTypes'
  <2>1. loaded' \in [Clients -> SUBSET Accounts]
    BY <1>0, <1>1, <1>5 DEF LoadLocal, LocalTypes
  <2> QED BY <1>0, <1>5, <2>1 DEF LoadLocal, LocalTypes
<1>6. ASSUME NEW a \in Accounts, AskBasic(c, a) PROVE LocalTypes'
  BY <1>0, <1>6 DEF AskBasic, LocalTypes, local_vars
<1>7. ASSUME NEW s \in Slots, AskInfo(c, s) PROVE LocalTypes'
  BY <1>0, <1>7 DEF AskInfo, LocalTypes, local_vars
<1>8. ASSUME NEW k \in Slots \cup Numbers, AskValue(c, k) PROVE LocalTypes'
  BY <1>0, <1>8 DEF AskValue, LocalTypes, local_vars
<1>9. CASE ReturnBasic(c)
  <2>1. want[c] \in Accounts
    BY <1>9 DEF ReturnBasic, KindsFit, KindFits
  <2>2. CASE reply[c] = "error"
    BY <1>0, <1>9, <2>2 DEF ReturnBasic, LocalTypes
  <2>3. CASE reply[c] # "error"
    <3>1. /\ loaded' = [loaded EXCEPT ![c] = @ \cup {want[c]}]
          /\ info' = [info EXCEPT ![c][want[c]] = reply[c]] \/ info' = info
          /\ storage' = storage
      BY <1>9, <2>3 DEF ReturnBasic
    <3>2. loaded' \in [Clients -> SUBSET Accounts]
      BY <1>0, <1>1, <2>1, <3>1 DEF LocalTypes
    <3>3. info' \in [Clients -> [Accounts -> Infos]]
      <4>1. [info EXCEPT ![c][want[c]] = reply[c]] \in [Clients -> [Accounts -> Infos]]
        BY <1>3, <1>4, <2>1, <2>3
      <4> QED BY <1>0, <3>1, <4>1 DEF LocalTypes
    <3> QED BY <1>0, <3>1, <3>2, <3>3 DEF LocalTypes
  <2> QED BY <2>2, <2>3
<1>10. CASE KeepInfo(c)
  <2>1. AccountOf[want[c]] \in Accounts /\ UNCHANGED << loaded, storage >>
    BY <1>10 DEF KeepInfo, KindsFit, KindFits
  <2>2. CASE reply[c] = "error"
    BY <1>0, <1>10, <2>2 DEF KeepInfo, LocalTypes
  <2>3. CASE reply[c] # "error"
    <3>1. info' = [info EXCEPT ![c][AccountOf[want[c]]] = reply[c]]
      BY <1>10, <2>3 DEF KeepInfo
    <3>2. info' \in [Clients -> [Accounts -> Infos]]
      BY <1>3, <1>4, <2>1, <2>3, <3>1
    <3> QED BY <1>0, <2>1, <3>2 DEF LocalTypes
  <2> QED BY <2>2, <2>3
<1>11. CASE KeepValue(c)
  <2>1. want[c] \in Slots
    BY <1>11 DEF KeepValue, KindsFit, KindFits
  <2>2. storage' \in [Clients -> SUBSET Slots]
    BY <1>0, <1>2, <1>11, <2>1 DEF KeepValue, LocalTypes
  <2> QED BY <1>0, <1>11, <2>2 DEF KeepValue, LocalTypes
<1>12. CASE ReturnValue(c)
  BY <1>0, <1>12 DEF ReturnValue, LocalTypes, local_vars
<1>13. CASE Commit(c)
  <2>1. PICK changed \in SUBSET loaded[c] :
          info' = [info EXCEPT ![c] =
                     [a \in Accounts |-> IF a \in changed THEN "own" ELSE @[a]]]
    BY <1>13 DEF Commit
  <2>2. [a \in Accounts |-> IF a \in changed THEN "own" ELSE info[c][a]]
          \in [Accounts -> Infos]
    BY <1>0 DEF LocalTypes, Infos
  <2>3. info' \in [Clients -> [Accounts -> Infos]]
    BY <1>0, <2>1, <2>2 DEF LocalTypes
  <2>4. loaded' \in [Clients -> SUBSET Accounts]
    BY <1>0, <1>13 DEF Commit, LocalTypes
  <2> QED BY <1>0, <1>13, <2>3, <2>4 DEF Commit, LocalTypes
<1> QED BY <1>5, <1>6, <1>7, <1>8, <1>9, <1>10, <1>11, <1>12, <1>13 DEF ClientNext

(* Every step keeps the types.                                             *)
LEMMA StepTypes == TypeOK /\ KindsFit /\ [Next]_vars => TypeOK'
<1> SUFFICES ASSUME TypeOK, KindsFit, [Next]_vars PROVE TypeOK'
  OBVIOUS
<1> USE KeyTypes DEF TypeOK
<1>1. ASSUME NEW c \in Clients, ClientNext(c) PROVE TypeOK'
  <2>1. CASE Asks(c)
    BY <2>1, <1>1, LocalStep DEF Asks, Ask, LocalTypes, Requests, Answers
  <2>2. CASE Returns(c)
    BY <2>2, <1>1, LocalStep DEF Returns, LocalTypes, backend_vars
  <2>3. CASE StaysAway
    BY <2>3, <1>1, LocalStep DEF StaysAway, LocalTypes, backend_vars
  <2> QED BY <1>1, <2>1, <2>2, <2>3, ClientShapes
<1>2. CASE Wake
  BY <1>2 DEF Wake, client_vars, local_vars
<1>3. CASE Drained
  BY <1>3 DEF Drained, client_vars, local_vars
<1>4. CASE Received
  BY <1>4 DEF Received, client_vars, local_vars, Futures
<1>5. CASE Polled
  BY <1>5 DEF Polled, client_vars, local_vars
<1>6. ASSUME NEW r \in Requests, OnRequest(r) PROVE TypeOK'
  <2>1. r.key \in Keys /\ r.client \in Clients
    BY DEF Requests
  <2>2. reply' \in [Clients -> Answers]
    BY <1>6, <2>1 DEF OnRequest, Reply, Answers, Cached
  <2>3. FetchFor(r) \subseteq Futures
    BY <2>1 DEF FetchFor, Futures
  <2>4. listeners' \in [Keys -> SUBSET Clients] /\ pending' \subseteq Futures
    <3>1. CASE UNCHANGED << listeners, pending >>
      BY <3>1
    <3>2. CASE /\ listeners' = [listeners EXCEPT ![r.key] = @ \cup {r.client}]
               /\ pending' = pending \cup FetchFor(r)
      BY <2>1, <2>3, <3>2
    <3> QED BY <1>6, <3>1, <3>2 DEF OnRequest
  <2> QED BY <1>6, <2>2, <2>4 DEF OnRequest, local_vars
<1>7. ASSUME NEW r \in Requests, Receive(r) PROVE TypeOK'
  BY <1>7 DEF Receive, client_vars, local_vars
<1>8. ASSUME NEW f \in pending, PollFuture(f) PROVE TypeOK'
  <2>1. f.key \in Keys /\ [f EXCEPT !.state = "flying"] \in Futures
    BY SMTT(30) DEF Futures
  <2>2. pending' \subseteq Futures
    BY <1>8, <2>1 DEF PollFuture
  <2>3. listeners' \in [Keys -> SUBSET Clients]
    BY <1>8, <2>1 DEF PollFuture, Unlisten
  <2>4. db' \in [Keys -> Cached]
    BY <1>8, <2>1 DEF PollFuture, Insert, Cached
  <2>5. reply' \in [Clients -> Answers]
    BY <1>8, <2>1 DEF PollFuture, Reply, Answers
  <2>6. todo' \subseteq [key : Keys, by : Clients]
    BY <1>8 DEF PollFuture
  <2> QED BY <1>8, <2>2, <2>3, <2>4, <2>5, <2>6 DEF PollFuture, local_vars
<1>9. ASSUME NEW f \in pending, Fetched(f) PROVE TypeOK'
  <2>1. \A x \in {"ok", "error"} : [f EXCEPT !.state = x] \in Futures
    BY SMTT(30) DEF Futures
  <2> QED BY <1>9, <2>1 DEF Fetched, client_vars, local_vars
<1>10. CASE UNCHANGED vars
  BY <1>10 DEF vars, backend_vars, client_vars, local_vars
<1> QED
  BY <1>1, <1>2, <1>3, <1>4, <1>5, <1>6, <1>7, <1>8, <1>9, <1>10 DEF Next, PollNext

(* A client waits for a key of the kind that its step asks for.            *)
LEMMA StepKinds ==
  TypeOK /\ KindsFit /\ [Next]_vars => KindsFit'
<1> SUFFICES ASSUME TypeOK, KindsFit, [Next]_vars PROVE KindsFit'
  OBVIOUS
<1> USE DEF KindsFit
<1>1. ASSUME NEW c \in Clients, ClientNext(c) PROVE KindsFit'
  <2>1. CASE Asks(c)
    BY <2>1 DEF Asks, TypeOK
  <2>2. CASE Returns(c)
    BY <2>2 DEF Returns, TypeOK, KindFits
  <2>3. CASE StaysAway
    BY <2>3 DEF StaysAway
  <2> QED BY <1>1, <2>1, <2>2, <2>3, ClientShapes
<1>2. CASE UNCHANGED << step, want >>
  BY <1>2
<1>3. PollNext => UNCHANGED << step, want >>
  BY DEF PollNext, Wake, Drained, Received, Polled, OnRequest, Receive, PollFuture,
         client_vars
<1>4. (\E f \in pending : Fetched(f)) => UNCHANGED << step, want >>
  BY DEF Fetched, client_vars
<1> QED BY <1>1, <1>2, <1>3, <1>4 DEF Next, vars, client_vars

-----------------------------------------------------------------------------
(* Where a client's request is.                                            *)

(* A request is its client and its key.                                    *)
LEMMA SameRequest ==
  \A q, r \in Requests : q.client = r.client /\ q.key = r.key => q = r
  BY DEF Requests

(* At the start no client has asked for anything.                          *)
LEMMA InitPlaces == Init => InOnePlace
  BY DEF Init, InOnePlace, Blocked

(* A client that was not blocked asks: its request is the only one.        *)
LEMMA AskPlaces ==
  ASSUME TypeOK, InOnePlace, NEW c \in Clients, Asks(c)
  PROVE  InOnePlace'
<1> USE DEF TypeOK
<1>1. PICK s \in {"basic", "info", "value", "reading"}, k \in Keys :
        /\ ~Blocked(c)
        /\ KindFits(s, k)
        /\ step' = [step EXCEPT ![c] = s]
        /\ want' = [want EXCEPT ![c] = k]
        /\ Ask(c, KeyFor(s, k))
  BY DEF Asks
<1> DEFINE new == [client |-> c, key |-> KeyFor(s, k)]
<1>2. /\ incoming' = incoming \cup {new}
      /\ reply' = [reply EXCEPT ![c] = "none"]
      /\ UNCHANGED << queued_requests, listeners >>
  BY <1>1 DEF Ask
<1>3. Blocked(c)' /\ Wanted(c)' = KeyFor(s, k)
  BY <1>1, <1>2 DEF Blocked, Resolved, Wanted
<1>4. \A d \in Clients : d # c => Blocked(d)' = Blocked(d) /\ Wanted(d)' = Wanted(d)
  BY <1>1, <1>2 DEF Blocked, Resolved, Wanted
<1>5. /\ \A r \in incoming \cup queued_requests : r.client # c /\ r.client \in Clients
      /\ \A j \in Keys : c \notin listeners[j]
  BY <1>1 DEF InOnePlace, Requests
<1>6. new.client = c /\ new.key = KeyFor(s, k) /\ new \notin queued_requests
  BY <1>5
<1>7. (incoming \cap queued_requests)' = {}
  BY <1>2, <1>6 DEF InOnePlace
<1>8. \A r \in incoming' \cup queued_requests' :
        Blocked(r.client)' /\ r.key = Wanted(r.client)'
  BY <1>2, <1>3, <1>4, <1>5, <1>6 DEF InOnePlace
<1>9. \A d \in Clients : d # c => Unread(d)' = Unread(d)
  BY <1>2, <1>6 DEF Unread
<1>10. \A j \in Keys : \A d \in listeners'[j] :
         Blocked(d)' /\ j = Wanted(d)' /\ Unread(d)' = {}
  <2> SUFFICES ASSUME NEW j \in Keys, NEW d \in listeners'[j]
               PROVE  Blocked(d)' /\ j = Wanted(d)' /\ Unread(d)' = {}
    OBVIOUS
  <2>1. d \in listeners[j] /\ d \in Clients /\ d # c
    BY <1>2, <1>5
  <2> QED BY <1>4, <1>9, <2>1 DEF InOnePlace
<1>11. \A d \in Clients : Blocked(d)' => Unread(d)' # {} \/ d \in listeners'[Wanted(d)']
  <2>1. new \in Unread(c)'
    BY <1>2, <1>6 DEF Unread
  <2> QED BY <1>2, <1>4, <1>9, <2>1 DEF InOnePlace
<1> QED BY <1>7, <1>8, <1>10, <1>11 DEF InOnePlace

(* Nothing changes for a client while what it waits for does not.          *)
LEMMA SamePlaces ==
  ASSUME InOnePlace,
         UNCHANGED << incoming, queued_requests, listeners >>,
         \A c \in Clients : Blocked(c)' = Blocked(c) /\ Wanted(c)' = Wanted(c),
         TypeOK
  PROVE  InOnePlace'
<1>1. \A c : Unread(c)' = Unread(c)
  BY DEF Unread
<1>2. \A r \in incoming \cup queued_requests : r.client \in Clients
  BY DEF TypeOK, Requests
<1>3. \A k \in Keys : \A c \in listeners[k] : c \in Clients
  BY DEF TypeOK
<1> QED BY <1>1, <1>2, <1>3 DEF InOnePlace

(* A request is answered from the cache or becomes a listener, once.       *)
LEMMA OnRequestPlaces ==
  ASSUME TypeOK, InOnePlace, NEW r \in Requests, OnRequest(r)
  PROVE  InOnePlace'
<1> USE DEF TypeOK
<1> DEFINE c == r.client
<1>1. /\ c \in Clients /\ r.key \in Keys
      /\ r \in queued_requests /\ r \notin incoming
      /\ queued_requests' = queued_requests \ {r} /\ incoming' = incoming
      /\ Blocked(c) /\ r.key = Wanted(c)
      /\ r \in Unread(c)
  BY DEF OnRequest, InOnePlace, Requests, Unread
<1>2. Unread(c)' = {}
  <2>1. ASSUME NEW q \in incoming \cup queued_requests, q.client = c PROVE q = r
    BY <1>1, <2>1, SameRequest DEF InOnePlace
  <2> QED BY <1>1, <2>1 DEF Unread
<1>3. \A d \in Clients : d # c => Unread(d)' = Unread(d)
  BY <1>1 DEF Unread
<1>4. \A j \in Keys : c \notin listeners[j]
  BY <1>1 DEF InOnePlace
<1>5. \A q \in incoming' \cup queued_requests' :
        q \in incoming \cup queued_requests /\ q.client # c /\ q.client \in Clients
  BY <1>1, <1>2 DEF Unread, Requests
<1>6. (incoming \cap queued_requests)' = {}
  BY <1>1 DEF InOnePlace
<1>7. CASE /\ Reply({c}, db[r.key]) /\ db[r.key] # "none"
           /\ UNCHANGED << listeners, step, want >>
  <2>1. ~Blocked(c)'
    BY <1>1, <1>7 DEF Reply, Blocked, Resolved
  <2>2. \A d \in Clients : d # c => Blocked(d)' = Blocked(d) /\ Wanted(d)' = Wanted(d)
    BY <1>7 DEF Reply, Blocked, Resolved, Wanted
  <2>3. \A q \in incoming' \cup queued_requests' :
          Blocked(q.client)' /\ q.key = Wanted(q.client)'
    BY <1>5, <2>2 DEF InOnePlace
  <2>4. \A j \in Keys : \A d \in listeners'[j] :
          Blocked(d)' /\ j = Wanted(d)' /\ Unread(d)' = {}
    <3> SUFFICES ASSUME NEW j \in Keys, NEW d \in listeners[j]
                 PROVE  Blocked(d)' /\ j = Wanted(d)' /\ Unread(d)' = {}
      BY <1>7
    <3>1. d \in Clients /\ d # c
      BY <1>4
    <3> QED BY <1>3, <2>2, <3>1 DEF InOnePlace
  <2>5. \A d \in Clients : Blocked(d)' => Unread(d)' # {} \/ d \in listeners'[Wanted(d)']
    BY <1>3, <1>7, <2>1, <2>2 DEF InOnePlace
  <2> QED BY <1>6, <2>3, <2>4, <2>5 DEF InOnePlace
<1>8. CASE /\ listeners' = [listeners EXCEPT ![r.key] = @ \cup {c}]
           /\ UNCHANGED << step, want, reply >>
  <2>1. \A d : Blocked(d)' = Blocked(d) /\ Wanted(d)' = Wanted(d)
    BY <1>8 DEF Blocked, Resolved, Wanted
  <2>2. \A q \in incoming' \cup queued_requests' :
          Blocked(q.client)' /\ q.key = Wanted(q.client)'
    BY <1>5, <2>1 DEF InOnePlace
  <2>3. \A j \in Keys : \A d \in listeners'[j] :
          Blocked(d)' /\ j = Wanted(d)' /\ Unread(d)' = {}
    <3> SUFFICES ASSUME NEW j \in Keys, NEW d \in listeners'[j]
                 PROVE  Blocked(d)' /\ j = Wanted(d)' /\ Unread(d)' = {}
      OBVIOUS
    <3>1. CASE d = c
      <4>1. j = r.key
        BY <1>1, <1>4, <1>8, <3>1
      <4> QED BY <1>1, <1>2, <2>1, <3>1, <4>1
    <3>2. CASE d # c
      <4>1. d \in listeners[j] /\ d \in Clients
        BY <1>1, <1>8, <3>2
      <4> QED BY <1>3, <2>1, <3>2, <4>1 DEF InOnePlace
    <3> QED BY <3>1, <3>2
  <2>4. \A d \in Clients : Blocked(d)' => Unread(d)' # {} \/ d \in listeners'[Wanted(d)']
    <3> SUFFICES ASSUME NEW d \in Clients, Blocked(d)
                 PROVE  Unread(d)' # {} \/ d \in listeners'[Wanted(d)]
      BY <2>1
    <3>1. CASE d = c
      BY <1>1, <1>8, <3>1
    <3>2. CASE d # c
      <4>1. Unread(d)' = Unread(d) /\ (Unread(d) # {} \/ d \in listeners[Wanted(d)])
        BY <1>3, <3>2 DEF InOnePlace
      <4>2. Wanted(d) \in DOMAIN listeners => listeners[Wanted(d)] \subseteq listeners'[Wanted(d)]
        BY <1>1, <1>8
      <4>3. CASE Wanted(d) = r.key
        BY <1>1, <4>1, <4>2, <4>3
      <4>4. CASE Wanted(d) # r.key
        BY <1>8, <4>1, <4>4
      <4> QED BY <4>3, <4>4
    <3> QED BY <3>1, <3>2
  <2> QED BY <1>6, <2>2, <2>3, <2>4 DEF InOnePlace
<1> QED BY <1>7, <1>8 DEF OnRequest

(* A finished fetch answers all of its listeners and forgets them.         *)
LEMMA PollFuturePlaces ==
  ASSUME TypeOK, InOnePlace, NEW f \in pending, PollFuture(f)
  PROVE  InOnePlace'
<1> USE DEF TypeOK
<1>1. f.key \in Keys /\ UNCHANGED << incoming, queued_requests, step, want >>
  BY DEF PollFuture, Futures
<1>2. \A d : Unread(d)' = Unread(d) /\ Wanted(d)' = Wanted(d)
  BY <1>1 DEF Unread, Wanted
<1>3. CASE UNCHANGED << listeners, reply >>
  BY <1>1, <1>2, <1>3, SamePlaces DEF Blocked, Resolved
<1>4. CASE \E x \in {"chain", "error"} : Reply(listeners[f.key], x) /\ Unlisten(f.key)
  <2>1. /\ listeners' = [listeners EXCEPT ![f.key] = {}]
        /\ \A d \in listeners[f.key] : d \in Clients => ~Blocked(d)'
        /\ \A d \in Clients \ listeners[f.key] : Blocked(d)' = Blocked(d)
    BY <1>1, <1>4 DEF Reply, Unlisten, Blocked, Resolved
  <2>2. \A r \in incoming \cup queued_requests :
          r.client \in Clients /\ r \in Unread(r.client) /\ r.client \notin listeners[f.key]
    BY <1>1 DEF InOnePlace, Unread, Requests
  <2>3. \A r \in incoming' \cup queued_requests' :
          Blocked(r.client)' /\ r.key = Wanted(r.client)'
    BY <1>1, <1>2, <2>1, <2>2 DEF InOnePlace
  <2>4. \A j \in Keys : \A d \in listeners'[j] :
          Blocked(d)' /\ j = Wanted(d)' /\ Unread(d)' = {}
    <3> SUFFICES ASSUME NEW j \in Keys, NEW d \in listeners'[j]
                 PROVE  Blocked(d)' /\ j = Wanted(d)' /\ Unread(d)' = {}
      OBVIOUS
    <3>1. j # f.key /\ d \in listeners[j] /\ d \in Clients
      BY <1>1, <2>1
    <3>2. d \notin listeners[f.key]
      BY <1>1, <3>1 DEF InOnePlace
    <3> QED BY <1>2, <2>1, <3>1, <3>2 DEF InOnePlace
  <2>5. \A d \in Clients : Blocked(d)' => Unread(d)' # {} \/ d \in listeners'[Wanted(d)']
    <3> SUFFICES ASSUME NEW d \in Clients, Blocked(d)', Unread(d) = {}
                 PROVE  d \in listeners'[Wanted(d)]
      BY <1>2
    <3>1. d \notin listeners[f.key] /\ Blocked(d)
      BY <1>1, <2>1
    <3>2. d \in listeners[Wanted(d)]
      BY <3>1 DEF InOnePlace
    <3> QED BY <1>1, <2>1, <3>1, <3>2
  <2> QED BY <1>1, <2>3, <2>4, <2>5 DEF InOnePlace
<1> QED BY <1>3, <1>4 DEF PollFuture

(* Every step keeps a blocked client's request in one place.               *)
LEMMA StepPlaces == TypeOK /\ KindsFit /\ InOnePlace /\ [Next]_vars => InOnePlace'
<1> SUFFICES ASSUME TypeOK, KindsFit, InOnePlace, [Next]_vars PROVE InOnePlace'
  OBVIOUS
<1>1. ASSUME NEW c \in Clients, ClientNext(c) PROVE InOnePlace'
  <2>1. CASE Asks(c)
    BY <2>1, AskPlaces
  <2>2. CASE Returns(c)
    <3>1. \A d \in Clients : Blocked(d)' = Blocked(d)
      BY <2>2 DEF Returns, Blocked, Resolved, TypeOK
    <3>2. \A d \in Clients : d # c => Wanted(d)' = Wanted(d)
      BY <2>2 DEF Returns, Wanted, TypeOK
    <3>3. /\ \A r \in incoming \cup queued_requests : r.client \in Clients /\ r.client # c
          /\ \A k \in Keys : c \notin listeners[k] /\ listeners[k] \subseteq Clients
      BY <2>2 DEF Returns, InOnePlace, TypeOK, Requests
    <3>4. UNCHANGED << incoming, queued_requests, listeners >>
      BY <2>2 DEF Returns, backend_vars
    <3>5. \A d : Unread(d)' = Unread(d)
      BY <3>4 DEF Unread
    <3>6. \A d \in Clients : Blocked(d)' => Unread(d)' # {} \/ d \in listeners'[Wanted(d)']
      <4>1. ~Blocked(c)
        BY <2>2 DEF Returns
      <4> QED BY <3>1, <3>2, <3>4, <3>5, <4>1 DEF InOnePlace
    <3> QED BY <3>1, <3>2, <3>3, <3>4, <3>5, <3>6 DEF InOnePlace
  <2>3. CASE StaysAway
    BY <2>3, SamePlaces DEF StaysAway, backend_vars, Blocked, Resolved, Wanted
  <2> QED BY <1>1, <2>1, <2>2, <2>3, ClientShapes
<1>2. CASE UNCHANGED << incoming, queued_requests, listeners, step, want, reply >>
  BY <1>2, SamePlaces DEF Blocked, Resolved, Wanted
<1>3. CASE Wake \/ Drained \/ Received \/ Polled
  BY <1>2, <1>3 DEF Wake, Drained, Received, Polled, client_vars
<1>4. ASSUME NEW r \in Requests, OnRequest(r) PROVE InOnePlace'
  BY <1>4, OnRequestPlaces
<1>5. ASSUME NEW r \in Requests, Receive(r) PROVE InOnePlace'
  <2>1. /\ incoming' = incoming \ {r} /\ queued_requests' = queued_requests \cup {r}
        /\ r \in incoming
        /\ UNCHANGED << listeners, step, want, reply >>
    BY <1>5 DEF Receive, client_vars
  <2>2. (incoming \cup queued_requests)' = incoming \cup queued_requests
    BY <2>1
  <2>3. \A d : Unread(d)' = Unread(d) /\ Blocked(d)' = Blocked(d) /\ Wanted(d)' = Wanted(d)
    BY <2>1, <2>2 DEF Unread, Blocked, Resolved, Wanted
  <2> QED BY <2>1, <2>2, <2>3 DEF InOnePlace
<1>6. ASSUME NEW f \in pending, PollFuture(f) PROVE InOnePlace'
  BY <1>6, PollFuturePlaces
<1>7. ASSUME NEW f \in pending, Fetched(f) PROVE InOnePlace'
  BY <1>2, <1>7 DEF Fetched, client_vars
<1>8. CASE UNCHANGED vars
  BY <1>2, <1>8 DEF vars, backend_vars, client_vars
<1> QED
  BY <1>1, <1>3, <1>4, <1>5, <1>6, <1>7, <1>8 DEF Next, PollNext

-----------------------------------------------------------------------------
(* Fetches: a new future is made only for a key without listeners, hence   *)
(* without a future; a future that is over takes the listeners with it.    *)

Fetches == OneFetchPerKey /\ ListenedIsFetched

(* At the start nothing is fetched.                                        *)
LEMMA InitFetches == Init => Fetches
  BY DEF Init, Fetches, OneFetchPerKey, ListenedIsFetched

(* A future that goes on to another state is the only one of its key.      *)
LEMMA FutureGoesOn ==
  ASSUME TypeOK, Fetches, NEW f \in pending,
         NEW x \in {"flying", "ok", "error"},
         pending' = (pending \ {f}) \cup {[f EXCEPT !.state = x]},
         listeners' = listeners
  PROVE  Fetches'
<1> USE DEF TypeOK, Futures
<1> DEFINE g == [f EXCEPT !.state = x]
<1>1. g.key = f.key
  OBVIOUS
<1>2. \A h \in pending \ {f} : h.key # f.key
  BY DEF Fetches, OneFetchPerKey
<1>3. OneFetchPerKey'
  <2> SUFFICES ASSUME NEW h \in pending', NEW e \in pending', h.key = e.key
               PROVE  h = e
    BY DEF OneFetchPerKey
  <2>1. CASE h = g \/ e = g
    BY <1>1, <1>2, <2>1
  <2>2. CASE h # g /\ e # g
    BY <2>2 DEF Fetches, OneFetchPerKey
  <2> QED BY <2>1, <2>2
<1>4. \A k : (\E h \in pending' : h.key = k) <=> (\E h \in pending : h.key = k)
  BY <1>1
<1>5. ListenedIsFetched'
  BY <1>4 DEF Fetches, ListenedIsFetched
<1> QED BY <1>3, <1>5 DEF Fetches

(* A request starts a fetch only for a key without listeners.              *)
LEMMA OnRequestFetches ==
  ASSUME TypeOK, Fetches, NEW r \in Requests, OnRequest(r)
  PROVE  Fetches'
<1> USE DEF TypeOK
<1>1. r.key \in Keys /\ r.client \in Clients
  BY DEF Requests
<1>2. CASE UNCHANGED << listeners, pending >>
  BY <1>2 DEF Fetches, OneFetchPerKey, ListenedIsFetched
<1>3. CASE /\ listeners' = [listeners EXCEPT ![r.key] = @ \cup {r.client}]
           /\ pending' = pending \cup FetchFor(r)
  <2>1. CASE listeners[r.key] # {}
    <3>1. pending' = pending
      BY <1>3, <2>1 DEF FetchFor
    <3>2. \A k \in Keys : listeners'[k] # {} <=> listeners[k] # {}
      BY <1>1, <1>3, <2>1
    <3> QED BY <3>1, <3>2 DEF Fetches, OneFetchPerKey, ListenedIsFetched
  <2>2. CASE listeners[r.key] = {}
    <3> DEFINE g == [key |-> r.key, by |-> r.client, state |-> "new"]
    <3>1. pending' = pending \cup {g} /\ g.key = r.key
      BY <1>3, <2>2 DEF FetchFor
    <3>2. \A h \in pending : h.key # r.key
      BY <1>1, <2>2 DEF Fetches, ListenedIsFetched
    <3>3. OneFetchPerKey'
      BY <3>1, <3>2 DEF Fetches, OneFetchPerKey
    <3>4. \A k \in Keys : listeners'[k] # {} <=> listeners[k] # {} \/ k = r.key
      BY <1>1, <1>3
    <3>5. \A k : (\E h \in pending' : h.key = k)
                   <=> (\E h \in pending : h.key = k) \/ k = r.key
      BY <3>1
    <3>6. ListenedIsFetched'
      BY <3>4, <3>5 DEF Fetches, ListenedIsFetched
    <3> QED BY <3>3, <3>6 DEF Fetches
  <2> QED BY <2>1, <2>2
<1> QED BY <1>2, <1>3 DEF OnRequest

(* A fetch and its listeners end together.                                 *)
LEMMA PollFutureFetches ==
  ASSUME TypeOK, Fetches, NEW f \in pending, PollFuture(f)
  PROVE  Fetches'
<1> USE DEF TypeOK
<1>1. CASE f.state \in {"new", "flying"}
  BY <1>1, FutureGoesOn DEF PollFuture
<1>2. CASE f.state \notin {"new", "flying"}
  <2>1. pending' = pending \ {f} /\ listeners' = [listeners EXCEPT ![f.key] = {}]
    BY <1>2 DEF PollFuture, Unlisten
  <2>2. f.key \in Keys /\ \A h \in pending \ {f} : h.key # f.key
    BY DEF Fetches, OneFetchPerKey, Futures
  <2>3. OneFetchPerKey'
    BY <2>1 DEF Fetches, OneFetchPerKey
  <2>4. \A k \in Keys : listeners'[k] # {} <=> listeners[k] # {} /\ k # f.key
    BY <2>1, <2>2
  <2>5. \A k : (\E h \in pending' : h.key = k)
                 <=> (\E h \in pending : h.key = k) /\ k # f.key
    BY <2>1, <2>2
  <2>6. ListenedIsFetched'
    BY <2>4, <2>5 DEF Fetches, ListenedIsFetched
  <2> QED BY <2>3, <2>6 DEF Fetches
<1> QED BY <1>1, <1>2

(* Every step keeps fetches and listeners together.                        *)
LEMMA StepFetches == TypeOK /\ KindsFit /\ Fetches /\ [Next]_vars => Fetches'
<1> SUFFICES ASSUME TypeOK, KindsFit, Fetches, [Next]_vars PROVE Fetches'
  OBVIOUS
<1>1. CASE UNCHANGED << listeners, pending >>
  BY <1>1 DEF Fetches, OneFetchPerKey, ListenedIsFetched
<1>2. ASSUME NEW c \in Clients, ClientNext(c) PROVE Fetches'
  BY <1>1, <1>2, ClientShapes DEF Asks, Ask, Returns, StaysAway, backend_vars
<1>3. CASE Wake \/ Drained \/ Received \/ Polled
  BY <1>1, <1>3 DEF Wake, Drained, Received, Polled
<1>4. ASSUME NEW r \in Requests, OnRequest(r) PROVE Fetches'
  BY <1>4, OnRequestFetches
<1>5. ASSUME NEW r \in Requests, Receive(r) PROVE Fetches'
  BY <1>1, <1>5 DEF Receive
<1>6. ASSUME NEW f \in pending, PollFuture(f) PROVE Fetches'
  BY <1>6, PollFutureFetches
<1>7. ASSUME NEW f \in pending, Fetched(f) PROVE Fetches'
  BY <1>7, FutureGoesOn DEF Fetched
<1>8. CASE UNCHANGED vars
  BY <1>1, <1>8 DEF vars, backend_vars
<1> QED
  BY <1>2, <1>3, <1>4, <1>5, <1>6, <1>7, <1>8 DEF Next, PollNext

-----------------------------------------------------------------------------
(* Wakeups: a round polls every future there is, and what comes after the  *)
(* round began calls the waker.                                            *)

(* At the start nothing is missed.                                         *)
LEMMA InitMissed == Init => NothingMissed
  BY DEF Init, NothingMissed

(* Whatever becomes ready while the backend may sleep has woken it.        *)
LEMMA StepMissed ==
  TypeOK /\ KindsFit /\ Fetches /\ NothingMissed /\ [Next]_vars => NothingMissed'
<1> SUFFICES ASSUME TypeOK, KindsFit, Fetches, NothingMissed, [Next]_vars
             PROVE  NothingMissed'
  OBVIOUS
<1> USE DEF NothingMissed, TypeOK
<1>1. ASSUME NEW c \in Clients, ClientNext(c) PROVE NothingMissed'
  BY <1>1, ClientShapes DEF Asks, Ask, Returns, StaysAway, backend_vars
<1>2. CASE Wake
  BY <1>2 DEF Wake
<1>3. CASE Drained
  BY <1>3 DEF Drained
<1>4. CASE Received
  BY <1>4 DEF Received
<1>5. CASE Polled
  BY <1>5 DEF Polled
<1>6. ASSUME NEW r \in Requests, OnRequest(r) PROVE NothingMissed'
  BY <1>6 DEF OnRequest
<1>7. ASSUME NEW r \in Requests, Receive(r) PROVE NothingMissed'
  BY <1>7 DEF Receive
<1>8. ASSUME NEW f \in pending, PollFuture(f) PROVE NothingMissed'
  <2>1. /\ pc = "poll" /\ pc' = "poll" /\ woken' = woken /\ incoming' = incoming
        /\ todo' = todo \ {[key |-> f.key, by |-> f.by]}
        /\ \A g \in pending' :
             (g \in pending /\ g # f) \/ g = [f EXCEPT !.state = "flying"]
    BY <1>8 DEF PollFuture
  <2>2. [f EXCEPT !.state = "flying"].state = "flying"
    BY DEF Futures
  <2>3. \A g \in pending : g # f => g.key # f.key
    BY DEF Fetches, OneFetchPerKey
  <2>4. \A g \in pending : g # f =>
          [key |-> g.key, by |-> g.by] # [key |-> f.key, by |-> f.by]
    BY <2>3
  <2> QED BY <2>1, <2>2, <2>4
<1>9. ASSUME NEW f \in pending, Fetched(f) PROVE NothingMissed'
  BY <1>9 DEF Fetched
<1>10. CASE UNCHANGED vars
  BY <1>10 DEF vars, backend_vars
<1> QED
  BY <1>1, <1>2, <1>3, <1>4, <1>5, <1>6, <1>7, <1>8, <1>9, <1>10 DEF Next, PollNext

-----------------------------------------------------------------------------
(* Accounts: a future for a slot has a listener that waits for this slot,  *)
(* and a client that waits for a slot has had its account fetched.         *)

Accounted == AccountFirst /\ NoPhantomAccount

(* At the start what a client knows of an account is in the cache.         *)
LEMMA InitAccounted == Init => Accounted
  BY KeyTypes DEF Init, Accounted, AccountFirst, NoPhantomAccount

(* A client asks for a slot only after it has got the slot's account.      *)
LEMMA ClientAccounted ==
  ASSUME TypeOK, KindsFit, Accounted, NEW c \in Clients, ClientNext(c)
  PROVE  Accounted'
<1> USE KeyTypes DEF TypeOK, Accounted, AccountFirst, NoPhantomAccount
<1>1. ASSUME NEW a \in Accounts, LoadLocal(c, a) PROVE Accounted'
  BY <1>1 DEF LoadLocal, backend_vars
<1>2. ASSUME NEW a \in Accounts, AskBasic(c, a) PROVE Accounted'
  BY <1>2 DEF AskBasic, Ask, local_vars
<1>3. ASSUME NEW s \in Slots, AskInfo(c, s) PROVE Accounted'
  BY <1>3 DEF AskInfo, Ask, local_vars
<1>4. ASSUME NEW k \in Slots \cup Numbers, AskValue(c, k) PROVE Accounted'
  <2>1. db[AccountOf[k]] = "chain" \/ k \notin Slots
    BY <1>4, ForkAssumption DEF AskValue
  <2> QED BY <1>4, <2>1 DEF AskValue, Ask, local_vars
<1>5. CASE ReturnBasic(c)
  <2>1. CASE reply[c] = "error"
    BY <1>5, <2>1 DEF ReturnBasic, backend_vars
  <2>2. CASE reply[c] # "error"
    <3>1. reply[c] = "chain" /\ want[c] \in Accounts /\ db[want[c]] = "chain"
      BY <1>5, <2>2 DEF ReturnBasic, Resolved, Answers, KindsFit, KindFits
    <3>2. /\ loaded' = [loaded EXCEPT ![c] = @ \cup {want[c]}]
          /\ info' = [info EXCEPT ![c][want[c]] = "chain"] \/ info' = info
          /\ step' = [step EXCEPT ![c] = "idle"]
          /\ UNCHANGED << db, want, reply >>
      BY <1>5, <2>2, <3>1 DEF ReturnBasic, backend_vars
    <3>3. \A d \in Clients, a \in Accounts :
            \/ info'[d][a] = info[d][a]
            \/ info'[d][a] = "chain" /\ d = c /\ a = want[c]
      BY <3>1, <3>2
    <3>4. \A d \in Clients : \A a \in loaded'[d] :
            a \in loaded[d] \/ (d = c /\ a = want[c])
      BY <3>2
    <3>5. \A d \in Clients : d # c => step'[d] = step[d]
      BY <3>2
    <3> QED BY <3>1, <3>2, <3>3, <3>4, <3>5
  <2> QED BY <2>1, <2>2
<1>6. CASE KeepInfo(c)
  <2>1. want[c] \in Slots /\ db[AccountOf[want[c]]] = "chain"
    BY <1>6 DEF KeepInfo, KindsFit, KindFits
  <2>2. CASE reply[c] = "error"
    BY <1>6, <2>2 DEF KeepInfo, backend_vars
  <2>3. CASE reply[c] # "error"
    <3>1. reply[c] = "chain"
      BY <1>6, <2>3 DEF KeepInfo, Resolved, Answers
    <3>2. /\ info' = [info EXCEPT ![c][AccountOf[want[c]]] = "chain"]
          /\ step' = [step EXCEPT ![c] = "value"]
          /\ reply' = [reply EXCEPT ![c] = "none"]
          /\ UNCHANGED << db, want, loaded >>
      BY <1>6, <2>3, <3>1 DEF KeepInfo, Ask
    <3> QED BY <2>1, <3>2
  <2> QED BY <2>2, <2>3
<1>7. CASE KeepValue(c)
  BY <1>7 DEF KeepValue, backend_vars
<1>8. CASE ReturnValue(c)
  BY <1>8 DEF ReturnValue, backend_vars, local_vars
<1>9. CASE Commit(c)
  <2>1. PICK changed \in SUBSET loaded[c] :
          info' = [info EXCEPT ![c] =
                     [a \in Accounts |-> IF a \in changed THEN "own" ELSE @[a]]]
    BY <1>9 DEF Commit
  <2>2. \A d \in Clients, a \in Accounts :
          \/ info'[d][a] = info[d][a]
          \/ info'[d][a] = "own" /\ d = c /\ a \in loaded[c]
    BY <2>1
  <2>3. /\ loaded' = [loaded EXCEPT ![c] = {}]
        /\ UNCHANGED << db, step, want, reply >>
    BY <1>9 DEF Commit, backend_vars
  <2> QED BY <2>2, <2>3
<1> QED BY <1>1, <1>2, <1>3, <1>4, <1>5, <1>6, <1>7, <1>8, <1>9 DEF ClientNext

(* The cache only ever gains keys.                                         *)
LEMMA InsertKeeps ==
  ASSUME TypeOK, Accounted, NEW key \in Keys, Insert(key),
         key \in Slots => db[AccountOf[key]] = "chain"
  PROVE  /\ db'[key] = "chain"
         /\ \A k \in Keys : db'[k] # "empty"
         /\ \A k \in Keys : db[k] = "chain" => db'[k] = "chain"
  BY KeyTypes DEF Insert, TypeOK, Accounted, AccountFirst

(* Every step keeps the accounts in the cache before their slots.          *)
LEMMA StepAccounted ==
  TypeOK /\ KindsFit /\ InOnePlace /\ Fetches /\ Accounted /\ [Next]_vars => Accounted'
<1> SUFFICES ASSUME TypeOK, KindsFit, InOnePlace, Fetches, Accounted, [Next]_vars
             PROVE  Accounted'
  OBVIOUS
<1> USE KeyTypes DEF TypeOK
<1>1. CASE UNCHANGED << db, client_vars >>
  BY <1>1 DEF Accounted, AccountFirst, NoPhantomAccount, client_vars, local_vars
<1>2. ASSUME NEW c \in Clients, ClientNext(c) PROVE Accounted'
  BY <1>2, ClientAccounted
<1>3. CASE Wake \/ Drained \/ Received \/ Polled
  BY <1>1, <1>3 DEF Wake, Drained, Received, Polled
<1>4. ASSUME NEW r \in Requests, OnRequest(r) PROVE Accounted'
  <2>1. r.client \in Clients /\ r.key \in Keys /\ r.key = Wanted(r.client)
    BY <1>4 DEF OnRequest, InOnePlace, Requests
  <2>2. CASE db[r.key] = "none"
    BY <1>1, <1>4, <2>2 DEF OnRequest, client_vars
  <2>3. CASE db[r.key] # "none"
    <3>1. db[r.key] = "chain"
      BY <2>1, <2>3 DEF Accounted, AccountFirst, Cached
    <3>2. /\ Reply({r.client}, "chain")
          /\ UNCHANGED << db, step, want, loaded, info, storage >>
      BY <1>4, <2>3, <3>1 DEF OnRequest, local_vars
    <3>3. step[r.client] = "basic" => db[want[r.client]] = "chain"
      BY <2>1, <3>1 DEF Wanted, KeyFor
    <3> QED BY <2>1, <3>2, <3>3
            DEF Reply, Accounted, AccountFirst, NoPhantomAccount
  <2> QED BY <2>2, <2>3
<1>5. ASSUME NEW r \in Requests, Receive(r) PROVE Accounted'
  BY <1>1, <1>5 DEF Receive
<1>6. ASSUME NEW f \in pending, PollFuture(f) PROVE Accounted'
  <2>1. /\ f.key \in Keys /\ f.state \in {"new", "flying", "ok", "error"}
        /\ UNCHANGED << step, want, loaded, info, storage >>
    BY <1>6 DEF PollFuture, Futures, local_vars
  <2>2. CASE f.state \in {"new", "flying"}
    BY <1>1, <1>6, <2>2 DEF PollFuture, client_vars, local_vars
  <2>3. CASE f.state = "error"
    <3>1. Reply(listeners[f.key], "error") /\ db' = db
      BY <1>6, <2>3 DEF PollFuture
    <3> QED BY <2>1, <3>1 DEF Reply, Accounted, AccountFirst, NoPhantomAccount
  <2>4. CASE f.state = "ok"
    <3>1. Reply(listeners[f.key], "chain") /\ Insert(f.key)
      BY <1>6, <2>4 DEF PollFuture
    <3>2. PICK c \in Clients : c \in listeners[f.key]
      BY <2>1 DEF Fetches, ListenedIsFetched
    <3>3. f.key \in Slots => db[AccountOf[f.key]] = "chain"
      <4> SUFFICES ASSUME f.key \in Slots PROVE db[AccountOf[f.key]] = "chain"
        OBVIOUS
      <4>1. step[c] # "idle" /\ f.key = Wanted(c)
        BY <2>1, <3>2 DEF InOnePlace, Blocked
      <4>2. KindFits(step[c], want[c])
        BY DEF KindsFit
      <4>3. step[c] \in {"value", "reading"} /\ want[c] = f.key
        BY <4>1, <4>2, ForkAssumption DEF Wanted, KeyFor, KindFits
      <4> QED BY <4>3 DEF Accounted, AccountFirst
    <3>4. /\ db'[f.key] = "chain"
          /\ \A k \in Keys : db'[k] # "empty"
          /\ \A k \in Keys : db[k] = "chain" => db'[k] = "chain"
      BY <2>1, <3>1, <3>3, InsertKeeps
    <3>5. \A d \in listeners[f.key] : step[d] = "basic" => want[d] = f.key
      BY <2>1 DEF InOnePlace, Wanted, KeyFor
    <3>6. \A d \in Clients : step'[d] = "basic" /\ reply'[d] = "chain" =>
            db'[want'[d]] = "chain"
      BY <2>1, <3>1, <3>4, <3>5 DEF Reply, Accounted, AccountFirst
    <3>7. \A d \in Clients : reply'[d] # "empty"
      BY <3>1 DEF Reply, Accounted, NoPhantomAccount
    <3> QED BY <2>1, <3>4, <3>6, <3>7 DEF Accounted, AccountFirst, NoPhantomAccount
  <2> QED BY <2>1, <2>2, <2>3, <2>4
<1>7. ASSUME NEW f \in pending, Fetched(f) PROVE Accounted'
  BY <1>1, <1>7 DEF Fetched
<1>8. CASE UNCHANGED vars
  BY <1>1, <1>8 DEF vars, backend_vars
<1> QED
  BY <1>2, <1>3, <1>4, <1>5, <1>6, <1>7, <1>8 DEF Next, PollNext

-----------------------------------------------------------------------------
(* The theorems.                                                           *)

(* The inductive invariant holds in every state.                           *)
LEMMA ForkAlways == Spec => []ForkInv
<1>1. Init => ForkInv
  <2>1. Init => KindsFit
    BY DEF Init, KindsFit, KindFits
  <2> QED BY <2>1, InitTypes, InitPlaces, InitFetches, InitMissed, InitAccounted
          DEF ForkInv, Fetches, Accounted
<1>2. ForkInv /\ [Next]_vars => ForkInv'
  BY StepTypes, StepKinds, StepPlaces, StepFetches, StepMissed, StepAccounted
  DEF ForkInv, Fetches, Accounted
<1> QED BY <1>1, <1>2, PTL DEF Spec

(* Every state of the clients and the backend has the types of TypeOK.     *)
THEOREM ForkTypes == Spec => []TypeOK
<1>1. ForkInv => TypeOK
  BY DEF ForkInv
<1> QED BY <1>1, ForkAlways, PTL

(* on_request: a key is fetched from the provider once at a time, for any  *)
(* number of clients that ask for it, and however fetches fail.            *)
THEOREM KeyIsFetchedOnce == Spec => []OneFetchPerKey
<1>1. ForkInv => OneFetchPerKey
  BY DEF ForkInv
<1> QED BY <1>1, ForkAlways, PTL

(* A key has listeners exactly while a future for it is pending.           *)
THEOREM ListenersHaveFetch == Spec => []ListenedIsFetched
<1>1. ForkInv => ListenedIsFetched
  BY DEF ForkInv
<1> QED BY <1>1, ForkAlways, PTL

(* A client blocked in recv() is known to the backend exactly once.        *)
THEOREM ClientIsKnownOnce == Spec => []NobodyForgotten
<1>1. ForkInv => NobodyForgotten
  <2> SUFFICES ASSUME ForkInv, NEW c \in Clients, step[c] # "idle", ~Resolved(c)
               PROVE  Cardinality({ r \in incoming : r.client = c })
                        + Cardinality({ r \in queued_requests : r.client = c })
                        + Cardinality({ k \in Keys : c \in listeners[k] }) = 1
    BY DEF NobodyForgotten
  <2> DEFINE sent == { r \in incoming : r.client = c }
             read == { r \in queued_requests : r.client = c }
             told == { k \in Keys : c \in listeners[k] }
  <2>1. TypeOK /\ InOnePlace /\ KindsFit /\ Blocked(c)
    BY DEF ForkInv, Blocked
  <2>2. Wanted(c) \in Keys
    BY <2>1, KeyTypes DEF TypeOK, KindsFit, Wanted
  <2>3. /\ \A r, q \in sent \cup read : r = q
        /\ sent \cap read = {}
        /\ sent \cup read = Unread(c)
    BY <2>1, SameRequest DEF TypeOK, InOnePlace, Unread
  <2>4. /\ told \subseteq {Wanted(c)}
        /\ told # {} => Unread(c) = {}
        /\ Unread(c) # {} \/ Wanted(c) \in told
    BY <2>1, <2>2 DEF InOnePlace
  <2>5. Cardinality({}) = 0 /\ \A x : Cardinality({x}) = 1
    BY FS_EmptySet, FS_Singleton
  <2>6. CASE Unread(c) = {}
    <3>1. sent = {} /\ read = {} /\ told = {Wanted(c)}
      BY <2>3, <2>4, <2>6
    <3> HIDE DEF sent, read, told
    <3>2. Cardinality(sent) = 0 /\ Cardinality(read) = 0 /\ Cardinality(told) = 1
      BY <2>5, <3>1
    <3> QED BY <3>2 DEF sent, read, told
  <2>7. CASE Unread(c) # {}
    <3>1. PICK q \in Unread(c) : TRUE
      BY <2>7
    <3>2. told = {} /\ ((sent = {q} /\ read = {}) \/ (sent = {} /\ read = {q}))
      BY <2>3, <2>4, <2>7, <3>1
    <3> HIDE DEF sent, read, told
    <3>3. Cardinality(told) = 0
      BY <2>5, <3>2
    <3>4. \/ Cardinality(sent) = 1 /\ Cardinality(read) = 0
          \/ Cardinality(sent) = 0 /\ Cardinality(read) = 1
      BY <2>5, <3>2
    <3>5. Cardinality(sent) + Cardinality(read) + Cardinality(told) = 1
      BY <3>3, <3>4
    <3> QED BY <3>5 DEF sent, read, told
  <2> QED BY <2>6, <2>7
<1> QED BY <1>1, ForkAlways, PTL

(* GlobalBackend::poll returns Poll::Pending only when a waker is held by  *)
(* everything that is left: no request is behind it, every future flies.   *)
THEOREM WakeupIsNotLost == Spec => []NoLostWakeup
<1>1. ForkInv => NoLostWakeup
  BY DEF ForkInv, NothingMissed, NoLostWakeup
<1> QED BY <1>1, ForkAlways, PTL

(* No client ever gets, or keeps, the empty account that the cache makes   *)
(* up for a slot of an account it does not know.                           *)
THEOREM AccountIsFromChain == Spec => []NoPhantomAccount
<1>1. ForkInv => NoPhantomAccount
  BY DEF ForkInv
<1> QED BY <1>1, ForkAlways, PTL

=============================================================================
