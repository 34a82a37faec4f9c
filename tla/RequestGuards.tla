---------------------------- MODULE RequestGuards ----------------------------
(***************************************************************************)
(* The in-memory rate limiter of src/lib/api/request-guards.ts, as the     *)
(* middleware uses it for requests and the login route for failed logins.  *)
(*                                                                         *)
(* A store keeps the hits of a window per client and per key (a path, or   *)
(* an email) within two limits, and what it does at them is the point of   *)
(* the model.  How many hits a window admits is not the store's affair: it *)
(* comes with each request, by its class, and the reads and the mutations  *)
(* of a path meet at one counter.                                          *)
(* The store's functions run without an await and are single steps;        *)
(* a login awaits its password check between the look at the counter and   *)
(* its update.                                                             *)
(***************************************************************************)
EXTENDS Integers, Sequences, Totals

CONSTANTS Client, Key,       \* client buckets; paths or emails
          Attempt,           \* logins that may be in progress at a time
          Limit, Window,     \* hits a window of time admits, by class of request
          SweepInterval,     \* least time between two full sweeps
          MaxKeysPerClient, MaxTrackedKeys,
          MaxTime, MaxRequests, \* bounds: time, requests admitted in a window
          None

(* The classes of limitsPerMinute, and those that meet in a store: the     *)
(* middleware has a store for the routes of authentication and one for the *)
(* others, the login route one for failures, under the limit of auth.      *)
Class == {"read", "mutation", "auth"}
Classes == [api |-> {"read", "mutation"}, auth |-> {"auth"}, email |-> {"auth"}]

ASSUME GuardsAssumption ==
  /\ IsFiniteSet(Client) /\ IsFiniteSet(Key) /\ IsFiniteSet(Attempt)
  /\ Limit \in [Class -> Nat \ {0}]
  /\ {Window, SweepInterval, MaxKeysPerClient, MaxTrackedKeys, MaxTime,
     MaxRequests} \subseteq Nat \ {0}
  /\ None \notin Seq(Nat)

VARIABLES
  guard,     \* which store this is: "api", "auth" or "email"
  store,     \* [table, keys, overflow, lastResort, lastSweep]
  login,     \* logins between their two looks at the store
  now,
  admitted,  \* history: [key, class, at] of a client's admitted requests, in a window
  spilled    \* history: clients whose requests were counted outside their keys

vars == <<guard, store, login, now, admitted, spilled>>

Idle == [phase |-> "idle"]

(* table[c] holds c's counters [key, hits], least recently used first. *)
Init ==
  /\ guard \in {"api", "auth", "email"}
  /\ store = [table |-> [c \in Client |-> <<>>], keys |-> 0,
              overflow |-> [c \in Client |-> None], lastResort |-> None,
              lastSweep |-> -SweepInterval]
  /\ login = [a \in Attempt |-> Idle]
  /\ now = 0
  /\ admitted = [c \in Client |-> <<>>]
  /\ spilled = {}

-----------------------------------------------------------------------------
(* Functions of a store S *)

(* What a filter by a set leaves of a sequence: SelectSeq, which filters   *)
(* by an operator, cannot be reasoned about for every sequence.            *)
Keep(seq, wanted) ==
  LET kept[i \in 0 .. Len(seq)] ==
        IF i = 0 THEN <<>>
        ELSE IF seq[i] \in wanted THEN Append(kept[i - 1], seq[i]) ELSE kept[i - 1]
  IN  kept[Len(seq)]

Live(hits) == Keep(hits, {at \in Nat : now - at < Window})

(* Mutant of IsExpired: one hit that has left the window is enough. *)
IsExpiredPartly(hits) == Live(hits) # hits
IsExpired(hits) == Live(hits) = <<>>

(* The counters of some keys. *)
Counters(keys) == [key : keys, hits : Seq(Nat)]

Positions(S, c, k) == {i \in DOMAIN S.table[c] : S.table[c][i].key = k}
Has(S, c, k) == Positions(S, c, k) # {}
Counter(S, c, k) == S.table[c][CHOOSE i \in Positions(S, c, k) : TRUE]

(* Mutant of Uncounted: the number of keys is not kept. *)
UncountedNever(S, n) == S.keys
Uncounted(S, n) == S.keys - n

(* dropClientKey *)
Drop(S, c, k) ==
  [S EXCEPT !.table[c] = Keep(@, Counters(Key \ {k})), !.keys = Uncounted(S, 1)]

(* evictExpiredForClient *)
Fresh(S, c) == Keep(S.table[c], {s \in Counters(Key) : ~IsExpired(s.hits)})
Evict(S, c) ==
  [S EXCEPT !.table[c] = Fresh(S, c), !.keys = Uncounted(S, Len(S.table[c]) - Len(Fresh(S, c)))]

(* evictExpiredKeys, at most once in a sweep interval *)
Sweep(S) ==
  IF now - S.lastSweep < SweepInterval THEN S ELSE
  LET stale == Total(Client, [c \in Client |-> Len(S.table[c]) - Len(Fresh(S, c))]) IN
  [S EXCEPT !.table = [c \in Client |-> Fresh(S, c)], !.keys = Uncounted(S, stale),
            !.overflow = [c \in Client |-> IF S.overflow[c] # None /\ IsExpired(S.overflow[c])
                                           THEN None ELSE S.overflow[c]],
            !.lastSweep = now]

Create(S, c, k) ==
  [S EXCEPT !.table[c] = Append(@, [key |-> k, hits |-> <<>>]), !.keys = @ + 1]

Spills(S) == Cardinality({c \in Client : S.overflow[c] # None})

(* overflowFor: the store and where c's hits are counted in it *)
OverflowFor(S, c) ==
  IF S.overflow[c] # None THEN [store |-> S, place |-> "overflow"] ELSE
  LET swept == IF Spills(S) >= MaxTrackedKeys THEN Sweep(S) ELSE S IN
  IF Spills(swept) < MaxTrackedKeys
  THEN [store |-> [swept EXCEPT !.overflow[c] = <<>>], place |-> "overflow"]
  ELSE [store |-> [swept EXCEPT !.lastResort = IF @ = None THEN <<>> ELSE @],
        place |-> "lastResort"]

(* stateFor: room is made at either limit, and the overflow used without.  *)
StateFor(S, c, k) ==
  IF Has(S, c, k) THEN [store |-> S, place |-> "own"] ELSE
  LET own == IF Len(S.table[c]) >= MaxKeysPerClient THEN Evict(S, c) ELSE S
      all == IF own.keys >= MaxTrackedKeys THEN Sweep(own) ELSE own IN
  IF Len(all.table[c]) >= MaxKeysPerClient \/ all.keys >= MaxTrackedKeys
  THEN OverflowFor(all, c)
  ELSE [store |-> Create(all, c, k), place |-> "own"]

Hits(S, c, k, place) ==
  CASE place = "own" -> Counter(S, c, k).hits
    [] place = "overflow" -> S.overflow[c]
    [] place = "lastResort" -> S.lastResort

Put(S, c, k, place, hits) ==
  CASE place = "own" -> [S EXCEPT !.table[c] = [i \in DOMAIN @ |->
                           IF @[i].key = k THEN [key |-> k, hits |-> hits] ELSE @[i]]]
    [] place = "overflow" -> [S EXCEPT !.overflow[c] = hits]
    [] place = "lastResort" -> [S EXCEPT !.lastResort = hits]

(* Mutant of HeaviestClients: ties are broken anyhow. *)
HeaviestClientsAny(S, c) == {d \in Client : \A e \in Client : Len(S.table[d]) >= Len(S.table[e])}
(* heaviestClient: ties go to the requester, among others to the first     *)
(* client in the map, here to any.                                         *)
HeaviestClients(S, c) ==
  LET heaviest == {d \in Client : \A e \in Client : Len(S.table[d]) >= Len(S.table[e])} IN
  IF c \in heaviest THEN {c} ELSE heaviest

(* emailStateFor: the stores it may leave, with k the newest key of c *)
EmailStores(S, c, k) ==
  IF Has(S, c, k)
  THEN {[S EXCEPT !.table[c] = Append(Keep(@, Counters(Key \ {k})), Counter(S, c, k))]} ELSE
  LET own == Evict(S, c)
      all == IF own.keys >= MaxTrackedKeys THEN Sweep(own) ELSE own
      victims == IF Len(all.table[c]) >= MaxKeysPerClient THEN {c}
                 ELSE IF all.keys >= MaxTrackedKeys THEN HeaviestClients(all, c) ELSE {} IN
  IF victims = {} THEN {Create(all, c, k)}
  ELSE {Create(Drop(all, v, Head(all.table[v]).key), c, k) : v \in victims}

-----------------------------------------------------------------------------
(* Mutant of Within: the limit itself is still admitted. *)
WithinIncluded(hits, x) == Len(Live(hits)) <= Limit[x]
(* limitedResponse *)
Within(hits, x) == Len(Live(hits)) < Limit[x]

(* Mutant of Counted: a refused request counts as well. *)
CountedAlways(hits, ok) == Append(Live(hits), now)
Counted(hits, ok) == IF ok THEN Append(Live(hits), now) ELSE Live(hits)

(* checkRateLimit: a request of class x is counted unless it is refused.   *)
(* Every class of the store looks at, and adds to, one counter of k.       *)
Request(c, k, x) ==
  /\ guard # "email" /\ x \in Classes[guard]
  /\ Total(Client, [d \in Client |-> Len(admitted[d])]) < MaxRequests
  /\ LET found == StateFor(store, c, k)
         hits == Hits(found.store, c, k, found.place)
         ok == Within(hits, x) IN
     /\ store' = Put(found.store, c, k, found.place, Counted(hits, ok))
     /\ admitted' = IF ok
                    THEN [admitted EXCEPT ![c] = Append(@, [key |-> k, class |-> x, at |-> now])]
                    ELSE admitted
     /\ spilled' = IF found.place = "own" THEN spilled ELSE spilled \cup {c}
  /\ UNCHANGED <<guard, login, now>>

(* checkLoginRateLimit: the counter is looked at and not yet raised. *)
LoginCheck(a, c, k) ==
  /\ guard = "email" /\ login[a] = Idle
  /\ Has(store, c, k) => Within(Counter(store, c, k).hits, "auth")
  /\ store' = IF Has(store, c, k)
              THEN Put(store, c, k, "own", Live(Counter(store, c, k).hits)) ELSE store
  /\ login' = [login EXCEPT ![a] = [phase |-> "password", client |-> c, key |-> k]]
  /\ UNCHANGED <<guard, now, admitted, spilled>>

(* The credentials are accepted: clearLoginFailures. *)
LoginSucceeds(a) ==
  /\ login[a].phase = "password"
  /\ store' = IF Has(store, login[a].client, login[a].key)
              THEN Drop(store, login[a].client, login[a].key) ELSE store
  /\ login' = [login EXCEPT ![a] = Idle]
  /\ UNCHANGED <<guard, now, admitted, spilled>>

(* They are rejected: recordLoginFailure. *)
LoginFails(a) ==
  /\ login[a].phase = "password"
  /\ LET c == login[a].client
         k == login[a].key IN
     \E S \in EmailStores(store, c, k) :
       store' = Put(S, c, k, "own", Append(Counter(S, c, k).hits, now))
  /\ login' = [login EXCEPT ![a] = Idle]
  /\ UNCHANGED <<guard, now, admitted, spilled>>

(* The admissions in the window at time n. *)
StillIn(n) == {r \in [key : Key, class : Class, at : Nat] : n - r.at < Window}

Tick ==
  /\ now < MaxTime
  /\ now' = now + 1
  /\ admitted' = [c \in Client |-> Keep(admitted[c], StillIn(now'))]
  /\ UNCHANGED <<guard, store, login, spilled>>

Next ==
  \/ Tick
  \/ \E c \in Client, k \in Key :
       \/ \E x \in Class : Request(c, k, x)
       \/ \E a \in Attempt : LoginCheck(a, c, k)
  \/ \E a \in Attempt : LoginSucceeds(a) \/ LoginFails(a)

Spec == Init /\ [][Next]_vars

-----------------------------------------------------------------------------
(* Properties *)

(* "a client owns at most MAX_KEYS_PER_CLIENT of them"                     *)
(* (request-guards.ts:109-111), the store at most MAX_TRACKED_KEYS, and    *)
(* the number of keys it goes by is the number it has, through every       *)
(* creation, eviction, sweep and clearing.                                 *)
KeysAreBounded ==
  /\ \A c \in Client : Len(store.table[c]) <= MaxKeysPerClient
  /\ store.keys = Total(Client, [c \in Client |-> Len(store.table[c])])
  /\ store.keys <= MaxTrackedKeys /\ Spills(store) <= MaxTrackedKeys

(* The requests of c a window has admitted, of some keys and classes *)
Admitted(c, keys, classes) == Len(Keep(admitted[c], [key : keys, class : classes, at : Nat]))

(* "Live counters are never evicted" (request-guards.ts:184): a client     *)
(* whose keys always found room gets no more requests of a class through   *)
(* on a path than the class's limit in any window, and in all no more than *)
(* a limit of one of the classes that share the path's counter, whatever   *)
(* it mixes and the others flood the store with.                           *)
LimitHolds ==
  guard # "email" =>
  \A c \in Client \ spilled, k \in Key :
    /\ \A x \in Classes[guard] : Admitted(c, {k}, {x}) <= Limit[x]
    /\ \E x \in Classes[guard] : Admitted(c, {k}, Class) <= Limit[x]

(* "a flooding client only throttles itself" (request-guards.ts:111): a    *)
(* request of a class is refused only to a client that has itself had as   *)
(* many requests in the window, of whatever classes, as the limit of this  *)
(* one, or when even the overflow is full.  Reads thus use up the limit of *)
(* mutations, which docs/mvp3-spec.md:53-54 has as a class of its own.     *)
OnlySelfThrottled ==
  guard # "email" =>
  \A c \in Client, k \in Key :
    LET found == StateFor(store, c, k)
        hits == Hits(found.store, c, k, found.place) IN
    \A x \in Classes[guard] :
      Within(hits, x) \/ found.place = "lastResort" \/ Len(admitted[c]) >= Limit[x]

(* The look at the counter and the record of a failure straddle the        *)
(* password check (login/route.ts:23-39): of one pair no more failures     *)
(* count in a window than the limit and the other logins in progress.      *)
FailuresBounded ==
  \A c \in Client : \A i \in DOMAIN store.table[c] :
    guard = "email" =>
      Len(Live(store.table[c][i].hits)) < Limit["auth"] + Cardinality(Attempt)

(* "A client never evicts a lighter one" (request-guards.ts:254): a live   *)
(* pair of another client makes room for a new pair only of a client that  *)
(* has fewer live pairs.                                                   *)
LighterKept ==
  [][\A c, d \in Client :
       c # d /\ (\E k \in Key : Has(store', c, k) /\ ~Has(store, c, k)) =>
       \A i \in DOMAIN store.table[d] :
         LET counter == store.table[d][i] IN
         ~IsExpired(counter.hits) /\ ~Has(store', d, counter.key)
           => Len(store.table[d]) > Len(Fresh(store, c))]_vars
=============================================================================
