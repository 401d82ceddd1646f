------------------------- MODULE BoundedWorkerCache -------------------------
(***************************************************************************)
(* The bounded caches of the model import worker                           *)
(* (src/src/toolcraft/runtime/model-import/worker/bounded-worker-cache.ts).*)
(*                                                                         *)
(* Every stage of the worker (decode, analyze, repair) has a cache of at   *)
(* most MaxEntries entries in order of use, and one coordinator bounds the *)
(* bytes of all of them: a reservation evicts the entries used longest ago *)
(* in whatever stage.  The two sides refer to an entry by a token, an      *)
(* object of its own that no other entry has.                              *)
(***************************************************************************)
EXTENDS Naturals, SequencesExt

CONSTANTS
    Stages,             \* stages with a cache of their own
    MaxAggregateBytes,  \* bound of the coordinator
    MaxEntries          \* bound of every stage

ASSUME CacheAssumption ==
    MaxAggregateBytes \in Nat \ {0} /\ MaxEntries \in Nat \ {0}

\* local: the entries of every stage, the one used longest ago first
\* order: the entries of the coordinator, in the order of their use
EmptyCache == [local |-> [s \in Stages |-> <<>>], order |-> <<>>, retained |-> 0]

\* What a Map holds for a key: a stage for the key of a value, the coordinator for a token.
Has(c, s, k) == \E e \in ToSet(c.local[s]) : e.key = k

EntryAt(c, s, k) == CHOOSE e \in ToSet(c.local[s]) : e.key = k

Holds(entries, t) == \E e \in ToSet(entries) : e.token = t

Held(entries, t) == CHOOSE e \in ToSet(entries) : e.token = t

Without(entries, t) ==
    IF Holds(entries, t) THEN RemoveAt(entries, CHOOSE i \in DOMAIN entries : entries[i].token = t)
    ELSE entries

BytesOf(entries) ==
    LET sum[n \in 0 .. Len(entries)] == IF n = 0 THEN 0 ELSE sum[n - 1] + entries[n].bytes
    IN  sum[Len(entries)]

\* The identity of a new object: no entry in use has it.
TokensInUse(c) ==
    {e.token : e \in ToSet(c.order)} \cup UNION {{e.token : e \in ToSet(c.local[s])} : s \in Stages}

FreshToken(c) == Min((1 .. Cardinality(TokensInUse(c)) + 1) \ TokensInUse(c))

\* The coordinator forgets a token, if it knows it.
Release(c, t) ==
    IF Holds(c.order, t)
    THEN [c EXCEPT !.order = Without(@, t), !.retained = @ - Held(c.order, t).bytes]
    ELSE c

\* Mutant: the coordinator is not told.
ForgetLocally(c, s, k) ==
    IF ~Has(c, s, k) THEN c
    ELSE [c EXCEPT !.local[s] = Without(@, EntryAt(c, s, k).token)]

Forget(c, s, k) ==
    IF ~Has(c, s, k) THEN c
    ELSE LET t == EntryAt(c, s, k).token
         IN  Release([c EXCEPT !.local[s] = Without(@, t)], t)

\* The oldest entry leaves the coordinator and its stage.
EvictOldest(c) ==
    LET oldest == Head(c.order)
    IN  [local |-> [s \in Stages |-> Without(c.local[s], oldest.token)],
         order |-> Tail(c.order),
         retained |-> c.retained - oldest.bytes]

\* As many of the oldest entries as it takes.
Evict(c) ==
    LET after[n \in 0 .. Len(c.order)] == IF n = 0 THEN c ELSE EvictOldest(after[n - 1])
    IN  after[Min({n \in 0 .. Len(c.order) : after[n].retained <= MaxAggregateBytes})]

Reserve(c, e) ==
    Evict([local |-> c.local, order |-> Append(c.order, e), retained |-> c.retained + e.bytes])

\* A hit moves the entry to the young end of its stage and of the coordinator.
Touch(c, s, k) ==
    IF ~Has(c, s, k) THEN c
    ELSE LET e == EntryAt(c, s, k)
             moved == [c EXCEPT !.local[s] = Append(Without(@, e.token), e)]
         IN  IF Holds(c.order, e.token)
             THEN [moved EXCEPT !.order = Append(Without(@, e.token), Held(@, e.token))]
             ELSE moved

\* A value larger than all caches together is not kept, and replaces nothing.
Store(c, s, k, bytes, value) ==
    IF bytes > MaxAggregateBytes THEN c
    ELSE LET cleared == Forget(c, s, k)
             t == FreshToken(cleared)
             e == [key |-> k, token |-> t, bytes |-> bytes, value |-> value]
             reserved == Reserve([cleared EXCEPT !.local[s] = Append(@, e)],
                                 [token |-> t, bytes |-> bytes])
         IN  IF Len(reserved.local[s]) > MaxEntries
             THEN Forget(reserved, s, Head(reserved.local[s]).key)
             ELSE reserved

-----------------------------------------------------------------------------

\* No two entries have the same token, nor two of a stage the same key.
Distinct(c) ==
    /\ \A i, j \in DOMAIN c.order : c.order[i].token = c.order[j].token => i = j
    /\ \A s, r \in Stages : \A i \in DOMAIN c.local[s], j \in DOMAIN c.local[r] :
          c.local[s][i].token = c.local[r][j].token => s = r /\ i = j
    /\ \A s \in Stages : \A i, j \in DOMAIN c.local[s] :
          c.local[s][i].key = c.local[s][j].key => i = j

\* The coordinator knows exactly the entries that the stages hold, and their bytes.
Accounted(c) ==
    /\ \A s \in Stages : \A e \in ToSet(c.local[s]) :
          [token |-> e.token, bytes |-> e.bytes] \in ToSet(c.order)
    /\ \A o \in ToSet(c.order) : \E s \in Stages : \E e \in ToSet(c.local[s]) :
          e.token = o.token /\ e.bytes = o.bytes
    /\ c.retained = BytesOf(c.order)

\* The coordinator accounts for exactly the entries that the stages hold, one
\* key of a stage has one entry, and both bounds are kept.
CacheConsistent(c) ==
    /\ Distinct(c)
    /\ Accounted(c)
    /\ c.retained <= MaxAggregateBytes
    /\ \A s \in Stages : Len(c.local[s]) <= MaxEntries
=============================================================================
