------------------------------ MODULE RequestCache ------------------------------
(***************************************************************************)
(* The browser's request caches (LruRequestCache and its users in api.ts): *)
(* the song catalogue, which counts generations; the details of Lives,     *)
(* which a batch fetches ahead; and the pages of lists.  A cache is the    *)
(* sequence of its entries, the one used longest ago first; an entry holds *)
(* data, a request still out, or both.                                     *)
(***************************************************************************)
EXTENDS Integers, Sequences, SequencesExt, FiniteSets

CONSTANTS
    Paths,          \* what is asked for; numbers, as pages of a list are
    CacheSize,      \* maxSize
    MaxFetches,     \* bound: requests sent
    MaxChanges      \* bound: changes of the server's data

ASSUME CacheAssumption ==
    Paths \subseteq Nat /\ CacheSize \in Nat \ {0} /\ MaxFetches \in Nat /\ MaxChanges \in Nat

VARIABLES
    version,        \* of the server's data
    caches,         \* the entries of each cache
    fetches,        \* the requests sent, with what they read
    recent,         \* detailRecentRequest: requests for details that are not yet too old
    generation,     \* songCatalogGeneration
    learned         \* version when the browser last learned of a change

cacheVars == <<version, caches, fetches, recent, generation, learned>>

CacheNames == {"catalog", "details", "lists"}
NoData == -1
NoFetch == 0
CacheEntry(p, data, f) == [path |-> p, data |-> data, fetch |-> f]
Sent == DOMAIN fetches

CacheInit ==
    /\ version = 0 /\ learned = 0 /\ generation = 0
    /\ caches = [c \in CacheNames |-> <<>>] /\ fetches = <<>> /\ recent = {}

----------------------------------------------------------------------------
(* LruRequestCache *)
PlacesOf(cache, p) == {i \in DOMAIN cache : cache[i].path = p}       \* one, if any
Get(cache, p) ==
    IF PlacesOf(cache, p) = {} THEN CacheEntry(p, NoData, NoFetch)
    ELSE cache[CHOOSE i \in PlacesOf(cache, p) : TRUE]
Drop(cache, p) ==
    IF PlacesOf(cache, p) = {} THEN cache ELSE RemoveAt(cache, CHOOSE i \in PlacesOf(cache, p) : TRUE)
Touch(cache, e) == Append(Drop(cache, e.path), e)
Evict(cache) == IF Len(cache) > CacheSize THEN Tail(cache) ELSE cache
SetInFlight(cache, p, f) == Evict(Touch(cache, CacheEntry(p, Get(cache, p).data, f)))
SetData(cache, p, data) == Evict(Touch(cache, CacheEntry(p, data, NoFetch)))
ClearInFlight(cache, p, f) ==
    IF Get(cache, p).fetch = f THEN Touch(cache, CacheEntry(p, Get(cache, p).data, NoFetch)) ELSE cache

----------------------------------------------------------------------------
Send(c, paths) ==
    /\ Len(fetches) < MaxFetches
    /\ fetches' = Append(fetches, [cache |-> c, paths |-> paths, generation |-> generation,
                                   state |-> "out", sent |-> version, data |-> NoData])

(* A page asks: fresh data is touched and returned; a request that is out, or
   for details one sent a moment ago, is joined; else a request is sent. *)
Ask(c, p) ==
    /\ UNCHANGED <<version, generation, learned>>
    /\ \/ /\ Get(caches[c], p).data # NoData
          /\ caches' = [caches EXCEPT ![c] = Touch(@, Get(@, p))]
          /\ UNCHANGED <<fetches, recent>>
       \/ /\ Get(caches[c], p).data = NoData /\ Get(caches[c], p).fetch = NoFetch
          /\ c = "details" => \A f \in recent : p \notin fetches[f].paths
          /\ Send(c, {p})
          /\ caches' = [caches EXCEPT ![c] = SetInFlight(@, p, Len(fetches'))]
          /\ recent' = IF c = "details" THEN recent \union {Len(fetches')} ELSE recent

(* getLiveDetailsBatch: what is neither fresh nor being fetched is asked for
   at once, and no entry says so. *)
AskBatch ==
    LET need == {p \in Paths : Get(caches["details"], p).data = NoData
                               /\ Get(caches["details"], p).fetch = NoFetch}
    IN /\ need # {} /\ Send("details", need)
       /\ UNCHANGED <<version, caches, recent, generation, learned>>

Read(f) ==
    /\ fetches[f].state = "out"
    /\ fetches' = [fetches EXCEPT ![f].state = "read", ![f].data = version]
    /\ UNCHANGED <<version, caches, recent, generation, learned>>

\* A mutant: what comes is stored, whatever the browser learned meanwhile.
StoredAnyGeneration(f) ==
    LET r == fetches[f]
    IN {FoldSeq(LAMBDA q, cache : ClearInFlight(SetData(cache, q, r.data), q, f), caches[r.cache], s)
           : s \in SetToSeqs(r.paths)}

Together(r) == {FoldSeq(LAMBDA q, cache : SetData(cache, q, r.data), caches.details, s) : s \in SetToSeqs(r.paths)}

(* The page a list answers with may be an earlier one than asked for; it is
   stored under both. *)
Stored(f) ==
    LET r == fetches[f]  p == CHOOSE p \in r.paths : TRUE IN
    CASE r.cache = "catalog" ->
            {ClearInFlight(IF r.generation = generation THEN SetData(caches.catalog, p, r.data) ELSE caches.catalog, p, f)}
      [] r.cache = "details" -> Together(r)
      [] r.cache = "lists" ->
            {IF q = p THEN SetData(caches.lists, p, r.data)
                      ELSE SetData(SetData(caches.lists, p, r.data), q, r.data) : q \in {q \in Paths : q <= p}}

Answer(f) ==
    /\ fetches[f].state = "read"
    /\ \E cache \in Stored(f) : caches' = [caches EXCEPT ![fetches[f].cache] = cache]
    /\ fetches' = [fetches EXCEPT ![f].state = "done"]
    /\ UNCHANGED <<version, recent, generation, learned>>

(* An error or a timeout after ten seconds; no entry waits for a batch. *)
Fail(f) ==
    /\ fetches[f].state \in {"out", "read"}
    /\ \E p \in fetches[f].paths :
          caches' = [caches EXCEPT ![fetches[f].cache] = ClearInFlight(@, p, f)]
    /\ fetches' = [fetches EXCEPT ![f].state = "done"]
    /\ UNCHANGED <<version, recent, generation, learned>>

(* Data grows old where it is, and requests too old to be joined. *)
Expire ==
    \/ /\ \E c \in CacheNames : \E i \in DOMAIN caches[c] :
             caches[c][i].data # NoData /\ caches' = [caches EXCEPT ![c][i].data = NoData]
       /\ UNCHANGED <<version, fetches, recent, generation, learned>>
    \/ /\ \E f \in recent : recent' = recent \ {f}
       /\ UNCHANGED <<version, caches, fetches, generation, learned>>

----------------------------------------------------------------------------
(* Someone changes the data, here or in another browser. *)
Change ==
    /\ version < MaxChanges /\ version' = version + 1
    /\ UNCHANGED <<caches, fetches, recent, generation, learned>>

(* clearLiveDataCaches: after a change of the song catalogue, and in a tab that
   another tab told of any change. *)
LearnAll ==
    /\ learned < version /\ learned' = version /\ generation' = generation + 1
    /\ caches' = [c \in CacheNames |-> <<>>]
    /\ UNCHANGED <<version, fetches, recent>>

(* The console's own saves: of a Live or its setlist, or of a group of Lives. *)
LearnLive(p) ==
    /\ learned < version
    /\ caches' = [caches EXCEPT !.lists = <<>>, !.details = Drop(@, p)]
    /\ UNCHANGED <<version, fetches, recent, generation, learned>>

LearnGroup ==
    /\ learned < version
    /\ caches' = [caches EXCEPT !.lists = <<>>, !.details = <<>>]
    /\ UNCHANGED <<version, fetches, recent, generation, learned>>

CacheNext ==
    \/ \E c \in CacheNames, p \in Paths : Ask(c, p)
    \/ AskBatch
    \/ \E f \in Sent : Read(f) \/ Answer(f) \/ Fail(f)
    \/ Expire \/ Change \/ LearnAll \/ LearnGroup
    \/ \E p \in Paths : LearnLive(p)

CacheSpec == CacheInit /\ [][CacheNext]_cacheVars

----------------------------------------------------------------------------
(* The song catalogue never shows a page what it was before a change the
   browser has learned of: neither data nor a request still out that a page
   would join reaches back behind it.  The other caches have no generations
   and do not promise this. *)
CatalogIsNotOlder ==
    \A i \in DOMAIN caches.catalog :
        LET e == caches.catalog[i] IN
        /\ e.data # NoData => e.data >= learned
        /\ e.fetch # NoFetch => fetches[e.fetch].sent >= learned
=============================================================================
