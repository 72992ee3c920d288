------------------------------ MODULE QueryCache ------------------------------
(***************************************************************************)
(* The response cache of middleware/query-cache.ts: the middleware that    *)
(* fills it, the CacheWarmer, and the CacheInvalidator, which finds the    *)
(* entries of a tag in a Redis set kept beside them.                       *)
(*                                                                         *)
(* One tag, since tags share nothing.  Time is what is left of each key's  *)
(* time to live.  Left out: the bodies, and the statistics.                *)
(***************************************************************************)
EXTENDS Naturals

CONSTANTS
  CacheKey,    \* cached URLs
  LongLived,   \* those whose route has the longer options.ttl
  ShortTtl, LongTtl,
  CachedRequest, \* requests that pass through the middleware
  WarmUp,      \* warm-ups of one entry
  Invalidator, \* invalidations
  MaxCacheFaults \* bound: failed commands

ASSUME QueryCacheConfig ==
  /\ LongLived \subseteq CacheKey
  /\ ShortTtl \in Nat \ {0} /\ LongTtl \in Nat /\ ShortTtl < LongTtl
  /\ MaxCacheFaults \in Nat

VARIABLES
  entry,    \* what is left of each entry's time to live, 0 when absent
  tagSet,   \* the members of smartdrop:cache:tag:<tag>; empty when absent
  tagTtl,   \* and what is left of its time to live
  storing,  \* where each request or warm-up is
  inval,    \* where each invalidation is, the keys it read, and what it owes
  covered,  \* history: entries whose SADD and EXPIRE are through
  cacheFaults

queryCacheVars == <<entry, tagSet, tagTtl, storing, inval, covered, cacheFaults>>

Storer == CachedRequest \cup WarmUp
Forever == LongTtl + 1
Ttl(k) == IF k \in LongLived THEN LongTtl ELSE ShortTtl
NotStoring == [pc |-> "idle", key |-> "none"]
NotInvalidating == [pc |-> "idle", keys |-> {}, owed |-> {}, tagSetToo |-> FALSE]

QueryCacheInit ==
  /\ entry = [k \in CacheKey |-> 0]
  /\ tagSet = {} /\ tagTtl = Forever
  /\ storing = [w \in Storer |-> NotStoring]
  /\ inval = [i \in Invalidator |-> NotInvalidating]
  /\ covered = {}
  /\ cacheFaults = 0

CacheFault == cacheFaults < MaxCacheFaults /\ cacheFaults' = cacheFaults + 1

\* A set that has expired, or has no members, is no key at all; a new one never
\* expires until it is told to.
TagSetIs(members, ttl) ==
  /\ tagSet' = IF ttl = 0 THEN {} ELSE members
  /\ tagTtl' = IF ttl = 0 \/ members = {} THEN Forever ELSE ttl

\* An invalidation owes the removal of what was cached and tagged when it began,
\* and not of what is cached again meanwhile.
StoredAgain(k) == [i \in Invalidator |-> [inval[i] EXCEPT !.owed = @ \ {k}]]

-----------------------------------------------------------------------------
(* Filling the cache *)

\* createQueryCache: the entry is not there, so the handler runs, and res.json
\* stores a 2xx answer that options.condition accepts.  An entry that is there
\* is served, and a failing GET serves the request without the cache.
RequestMisses(w, k) ==
  /\ storing[w].pc = "idle"
  /\ entry[k] = 0
  /\ storing' = [storing EXCEPT ![w] = [pc |-> "handler", key |-> k]]
  /\ UNCHANGED <<entry, tagSet, tagTtl, inval, covered, cacheFaults>>

\* CacheWarmer.warmCache fetches whether or not the entry is there.
WarmCache(w, k) ==
  /\ storing[w].pc = "idle"
  /\ storing' = [storing EXCEPT ![w] = [pc |-> "fetcher", key |-> k]]
  /\ UNCHANGED <<entry, tagSet, tagTtl, inval, covered, cacheFaults>>

\* The handler, or the fetcher, answers with something that is not cached.
NotCached(w) ==
  /\ storing[w].pc \in {"handler", "fetcher"}
  /\ storing' = [storing EXCEPT ![w] = NotStoring]
  /\ UNCHANGED <<entry, tagSet, tagTtl, inval, covered, cacheFaults>>

\* SETEX.  The middleware does not wait for it, and stores the tags even if it
\* fails; the warm-up gives up.
Setex(w) ==
  LET s == storing[w] IN
  /\ s.pc \in {"handler", "fetcher"}
  /\ \/ /\ entry' = [entry EXCEPT ![s.key] = Ttl(s.key)]
        /\ covered' = covered \ {s.key}
        /\ inval' = StoredAgain(s.key)
        /\ storing' = [storing EXCEPT ![w].pc = "sadd"]
        /\ UNCHANGED cacheFaults
     \/ /\ CacheFault
        /\ storing' = [storing EXCEPT ![w] = IF s.pc = "fetcher" THEN NotStoring ELSE [s EXCEPT !.pc = "sadd"]]
        /\ UNCHANGED <<entry, covered, inval>>
  /\ UNCHANGED <<tagSet, tagTtl>>

\* storeCacheTags: SADD, then EXPIRE of the whole set to this entry's TTL.  SADD
\* creates a set that never expires, or joins one and its time to live.
Sadd(w) ==
  /\ storing[w].pc = "sadd"
  /\ tagSet' = tagSet \cup {storing[w].key}
  /\ UNCHANGED tagTtl
  /\ storing' = [storing EXCEPT ![w].pc = "expire"]
  /\ UNCHANGED <<entry, inval, covered, cacheFaults>>

\* An entry that outlives the new deadline of the set is no longer covered.
TagTtl_OneLess(ttl) == ttl - 1

TagTtl(ttl) == ttl

Expire(w) ==
  LET s == storing[w] IN
  /\ s.pc = "expire"
  /\ TagSetIs(tagSet, IF tagSet = {} THEN Forever ELSE TagTtl(Ttl(s.key)))
  /\ covered' = {k \in covered \cup ({s.key} \cap tagSet) : entry[k] \in 1..Ttl(s.key)}
  /\ storing' = [storing EXCEPT ![w] = NotStoring]
  /\ UNCHANGED <<entry, inval, cacheFaults>>

\* SADD or EXPIRE fails: the error is logged.
TaggingFails(w) ==
  /\ storing[w].pc \in {"sadd", "expire"}
  /\ CacheFault
  /\ storing' = [storing EXCEPT ![w] = NotStoring]
  /\ UNCHANGED <<entry, tagSet, tagTtl, inval, covered>>

-----------------------------------------------------------------------------
(* Emptying the cache *)

invalidateKey(k) ==
  /\ entry[k] # 0
  /\ entry' = [entry EXCEPT ![k] = 0]
  /\ covered' = covered \ {k}
  /\ UNCHANGED <<tagSet, tagTtl, storing, inval, cacheFaults>>

\* invalidateByTag: SMEMBERS; an empty set is the end of it.
Smembers(i) ==
  /\ inval[i].pc = "idle" /\ tagSet # {}
  /\ inval' = [inval EXCEPT ![i] =
                 [pc |-> "delTagged", keys |-> tagSet, owed |-> covered, tagSetToo |-> FALSE]]
  /\ UNCHANGED <<entry, tagSet, tagTtl, storing, covered, cacheFaults>>

\* invalidatePattern: KEYS; nothing found is the end of it.  The pattern '*' of
\* clearAll finds the tag sets too.
KeysFound(i, pattern, all) ==
  LET found == {k \in pattern : entry[k] # 0} IN
  /\ inval[i].pc = "idle"
  /\ all => pattern = CacheKey
  /\ found # {} \/ (all /\ tagSet # {})
  /\ inval' = [inval EXCEPT ![i] =
                 [pc |-> "delFound", keys |-> found, owed |-> found,
                  tagSetToo |-> all /\ tagSet # {}]]
  /\ UNCHANGED <<entry, tagSet, tagTtl, storing, covered, cacheFaults>>

\* The entries and the members that DEL takes away.
Deleted_AllButOne(i) == {k \in inval[i].keys : \E l \in inval[i].keys : l # k /\ entry[l] # 0}

Deleted(i) == inval[i].keys

DelEntries(i) ==
  /\ inval[i].pc \in {"delTagged", "delFound"}
  /\ entry' = [k \in CacheKey |-> IF k \in Deleted(i) THEN 0 ELSE entry[k]]
  /\ TagSetIs(IF inval[i].tagSetToo THEN {} ELSE tagSet, tagTtl)
  /\ covered' = IF inval[i].tagSetToo THEN {} ELSE covered \ Deleted(i)
  /\ inval' = [inval EXCEPT ![i].pc = IF @ = "delTagged" THEN "delTag" ELSE "done"]
  /\ UNCHANGED <<storing, cacheFaults>>

\* invalidateByTag goes on to DEL the set, and whatever joined it since it was
\* read: those entries stay, and no later invalidation finds them.
DelTag(i) ==
  /\ inval[i].pc = "delTag"
  /\ TagSetIs({}, Forever) /\ covered' = {}
  /\ inval' = [inval EXCEPT ![i].pc = "done"]
  /\ UNCHANGED <<entry, storing, cacheFaults>>

InvalidationOver(i) ==
  /\ inval[i].pc = "done"
  /\ inval' = [inval EXCEPT ![i] = NotInvalidating]
  /\ UNCHANGED <<entry, tagSet, tagTtl, storing, covered, cacheFaults>>

\* A command of an invalidation fails, and its caller gets the error.
InvalidationFails(i) ==
  /\ inval[i].pc \in {"delTagged", "delFound", "delTag"}
  /\ CacheFault
  /\ inval' = [inval EXCEPT ![i] = NotInvalidating]
  /\ UNCHANGED <<entry, tagSet, tagTtl, storing, covered>>

\* A second passes in Redis.
TtlTick ==
  /\ entry' = [k \in CacheKey |-> IF entry[k] = 0 THEN 0 ELSE entry[k] - 1]
  /\ TagSetIs(tagSet, IF tagTtl = Forever THEN Forever ELSE tagTtl - 1)
  /\ covered' = {k \in covered : entry'[k] # 0}
  /\ UNCHANGED <<storing, inval, cacheFaults>>

QueryCacheNext ==
  \/ \E w \in CachedRequest, k \in CacheKey : RequestMisses(w, k)
  \/ \E w \in WarmUp, k \in CacheKey : WarmCache(w, k)
  \/ \E w \in Storer :
       \/ NotCached(w) \/ Setex(w) \/ Sadd(w) \/ Expire(w) \/ TaggingFails(w)
  \/ \E k \in CacheKey : invalidateKey(k)
  \/ \E i \in Invalidator :
       \/ Smembers(i)
       \/ \E pattern \in SUBSET CacheKey, all \in BOOLEAN : KeysFound(i, pattern, all)
       \/ DelEntries(i) \/ DelTag(i)
       \/ InvalidationOver(i) \/ InvalidationFails(i)
  \/ TtlTick

-----------------------------------------------------------------------------

\* An invalidation that returns has removed every entry that was cached and
\* tagged when it began and was not cached again since, however requests,
\* warm-ups, other invalidations and expiries interleave.  For that the tag set
\* must outlive the entries it lists: an entry leaves it only when another entry
\* with a shorter time to live shortens the set's, or when it joins the set
\* while an invalidation deletes it.
InvalidationsComplete ==
  /\ covered \subseteq tagSet
  /\ \A i \in Invalidator : inval[i].pc = "done" => \A k \in inval[i].owed : entry[k] = 0

=============================================================================
