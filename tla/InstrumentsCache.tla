-------------------------- MODULE InstrumentsCache --------------------------
(***************************************************************************)
(* The two caches of the catalogue in bullex_service/main.py: read_assets  *)
(* and, in front of it, the stored answers of /assets (list_assets).       *)
(*                                                                         *)
(* SessionManager.run lets one request at a time read, but a read only     *)
(* waits 8 s for the fetch it starts: the fetch goes on in a worker of     *)
(* _market_data_executor, and keeps the lock of the cache entry until its  *)
(* callback releases it.  A connect drops the user's entry, its lock       *)
(* included.  An answer of /assets is stored after run gave the user lock  *)
(* back, so a connect may come in between.                                 *)
(*                                                                         *)
(* A catalogue is the number of connects its user had made when it was     *)
(* fetched, 0 for none.  That is all the service knows of it: the symbols  *)
(* are those of OP_code.ACTIVES, one table of the library that the fetches *)
(* of every user fill (stable_api.py:214-226, 279-296), and a              *)
(* reconnection (main.py:822) keeps what was fetched before it.            *)
(***************************************************************************)
EXTENDS Naturals, FiniteSets

CONSTANTS
  Users,
  Entries, NoEntry,   \* bound: the entries that exist at once
  Fetches, NoFetch,   \* bound: the fetches under way at once
  NoUser,
  Workers,            \* BULLEX_MARKET_DATA_WORKERS
  MaxLogins,          \* bound: connects of a user
  Returning           \* bound: the users who connect more than once

\* INSTRUMENTS_BACKOFF_SECONDS
BackoffSeconds == <<10, 30, 60>>

ASSUME CacheAssumption ==
  /\ NoEntry \notin Entries
  /\ NoFetch \notin Fetches
  /\ NoUser \notin Users
  /\ Workers \in Nat \ {0}
  /\ MaxLogins \in Nat \ {0}

VARIABLES
  listed,  \* _instruments_cache, per user
  entry,   \* InstrumentsCacheState
  fetch,   \* the futures of the executor
  reader,  \* the request inside SessionManager.run
  logins,  \* the connects of a user, the first one made
  streak,  \* failed fetches of a user since the last success or connect
  answer,  \* bound: one /assets answer per user left run and is not stored
  probe,   \* CachedProbe of /assets, of any age: some branch serves it
  overtaken \* users who last connected while an answer was on its way

served == <<answer, probe, overtaken>>
vars == <<listed, entry, fetch, reader, logins, streak, served>>

\* assets: the catalogue; wait: seconds until the next try.
Entry == [assets : 0..MaxLogins, fresh : BOOLEAN, failures : 0..3,
          wait : {0, 10, 30, 60}, locked : BOOLEAN]
NewEntry == [assets |-> 0, fresh |-> FALSE, failures |-> 0, wait |-> 0, locked |-> FALSE]

\* held: its done-callback is to release the lock of the entry.
Fetch == [st : {"none", "queued", "running", "ok", "failed"}, user : Users \cup {NoUser},
          entry : Entries \cup {NoEntry}, logins : 0..MaxLogins, held : BOOLEAN]
Unused == [st |-> "none", user |-> NoUser, entry |-> NoEntry, logins |-> 0, held |-> FALSE]

Reader == [user : Users \cup {NoUser}, entry : Entries \cup {NoEntry}, fetch : Fetches \cup {NoFetch}]
NoReader == [user |-> NoUser, entry |-> NoEntry, fetch |-> NoFetch]

Init ==
  /\ listed = [u \in Users |-> NoEntry]
  /\ entry = [e \in Entries |-> NewEntry]
  /\ fetch = [f \in Fetches |-> Unused]
  /\ reader = NoReader
  /\ logins = [u \in Users |-> 1]
  /\ streak = [u \in Users |-> 0]
  /\ answer = [u \in Users |-> 0]
  /\ probe = [u \in Users |-> 0]
  /\ overtaken = {}

-----------------------------------------------------------------------------
Running == {f \in Fetches : fetch[f].st = "running"}

\* Nothing refers to the entry: neither the cache, nor the reader, nor the
\* callback or the reader of a fetch.
Unreferenced(e) ==
  /\ \A u \in Users : listed[u] # e
  /\ reader.entry # e
  /\ \A f \in Fetches : fetch[f].entry # e

\* A mutant of BackoffOf: the first failure already waits the second delay.
BackoffOfNext(failures) ==
  BackoffSeconds[IF failures + 1 < 3 THEN failures + 1 ELSE 3]

\* instruments_backoff_seconds
BackoffOf(failures) == BackoffSeconds[IF failures < 3 THEN failures ELSE 3]

\* A mutant of Counted: the number of failures has no limit.
CountedOn(n) == n + 1

\* bound: three failures stand for more, the delay stays the same
Counted(n) == IF n < 3 THEN n + 1 ELSE 3

\* A mutant of Failed: it clears the lock whoever holds it.
FailedUnlocks(e) == [e EXCEPT !.failures = Counted(@), !.wait = BackoffOf(Counted(e.failures)),
                              !.locked = FALSE]

Failed(e) == [e EXCEPT !.failures = Counted(@), !.wait = BackoffOf(Counted(e.failures))]

\* list_assets: a read that found a catalogue hands it to its answer; a read
\* of /payouts, or one that raises, hands nothing over.
Hands(u, catalogue) ==
  /\ \/ UNCHANGED answer
     \/ /\ catalogue > 0 /\ answer[u] = 0
        /\ answer' = [answer EXCEPT ![u] = catalogue]
  /\ UNCHANGED <<probe, overtaken>>

\* The read ends with the catalogue of its entry, if there is one.
Answered ==
  /\ reader' = NoReader
  /\ Hands(reader.user, entry'[reader.entry].assets)

CountsFailure ==
  streak' = [streak EXCEPT ![reader.user] =
               IF listed[reader.user] = reader.entry THEN Counted(@) ELSE @]

-----------------------------------------------------------------------------
(* read_assets                                                             *)

\* A fresh catalogue, or a backoff: no fetch.  With a stale catalogue a busy
\* lock is not waited for either.
ReadsCache(u) ==
  LET e == listed[u] IN
  /\ reader = NoReader /\ e # NoEntry
  /\ \/ entry[e].fresh \/ entry[e].wait > 0
     \/ entry[e].locked /\ entry[e].assets > 0
  /\ Hands(u, entry[e].assets)
  /\ UNCHANGED <<listed, entry, fetch, reader, logins, streak>>

\* get_instruments_cache_state creates the entry it does not find.  The lock
\* is free: the fetch is submitted to the executor.
Submits(u) ==
  /\ reader = NoReader
  /\ \E e \in Entries, f \in Fetches :
       /\ fetch[f].st = "none"
       /\ listed[u] = e \/ (listed[u] = NoEntry /\ Unreferenced(e))
       /\ listed[u] = e => ~entry[e].fresh /\ entry[e].wait = 0 /\ ~entry[e].locked
       /\ listed' = [listed EXCEPT ![u] = e]
       /\ entry' = [entry EXCEPT ![e] = [(IF listed[u] = e THEN @ ELSE NewEntry)
                                           EXCEPT !.locked = TRUE]]
       /\ fetch' = [fetch EXCEPT ![f] = [st |-> "queued", user |-> u, entry |-> e,
                                         logins |-> logins[u], held |-> FALSE]]
       /\ reader' = [user |-> u, entry |-> e, fetch |-> f]
  /\ UNCHANGED <<logins, streak, served>>

\* The lock is busy and nothing is cached: up to 8 s for the lock, which is
\* given back at once; the catalogue is not fetched.
WaitsForLock(u) ==
  LET e == listed[u] IN
  /\ reader = NoReader /\ e # NoEntry
  /\ entry[e].locked /\ entry[e].assets = 0 /\ entry[e].wait = 0
  /\ reader' = [user |-> u, entry |-> e, fetch |-> NoFetch]
  /\ UNCHANGED <<listed, entry, fetch, logins, streak, served>>

WaitEnds ==
  /\ reader # NoReader /\ reader.fetch = NoFetch
  /\ UNCHANGED <<listed, entry, fetch, logins, streak>>
  /\ Answered

Mine == fetch[reader.fetch]

\* A mutant of Stores: the entry is filled but stays locked.
StoresLocked(e, from) ==
  [e EXCEPT !.assets = from, !.fresh = TRUE, !.failures = 0, !.wait = 0]

Stores(e, from) ==
  [assets |-> from, fresh |-> TRUE, failures |-> 0, wait |-> 0, locked |-> FALSE]

FetchReturns ==
  /\ reader # NoReader /\ reader.fetch # NoFetch
  /\ \/ /\ Mine.st = "ok"
        /\ entry' = [entry EXCEPT ![reader.entry] = Stores(@, Mine.logins)]
        /\ streak' = [streak EXCEPT ![reader.user] = 0]
     \/ /\ Mine.st = "failed"
        /\ entry' = [entry EXCEPT ![reader.entry] = [Failed(@) EXCEPT !.locked = FALSE]]
        /\ CountsFailure
  /\ fetch' = [fetch EXCEPT ![reader.fetch] = Unused]
  /\ Answered
  /\ UNCHANGED <<listed, logins>>

\* 8 s are over: a queued fetch is cancelled, a running one keeps the lock,
\* and one that ended meanwhile runs its callback at once.
FetchTimesOut ==
  LET running == Mine.st = "running" IN
  /\ reader # NoReader /\ reader.fetch # NoFetch
  /\ fetch' = [fetch EXCEPT ![reader.fetch] = IF running THEN [@ EXCEPT !.held = TRUE] ELSE Unused]
  /\ entry' = [entry EXCEPT ![reader.entry] =
       IF running THEN Failed(@) ELSE [Failed(@) EXCEPT !.locked = FALSE]]
  /\ CountsFailure
  /\ Answered
  /\ UNCHANGED <<listed, logins>>

-----------------------------------------------------------------------------
(* The executor, the clock and connect                                     *)

FetchStarts(f) ==
  /\ fetch[f].st = "queued" /\ Cardinality(Running) < Workers
  /\ fetch' = [fetch EXCEPT ![f].st = "running"]
  /\ UNCHANGED <<listed, entry, reader, logins, streak, served>>

\* read_assets_uncached returns or raises; nobody reads an abandoned result.
\* What a fetch leaves in OP_code.ACTIVES, abandoned or not, is what every later
\* fetch of any user returns on top of its own.
FetchEnds(f) ==
  /\ fetch[f].st = "running"
  /\ IF fetch[f].held
     THEN /\ fetch' = [fetch EXCEPT ![f] = Unused]
          /\ entry' = [entry EXCEPT ![fetch[f].entry].locked = FALSE]
     ELSE /\ \E st \in {"ok", "failed"} : fetch' = [fetch EXCEPT ![f].st = st]
          /\ UNCHANGED entry
  /\ UNCHANGED <<listed, reader, logins, streak, served>>

CatalogueExpires(e) ==
  /\ entry[e].fresh
  /\ entry' = [entry EXCEPT ![e].fresh = FALSE]
  /\ UNCHANGED <<listed, fetch, reader, logins, streak, served>>

BackoffEnds(e) ==
  /\ entry[e].wait > 0
  /\ entry' = [entry EXCEPT ![e].wait = 0]
  /\ UNCHANGED <<listed, fetch, reader, logins, streak, served>>

\* A mutant of Cleared: what was cached before is kept.
ClearedNot(u) == UNCHANGED <<listed, streak, answer, probe>>

\* clear_user_runtime_cache: the entry and the stored answers.
Cleared(u) ==
  /\ listed' = [listed EXCEPT ![u] = NoEntry]
  /\ streak' = [streak EXCEPT ![u] = 0]
  /\ probe' = [probe EXCEPT ![u] = 0]
  /\ UNCHANGED answer

\* SessionManager.connect holds the user lock, as a read does; an answer of
\* /assets on its way holds none.
Connects(u) ==
  /\ reader.user # u
  /\ u \in Returning /\ logins[u] < MaxLogins
  /\ Cleared(u)
  /\ logins' = [logins EXCEPT ![u] = @ + 1]
  /\ overtaken' = IF answer[u] > 0 THEN overtaken \cup {u} ELSE overtaken \ {u}
  /\ UNCHANGED <<entry, fetch, reader>>

\* connect_session fails to select REAL: it clears once more, without a lock.
ConnectTailClears(u) ==
  /\ logins[u] > 1
  /\ Cleared(u)
  /\ UNCHANGED <<entry, fetch, reader, logins, overtaken>>

\* list_assets: _mark_probe_success, after run has returned.
AnswerStored(u) ==
  /\ answer[u] > 0
  /\ probe' = [probe EXCEPT ![u] = answer[u]]
  /\ answer' = [answer EXCEPT ![u] = 0]
  /\ UNCHANGED <<listed, entry, fetch, reader, logins, streak, overtaken>>

\* clear_probe_cache, by a disconnect, a reconnect, a change of mode or the
\* cleanup of a failed connect; no lock is held.
ProbeCleared(u) ==
  /\ probe[u] > 0
  /\ probe' = [probe EXCEPT ![u] = 0]
  /\ UNCHANGED <<listed, entry, fetch, reader, logins, streak, answer, overtaken>>

-----------------------------------------------------------------------------
Reads(u) == Submits(u) \/ WaitsForLock(u)

\* What the reader does by itself within its time limits.
ReaderStep == WaitEnds \/ FetchReturns \/ FetchTimesOut

Next ==
  \/ \E u \in Users : \/ Reads(u) \/ ReadsCache(u)
                      \/ Connects(u) \/ ConnectTailClears(u)
                      \/ AnswerStored(u) \/ ProbeCleared(u)
  \/ ReaderStep
  \/ \E f \in Fetches : FetchStarts(f) \/ FetchEnds(f)
  \/ \E e \in Entries : CatalogueExpires(e) \/ BackoffEnds(e)

Spec == Init /\ [][Next]_vars

\* A read ends within its deadlines, and time passes.  The executor starts what
\* is queued.  A fetch ends: its loops have deadlines, and the connect it makes
\* on a closed socket ends because the broker answers that connect's requests,
\* which have none.
FairSpec ==
  /\ Spec
  /\ WF_vars(ReaderStep)
  /\ \A f \in Fetches : WF_vars(FetchEnds(f))
  /\ \A e \in Entries : WF_vars(BackoffEnds(e))

-----------------------------------------------------------------------------
(* Properties                                                              *)

TypeOK ==
  /\ listed \in [Users -> Entries \cup {NoEntry}]
  /\ entry \in [Entries -> Entry]
  /\ fetch \in [Fetches -> Fetch]
  /\ reader \in Reader
  /\ logins \in [Users -> 1..MaxLogins]
  /\ streak \in [Users -> 0..3]
  /\ answer \in [Users -> 0..MaxLogins]
  /\ probe \in [Users -> 0..MaxLogins]
  /\ overtaken \subseteq Users

\* Who is to release the lock of an entry.
Holders(e) ==
  {f \in Fetches : /\ fetch[f].st # "none" /\ fetch[f].entry = e
                   /\ fetch[f].held \/ reader.fetch = f}

\* The lock of an entry is taken exactly while one fetch is to release it: no
\* timeout, cancellation, late answer or connect leaves it taken for ever or
\* releases it for another fetch.
LockHasOneHolder ==
  \A e \in Entries : Cardinality(Holders(e)) = (IF entry[e].locked THEN 1 ELSE 0)

\* connect: what a user is shown was fetched after the user's last connect.  No
\* fetch of before, however late it answers, and no reader it had, fills the
\* entry again; the stored answer of /assets is as recent, unless an answer was
\* on its way when the user connected: that one is stored over the cleared
\* cache, and the code does nothing against it.
CatalogueSinceConnect ==
  \A u \in Users :
    /\ listed[u] # NoEntry => entry[listed[u]].assets \in {0, logins[u]}
    /\ u \notin overtaken => {answer[u], probe[u]} \subseteq {0, logins[u]}

\* The delays of consecutive failures of a user are 10, 30 and 60 seconds.
BackoffSequence ==
  \A u \in Users : LET e == listed[u] IN
    e # NoEntry /\ entry[e].wait > 0 =>
      entry[e].wait = (CASE streak[u] = 1 -> 10 [] streak[u] = 2 -> 30 [] OTHER -> 60)

\* One fetch at most runs for an entry, however its reader ended: only a
\* connect, which drops the entry, lets two fetches of one user run at once.
OneFetchPerEntry ==
  \A f, g \in Running : fetch[f].entry = fetch[g].entry => f = g

\* An abandoned fetch that ends gives its entry back to later reads.
LocksAreReleased == \A e \in Entries : entry[e].locked ~> ~entry[e].locked
=============================================================================
