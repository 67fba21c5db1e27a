----------------------- MODULE InstrumentsCacheProofs -----------------------
(***************************************************************************)
(* The safety of the catalogue cache, for any number of users, entries,    *)
(* fetches, workers and logins.                                            *)
(*                                                                         *)
(* What makes the cache safe is who may still touch an entry: the fetch    *)
(* that is to release its lock, and the reader that waits for that fetch.  *)
(* IInv states both, and that an entry a user no longer sees is not given  *)
(* to another user while any of them is left.  The answers of /assets rest *)
(* on it: a reader hands over what its own entry holds.                    *)
(***************************************************************************)
EXTENDS InstrumentsCache, FiniteSetTheorems, TLAPS

\* The types of the cache itself.
CoreTypes ==
  /\ listed \in [Users -> Entries \cup {NoEntry}]
  /\ entry \in [Entries -> Entry]
  /\ fetch \in [Fetches -> Fetch]
  /\ reader \in Reader
  /\ logins \in [Users -> 1..MaxLogins]
  /\ streak \in [Users -> 0..3]

\* The fetch is to release the lock of its entry.
Holds(f) == fetch[f].st # "none" /\ (fetch[f].held \/ reader.fetch = f)

\* A fetch under way has its entry, and somebody who releases the lock: its
\* reader or, once the reader gave up, its own callback.
FetchesHold ==
  \A f \in Fetches :
    IF fetch[f].st = "none" THEN fetch[f] = Unused
    ELSE /\ fetch[f].entry \in Entries
         /\ IF fetch[f].held THEN fetch[f].st = "running" /\ reader.fetch # f
                             ELSE reader.fetch = f

\* The lock of an entry is taken exactly by the fetch that is to release it.
LocksAreHeld ==
  /\ \A f, g \in Fetches : Holds(f) /\ Holds(g) /\ fetch[f].entry = fetch[g].entry => f = g
  /\ \A e \in Entries :
       entry[e].locked <=> \E f \in Fetches : Holds(f) /\ fetch[f].entry = e

\* The reader waits for a fetch of its own entry, begun since its user's last
\* connect; that entry is its user's, or nobody's any more, and holds nothing
\* older.
ReaderOwns ==
  /\ reader = NoReader \/ (reader.user \in Users /\ reader.entry \in Entries)
  /\ reader.fetch # NoFetch =>
       /\ fetch[reader.fetch].st # "none" /\ fetch[reader.fetch].entry = reader.entry
       /\ fetch[reader.fetch].logins = logins[reader.user]
  /\ reader # NoReader =>
       /\ listed[reader.user] \in {reader.entry, NoEntry}
       /\ \A u \in Users : listed[u] = reader.entry => u = reader.user
       /\ entry[reader.entry].assets \in {0, logins[reader.user]}

\* No two users share an entry.
EntriesAreOwn ==
  \A u, v \in Users : listed[u] = listed[v] /\ listed[u] # NoEntry => u = v

\* The catalogue of a user's entry was fetched since the user's last connect.
EntriesAreCurrent ==
  \A u \in Users :
    listed[u] # NoEntry => entry[listed[u]].assets \in {0, logins[u]}

\* The entry a user sees counts the failures of that user since the last
\* success or connect, and its delay is the one of that number.
FailuresAreCounted ==
  \A u \in Users :
    IF listed[u] = NoEntry THEN streak[u] = 0
    ELSE LET e == entry[listed[u]]
         IN /\ e.failures = streak[u]
            /\ e.wait > 0 => e.failures > 0 /\ e.wait = BackoffOf(e.failures)

\* The answers of /assets have their types and are as recent, but for the users
\* whose connect came while one was on its way.
AnswersAreCurrent ==
  /\ answer \in [Users -> 0..MaxLogins]
  /\ probe \in [Users -> 0..MaxLogins]
  /\ overtaken \subseteq Users
  /\ \A u \in Users \ overtaken : {answer[u], probe[u]} \subseteq {0, logins[u]}

\* The inductive invariant of the entries, on which that of the answers rests.
IInv ==
  /\ CoreTypes
  /\ FetchesHold
  /\ LocksAreHeld
  /\ ReaderOwns
  /\ EntriesAreOwn
  /\ EntriesAreCurrent
  /\ FailuresAreCounted

\* The idle reader, the unused fetch and the new entry have their types.
LEMMA Blanks ==
  /\ NoReader \in Reader /\ NoReader.user = NoUser
  /\ NoReader.entry = NoEntry /\ NoReader.fetch = NoFetch
  /\ Unused \in Fetch /\ Unused.st = "none" /\ ~Unused.held /\ Unused.entry = NoEntry
  /\ NewEntry \in Entry /\ NewEntry.assets = 0 /\ NewEntry.failures = 0
  /\ NewEntry.wait = 0 /\ NewEntry.locked = FALSE
BY CacheAssumption DEF NoReader, Reader, Unused, Fetch, NewEntry, Entry

\* The delay of every number of failures, and of the next one.
LEMMA Backoff ==
  /\ BackoffOf(1) = 10 /\ BackoffOf(2) = 30 /\ BackoffOf(3) = 60
  /\ \A n \in 0..3 : Counted(n) \in 1..3
BY DEF BackoffOf, BackoffSeconds, Counted

\* A failure is counted and sets its delay; the lock is left alone.
LEMMA FailedFacts ==
  ASSUME NEW e \in Entry
  PROVE  /\ Failed(e) \in Entry
         /\ Failed(e).assets = e.assets /\ Failed(e).locked = e.locked
         /\ Failed(e).failures = Counted(e.failures)
         /\ Failed(e).failures > 0
         /\ Failed(e).wait = BackoffOf(Failed(e).failures)
<1>1. e.failures \in 0..3
  BY DEF Entry
<1>2. Counted(e.failures) \in {1, 2, 3}
  BY <1>1, Backoff
<1>3. BackoffOf(Counted(e.failures)) \in {10, 30, 60}
  BY <1>2, Backoff
<1>. DEFINE n == Counted(e.failures)
            w == BackoffOf(n)
<1>4. n \in 0..3 /\ n > 0 /\ w \in {0, 10, 30, 60} /\ Failed(e) = [e EXCEPT !.failures = n, !.wait = w]
  BY <1>2, <1>3 DEF Failed
<1>5. w = BackoffOf(n)
  OBVIOUS
<1>. HIDE DEF n, w
<1>6. /\ Failed(e) \in Entry /\ Failed(e).assets = e.assets /\ Failed(e).locked = e.locked
      /\ Failed(e).failures = n /\ Failed(e).wait = w
  BY <1>4 DEF Entry
<1>. QED
  BY <1>4, <1>5, <1>6 DEF n

\* Nothing is cached at first.
LEMMA InitIInv == Init => IInv
<1>. SUFFICES ASSUME Init PROVE IInv
  OBVIOUS
<1>1. CoreTypes
  BY Blanks, CacheAssumption DEF Init, CoreTypes
<1>2. FetchesHold /\ LocksAreHeld
  BY Blanks DEF Init, FetchesHold, LocksAreHeld, Holds
<1>3. ReaderOwns /\ EntriesAreOwn /\ EntriesAreCurrent /\ FailuresAreCounted
  BY Blanks DEF Init, ReaderOwns, EntriesAreOwn, EntriesAreCurrent, FailuresAreCounted
<1>. QED
  BY <1>1, <1>2, <1>3 DEF IInv

\* A read that starts a fetch takes a lock nobody holds, of an entry no other
\* user sees.
LEMMA SubmitsStep == ASSUME IInv, NEW u \in Users, Submits(u) PROVE IInv'
<1>1. PICK e \in Entries, f \in Fetches :
        /\ fetch[f].st = "none"
        /\ listed[u] = e \/ (listed[u] = NoEntry /\ Unreferenced(e))
        /\ listed[u] = e => ~entry[e].fresh /\ entry[e].wait = 0 /\ ~entry[e].locked
        /\ listed' = [listed EXCEPT ![u] = e]
        /\ entry' = [entry EXCEPT ![e] = [(IF listed[u] = e THEN @ ELSE NewEntry)
                                            EXCEPT !.locked = TRUE]]
        /\ fetch' = [fetch EXCEPT ![f] = [st |-> "queued", user |-> u, entry |-> e,
                                          logins |-> logins[u], held |-> FALSE]]
        /\ reader' = [user |-> u, entry |-> e, fetch |-> f]
  BY DEF Submits
<1>2. reader = NoReader /\ UNCHANGED <<logins, streak>>
  BY DEF Submits
<1>. DEFINE new == [st |-> "queued", user |-> u, entry |-> e,
                    logins |-> logins[u], held |-> FALSE]
            base == IF listed[u] = e THEN entry[e] ELSE NewEntry
            taken == [base EXCEPT !.locked = TRUE]
<1>3. /\ listed \in [Users -> Entries \cup {NoEntry}] /\ entry \in [Entries -> Entry]
      /\ fetch \in [Fetches -> Fetch] /\ logins \in [Users -> 1..MaxLogins]
  BY DEF IInv, CoreTypes
<1>4. new \in Fetch /\ new.st = "queued" /\ ~new.held /\ new.entry = e /\ new.logins = logins[u]
  BY <1>3, CacheAssumption DEF Fetch
<1>5. base \in Entry /\ taken \in Entry /\ taken.locked
      /\ taken.assets = base.assets /\ taken.failures = base.failures /\ taken.wait = base.wait
  BY <1>3, Blanks DEF Entry
<1>6. /\ \A g \in Fetches : fetch'[g] = IF g = f THEN new ELSE fetch[g]
      /\ \A d \in Entries : entry'[d] = IF d = e THEN taken ELSE entry[d]
      /\ \A v \in Users : listed'[v] = IF v = u THEN e ELSE listed[v]
      /\ reader'.user = u /\ reader'.entry = e /\ reader'.fetch = f
  BY <1>1, <1>3
<1>7. CoreTypes'
  BY <1>1, <1>2, <1>4, <1>5 DEF IInv, CoreTypes, Reader
<1>. HIDE DEF new, taken
<1>8. \A g \in Fetches : fetch[g].st # "none" => fetch[g].entry # e /\ fetch[g].held
  <2>. SUFFICES ASSUME NEW g \in Fetches, fetch[g].st # "none"
                PROVE  fetch[g].entry # e /\ fetch[g].held
    OBVIOUS
  <2>1. fetch[g].held
    BY <1>2, Blanks, CacheAssumption DEF IInv, FetchesHold
  <2>2. CASE listed[u] = e
    BY <1>1, <2>1, <2>2 DEF IInv, LocksAreHeld, Holds
  <2>3. CASE Unreferenced(e)
    BY <2>1, <2>3 DEF Unreferenced
  <2>. QED
    BY <1>1, <2>1, <2>2, <2>3
<1>9. FetchesHold'
  BY <1>2, <1>4, <1>6, <1>8, Blanks, CacheAssumption DEF IInv, FetchesHold
<1>10. LocksAreHeld'
  <2>1. \A g \in Fetches : Holds(g)' <=> (g = f \/ Holds(g))
    BY <1>1, <1>2, <1>4, <1>6, <1>8, Blanks, CacheAssumption DEF Holds
  <2>2. ~Holds(f)
    BY <1>1 DEF Holds
  <2>3. \A g \in Fetches : Holds(g) => fetch[g].entry # e
    BY <1>8 DEF Holds
  <2>. QED
    BY <1>4, <1>5, <1>6, <2>1, <2>2, <2>3 DEF IInv, LocksAreHeld
<1>11. EntriesAreOwn' /\ ReaderOwns'
  <2>1. \A v \in Users : listed[v] = e => v = u
    BY <1>1, CacheAssumption DEF IInv, EntriesAreOwn, Unreferenced
  <2>2. EntriesAreOwn'
    BY <1>6, <2>1 DEF IInv, EntriesAreOwn
  <2>3. taken.assets \in {0, logins[u]}
    BY <1>1, <1>5, Blanks, CacheAssumption DEF IInv, EntriesAreCurrent
  <2>4. entry'[e].assets \in {0, logins'[u]}
    BY <1>2, <1>6, <2>3
  <2>5. fetch'[f] = new /\ new.logins = logins'[u]
    BY <1>2, <1>4, <1>6
  <2>6. \A v \in Users : listed'[v] = e => v = u
    BY <1>6, <2>1
  <2>7. reader'.user = u /\ reader'.entry = e /\ reader'.fetch = f /\ listed'[u] = e
    BY <1>6
  <2>8. ReaderOwns'
    BY <1>4, <2>4, <2>5, <2>6, <2>7 DEF ReaderOwns
  <2>. QED
    BY <2>2, <2>8
<1>12. EntriesAreCurrent' /\ FailuresAreCounted'
  <2>1. \A v \in Users : v # u => listed[v] # e
    BY <1>1, CacheAssumption DEF IInv, EntriesAreOwn, Unreferenced
  <2>2. e # NoEntry
    BY CacheAssumption
  <2>3. EntriesAreCurrent'
    BY <1>1, <1>2, <1>5, <1>6, <2>1, <2>2, Blanks, <1>3 DEF IInv, EntriesAreCurrent
  <2>4. FailuresAreCounted'
    BY <1>1, <1>2, <1>5, <1>6, <2>1, <2>2, Blanks, <1>3 DEF IInv, FailuresAreCounted
  <2>. QED
    BY <2>3, <2>4
<1>. QED
  BY <1>7, <1>9, <1>10, <1>11, <1>12 DEF IInv
\* A read that finds the lock busy waits for no fetch.
LEMMA WaitsForLockStep == ASSUME IInv, NEW u \in Users, WaitsForLock(u) PROVE IInv'
<1>. DEFINE e == listed[u]
<1>1. /\ reader = NoReader /\ e # NoEntry /\ e \in Entries
      /\ reader' = [user |-> u, entry |-> e, fetch |-> NoFetch]
      /\ UNCHANGED <<listed, entry, fetch, logins, streak>>
  BY DEF WaitsForLock, IInv, CoreTypes
<1>. HIDE DEF e
<1>2. CoreTypes'
  BY <1>1 DEF IInv, CoreTypes, Reader
<1>3. \A f \in Fetches : reader.fetch # f /\ reader'.fetch # f
  BY <1>1, Blanks, CacheAssumption
<1>4. FetchesHold'
  BY <1>1, <1>3 DEF IInv, FetchesHold
<1>5. LocksAreHeld'
  BY <1>1, <1>3 DEF IInv, LocksAreHeld, Holds
<1>6. ReaderOwns'
  BY <1>1, Blanks DEF IInv, ReaderOwns, EntriesAreOwn, EntriesAreCurrent, e
<1>7. EntriesAreOwn' /\ EntriesAreCurrent' /\ FailuresAreCounted'
  BY <1>1 DEF IInv, EntriesAreOwn, EntriesAreCurrent, FailuresAreCounted
<1>. QED
  BY <1>2, <1>4, <1>5, <1>6, <1>7 DEF IInv

\* A reader that waited for the lock in vain leaves everything as it was.
LEMMA WaitEndsStep == ASSUME IInv, WaitEnds PROVE IInv'
<1>1. /\ reader.fetch = NoFetch /\ reader' = NoReader
      /\ UNCHANGED <<listed, entry, fetch, logins, streak>>
  BY DEF WaitEnds, Answered
<1>2. CoreTypes'
  BY <1>1, Blanks DEF IInv, CoreTypes
<1>3. \A f \in Fetches : reader.fetch # f /\ reader'.fetch # f
  BY <1>1, Blanks, CacheAssumption
<1>4. FetchesHold' /\ LocksAreHeld'
  BY <1>1, <1>3 DEF IInv, FetchesHold, LocksAreHeld, Holds
<1>5. ReaderOwns'
  BY <1>1, Blanks DEF ReaderOwns
<1>6. EntriesAreOwn' /\ EntriesAreCurrent' /\ FailuresAreCounted'
  BY <1>1 DEF IInv, EntriesAreOwn, EntriesAreCurrent, FailuresAreCounted
<1>. QED
  BY <1>2, <1>4, <1>5, <1>6 DEF IInv

\* What a reader that leaves its fetch may do to its entry and to the count
\* of failures: a catalogue of the session of the fetch, or one more failure.
Settles(e) ==
  \/ /\ e.assets = logins[reader.user] /\ e.failures = 0 /\ e.wait = 0
     /\ streak' = [streak EXCEPT ![reader.user] = 0]
  \/ /\ e.assets = entry[reader.entry].assets
     /\ e.failures = Counted(entry[reader.entry].failures)
     /\ e.failures > 0 /\ e.wait = BackoffOf(e.failures)
     /\ CountsFailure

\* A reader that settles keeps the catalogue and the failures of every user.
LEMMA SettlesStep ==
  ASSUME IInv, reader # NoReader, NEW e \in Entry, Settles(e),
         entry' = [entry EXCEPT ![reader.entry] = e],
         reader' = NoReader, UNCHANGED <<listed, logins>>
  PROVE  /\ entry' \in [Entries -> Entry] /\ streak' \in [Users -> 0..3]
         /\ ReaderOwns' /\ EntriesAreOwn' /\ EntriesAreCurrent' /\ FailuresAreCounted'
<1>1. /\ reader.user \in Users /\ reader.entry \in Entries
      /\ entry \in [Entries -> Entry] /\ streak \in [Users -> 0..3]
  BY DEF IInv, CoreTypes, ReaderOwns
<1>2. streak[reader.user] \in 0..3 /\ Counted(streak[reader.user]) \in 0..3
  BY <1>1, Backoff
<1>3. entry' \in [Entries -> Entry] /\ streak' \in [Users -> 0..3]
  BY <1>1, <1>2 DEF Settles, CountsFailure
<1>4. ReaderOwns' /\ EntriesAreOwn'
  BY Blanks DEF IInv, ReaderOwns, EntriesAreOwn
<1>5. /\ \A d \in Entries : entry'[d] = IF d = reader.entry THEN e ELSE entry[d]
      /\ \A u \in Users : listed[u] = reader.entry => u = reader.user
      /\ \A u \in Users : listed[u] \in Entries \cup {NoEntry}
  BY <1>1 DEF IInv, ReaderOwns, CoreTypes
<1>6. EntriesAreCurrent'
  BY <1>1, <1>5, CacheAssumption DEF IInv, EntriesAreCurrent, Settles
<1>7. FailuresAreCounted'
  <2>. SUFFICES ASSUME NEW u \in Users
                PROVE  IF listed[u] = NoEntry THEN streak'[u] = 0
                       ELSE LET d == entry'[listed[u]]
                            IN /\ d.failures = streak'[u]
                               /\ d.wait > 0 => d.failures > 0 /\ d.wait = BackoffOf(d.failures)
    BY DEF FailuresAreCounted
  <2>1. IF listed[u] = NoEntry THEN streak[u] = 0
        ELSE LET d == entry[listed[u]]
             IN /\ d.failures = streak[u]
                /\ d.wait > 0 => d.failures > 0 /\ d.wait = BackoffOf(d.failures)
    BY DEF IInv, FailuresAreCounted
  <2>2. CASE u # reader.user
    <3>1. streak'[u] = streak[u]
      BY <1>1, <2>2 DEF Settles, CountsFailure
    <3>2. listed[u] # NoEntry => entry'[listed[u]] = entry[listed[u]]
      BY <1>5, <2>2
    <3>. QED
      BY <2>1, <3>1, <3>2
  <2>3. CASE u = reader.user
    <3>1. listed[u] \in {reader.entry, NoEntry}
      BY <2>3 DEF IInv, ReaderOwns
    <3>2. CASE listed[u] = NoEntry
      <4>1. streak'[u] = 0
        BY <1>1, <2>1, <2>3, <3>2, CacheAssumption DEF Settles, CountsFailure
      <4>. QED
        BY <3>2, <4>1
    <3>3. CASE listed[u] = reader.entry
      <4>1. listed[u] # NoEntry /\ entry'[listed[u]] = e
        BY <1>1, <1>5, <3>3, CacheAssumption
      <4>2. streak'[u] = e.failures
        BY <1>1, <2>1, <2>3, <3>3, <4>1 DEF Settles, CountsFailure
      <4>3. e.wait > 0 => e.failures > 0 /\ e.wait = BackoffOf(e.failures)
        BY DEF Settles
      <4>. QED
        BY <4>1, <4>2, <4>3
    <3>. QED
      BY <3>1, <3>2, <3>3
  <2>. QED
    BY <2>2, <2>3
<1>. QED
  BY <1>3, <1>4, <1>6, <1>7
\* Releasing the lock with the fetch that holds it, and no other.
LEMMA ReleaseStep ==
  ASSUME IInv, NEW f \in Fetches, Holds(f), NEW e \in Entry, ~e.locked,
         fetch' = [fetch EXCEPT ![f] = Unused],
         entry' = [entry EXCEPT ![fetch[f].entry] = e],
         (reader' = reader /\ reader.fetch # f) \/ (reader' = NoReader /\ reader.fetch = f)
  PROVE  fetch' \in [Fetches -> Fetch] /\ FetchesHold' /\ LocksAreHeld'
<1>1. /\ fetch \in [Fetches -> Fetch] /\ entry \in [Entries -> Entry]
      /\ fetch[f].entry \in Entries
  BY DEF IInv, CoreTypes, FetchesHold, Holds
<1>2. /\ \A g \in Fetches : fetch'[g] = IF g = f THEN Unused ELSE fetch[g]
      /\ \A d \in Entries : entry'[d] = IF d = fetch[f].entry THEN e ELSE entry[d]
  BY <1>1
<1>3. \A g \in Fetches : g # f => (reader'.fetch = g <=> reader.fetch = g)
  BY Blanks, CacheAssumption
<1>4. FetchesHold'
  BY <1>2, <1>3, Blanks DEF IInv, FetchesHold
<1>5. \A g \in Fetches : Holds(g)' <=> (g # f /\ Holds(g))
  BY <1>2, <1>3, Blanks DEF Holds
<1>6. LocksAreHeld'
  BY <1>1, <1>2, <1>5 DEF IInv, LocksAreHeld
<1>. QED
  BY <1>1, <1>4, <1>6, Blanks

\* A fetch that is answered in time fills the entry, or counts its failure,
\* and releases its lock.
LEMMA FetchReturnsStep == ASSUME IInv, FetchReturns PROVE IInv'
<1>. DEFINE f == reader.fetch
            old == entry[reader.entry]
<1>1. /\ reader # NoReader /\ f # NoFetch /\ reader' = NoReader
      /\ fetch' = [fetch EXCEPT ![f] = Unused] /\ UNCHANGED <<listed, logins>>
  BY DEF FetchReturns, Answered
<1>2. /\ f \in Fetches /\ Holds(f) /\ fetch[f].entry = reader.entry
      /\ reader.entry \in Entries /\ reader.user \in Users
      /\ fetch[f].logins = logins[reader.user]
      /\ entry \in [Entries -> Entry] /\ old \in Entry /\ logins[reader.user] \in 1..MaxLogins
  BY <1>1 DEF IInv, CoreTypes, Reader, ReaderOwns, Holds
<1>3. PICK e \in Entry : ~e.locked /\ Settles(e) /\ entry' = [entry EXCEPT ![reader.entry] = e]
  <2>1. CASE /\ entry' = [entry EXCEPT ![reader.entry] = Stores(@, Mine.logins)]
             /\ streak' = [streak EXCEPT ![reader.user] = 0]
    <3>. DEFINE e == Stores(old, Mine.logins)
    <3>1. /\ e \in Entry /\ ~e.locked /\ e.assets = logins[reader.user]
          /\ e.failures = 0 /\ e.wait = 0
      BY <1>2, CacheAssumption DEF Stores, Mine, Entry
    <3>. QED
      BY <2>1, <3>1 DEF Settles
  <2>2. CASE /\ entry' = [entry EXCEPT ![reader.entry] = [Failed(@) EXCEPT !.locked = FALSE]]
             /\ CountsFailure
    <3>. DEFINE e == [Failed(old) EXCEPT !.locked = FALSE]
    <3>1. /\ Failed(old) \in Entry /\ Failed(old).assets = old.assets
          /\ Failed(old).failures = Counted(old.failures) /\ Failed(old).failures > 0
          /\ Failed(old).wait = BackoffOf(Failed(old).failures)
      BY <1>2, FailedFacts
    <3>2. /\ e \in Entry /\ ~e.locked /\ e.assets = Failed(old).assets
          /\ e.failures = Failed(old).failures /\ e.wait = Failed(old).wait
      BY <3>1 DEF Entry
    <3>. QED
      BY <2>2, <3>1, <3>2 DEF Settles
  <2>. QED
    BY <2>1, <2>2 DEF FetchReturns
<1>. HIDE DEF f, old
<1>4. fetch' \in [Fetches -> Fetch] /\ FetchesHold' /\ LocksAreHeld'
  BY <1>1, <1>2, <1>3, ReleaseStep DEF f
<1>5. /\ entry' \in [Entries -> Entry] /\ streak' \in [Users -> 0..3]
      /\ ReaderOwns' /\ EntriesAreOwn' /\ EntriesAreCurrent' /\ FailuresAreCounted'
  BY <1>1, <1>3, SettlesStep
<1>6. CoreTypes'
  BY <1>1, <1>4, <1>5, Blanks DEF IInv, CoreTypes
<1>. QED
  BY <1>4, <1>5, <1>6 DEF IInv

\* A reader that gives up counts a failure; its fetch keeps the lock while it
\* runs, and otherwise releases it.
LEMMA FetchTimesOutStep == ASSUME IInv, FetchTimesOut PROVE IInv'
<1>. DEFINE f == reader.fetch
            old == entry[reader.entry]
            failed == Failed(old)
<1>1. /\ reader # NoReader /\ f # NoFetch /\ reader' = NoReader
      /\ CountsFailure /\ UNCHANGED <<listed, logins>>
  BY DEF FetchTimesOut, Answered
<1>2. /\ f \in Fetches /\ Holds(f) /\ fetch[f].entry = reader.entry
      /\ reader.entry \in Entries /\ reader.user \in Users
      /\ entry \in [Entries -> Entry] /\ old \in Entry /\ fetch \in [Fetches -> Fetch]
  BY <1>1 DEF IInv, CoreTypes, Reader, ReaderOwns, Holds
<1>3. /\ failed \in Entry /\ failed.assets = old.assets /\ failed.locked = old.locked
      /\ failed.failures = Counted(old.failures) /\ failed.failures > 0
      /\ failed.wait = BackoffOf(failed.failures)
  BY <1>2, FailedFacts
<1>4. CASE fetch[f].st # "running"
  <2>. DEFINE e == [failed EXCEPT !.locked = FALSE]
  <2>1. /\ fetch' = [fetch EXCEPT ![f] = Unused]
        /\ entry' = [entry EXCEPT ![reader.entry] = e]
    BY <1>4 DEF FetchTimesOut, Mine
  <2>. HIDE DEF failed
  <2>2. /\ e \in Entry /\ ~e.locked /\ e.assets = failed.assets
        /\ e.failures = failed.failures /\ e.wait = failed.wait
    BY <1>3 DEF Entry
  <2>. HIDE DEF e
  <2>3. Settles(e)
    BY <1>1, <1>3, <2>2 DEF Settles
  <2>4. fetch' \in [Fetches -> Fetch] /\ FetchesHold' /\ LocksAreHeld'
    BY <1>1, <1>2, <2>1, <2>2, ReleaseStep
  <2>5. /\ entry' \in [Entries -> Entry] /\ streak' \in [Users -> 0..3]
        /\ ReaderOwns' /\ EntriesAreOwn' /\ EntriesAreCurrent' /\ FailuresAreCounted'
    BY <1>1, <2>1, <2>2, <2>3, SettlesStep
  <2>6. CoreTypes'
    BY <1>1, <2>4, <2>5, Blanks DEF IInv, CoreTypes
  <2>. QED
    BY <2>4, <2>5, <2>6 DEF IInv
<1>5. CASE fetch[f].st = "running"
  <2>. DEFINE abandoned == [fetch[f] EXCEPT !.held = TRUE]
  <2>1. /\ fetch' = [fetch EXCEPT ![f] = abandoned]
        /\ entry' = [entry EXCEPT ![reader.entry] = failed]
    BY <1>5 DEF FetchTimesOut, Mine
  <2>2. /\ abandoned \in Fetch /\ abandoned.held /\ abandoned.st = "running"
        /\ abandoned.entry = fetch[f].entry
    BY <1>2, <1>5 DEF Fetch
  <2>. HIDE DEF failed, abandoned
  <2>3. Settles(failed)
    BY <1>1, <1>3 DEF Settles
  <2>4. /\ entry' \in [Entries -> Entry] /\ streak' \in [Users -> 0..3]
        /\ ReaderOwns' /\ EntriesAreOwn' /\ EntriesAreCurrent' /\ FailuresAreCounted'
    BY <1>1, <1>3, <2>1, <2>3, SettlesStep
  <2>5. /\ \A g \in Fetches : fetch'[g] = IF g = f THEN abandoned ELSE fetch[g]
        /\ \A e \in Entries : entry'[e].locked = entry[e].locked
        /\ \A g \in Fetches : reader'.fetch # g
    BY <1>1, <1>2, <1>3, <2>1, Blanks, CacheAssumption
  <2>6. FetchesHold'
    BY <1>2, <2>2, <2>5 DEF IInv, FetchesHold
  <2>7. \A g \in Fetches : Holds(g)' <=> Holds(g)
    BY <1>2, <2>2, <2>5 DEF Holds, IInv, FetchesHold
  <2>8. LocksAreHeld'
    BY <2>2, <2>5, <2>7 DEF IInv, LocksAreHeld
  <2>9. CoreTypes'
    BY <1>1, <1>2, <2>1, <2>2, <2>4, Blanks DEF IInv, CoreTypes
  <2>. QED
    BY <2>4, <2>6, <2>8, <2>9 DEF IInv
<1>. QED
  BY <1>4, <1>5

\* A fetch that goes on keeps its entry and who releases it.
LEMMA FetchStep ==
  ASSUME IInv, NEW f \in Fetches, fetch[f].st \in {"queued", "running"},
         NEW st \in {"running", "ok", "failed"}, fetch[f].held => st = "running",
         fetch' = [fetch EXCEPT ![f].st = st],
         UNCHANGED <<listed, entry, reader, logins, streak>>
  PROVE  IInv'
<1>. DEFINE next == [fetch[f] EXCEPT !.st = st]
<1>1. fetch \in [Fetches -> Fetch] /\ fetch' = [fetch EXCEPT ![f] = next]
  BY DEF IInv, CoreTypes
<1>2. /\ next \in Fetch /\ next.st = st /\ next.entry = fetch[f].entry
      /\ next.held = fetch[f].held /\ next.logins = fetch[f].logins
  BY <1>1 DEF Fetch
<1>. HIDE DEF next
<1>3. \A g \in Fetches : fetch'[g] = IF g = f THEN next ELSE fetch[g]
  BY <1>1
<1>4. CoreTypes'
  BY <1>1, <1>2 DEF IInv, CoreTypes
<1>5. FetchesHold'
  BY <1>2, <1>3 DEF IInv, FetchesHold
<1>6. \A g \in Fetches : (Holds(g)' <=> Holds(g)) /\ fetch'[g].entry = fetch[g].entry
  BY <1>2, <1>3 DEF Holds
<1>7. LocksAreHeld'
  BY <1>6 DEF IInv, LocksAreHeld
<1>8. ReaderOwns'
  <2>1. reader.fetch # NoFetch => reader.fetch \in Fetches
    BY DEF IInv, CoreTypes, Reader
  <2>. QED
    BY <1>2, <1>3, <2>1 DEF IInv, ReaderOwns
<1>9. EntriesAreOwn' /\ EntriesAreCurrent' /\ FailuresAreCounted'
  BY DEF IInv, EntriesAreOwn, EntriesAreCurrent, FailuresAreCounted
<1>. QED
  BY <1>4, <1>5, <1>7, <1>8, <1>9 DEF IInv
\* An abandoned fetch releases its lock when it ends, and fills nothing.
LEMMA FetchEndsStep == ASSUME IInv, NEW f \in Fetches, FetchEnds(f) PROVE IInv'
<1>1. fetch[f].st = "running" /\ UNCHANGED <<listed, reader, logins, streak>>
  BY DEF FetchEnds
<1>2. CASE ~fetch[f].held
  <2>1. PICK st \in {"ok", "failed"} : fetch' = [fetch EXCEPT ![f].st = st]
    BY <1>2 DEF FetchEnds
  <2>. QED
    BY <1>1, <1>2, <2>1, FetchStep DEF FetchEnds
<1>3. CASE fetch[f].held
  <2>. DEFINE e == [entry[fetch[f].entry] EXCEPT !.locked = FALSE]
  <2>1. /\ Holds(f) /\ reader.fetch # f /\ fetch[f].entry \in Entries
        /\ entry \in [Entries -> Entry] /\ fetch \in [Fetches -> Fetch]
    BY <1>1, <1>3 DEF IInv, CoreTypes, FetchesHold, Holds
  <2>2. /\ fetch' = [fetch EXCEPT ![f] = Unused]
        /\ entry' = [entry EXCEPT ![fetch[f].entry] = e]
    BY <1>3, <2>1 DEF FetchEnds
  <2>3. /\ e \in Entry /\ ~e.locked /\ e.assets = entry[fetch[f].entry].assets
        /\ e.failures = entry[fetch[f].entry].failures /\ e.wait = entry[fetch[f].entry].wait
    <3>. DEFINE old == entry[fetch[f].entry]
    <3>1. old \in Entry
      BY <2>1
    <3>2. e = [old EXCEPT !.locked = FALSE]
      OBVIOUS
    <3>. HIDE DEF old, e
    <3>3. /\ e \in Entry /\ ~e.locked /\ e.assets = old.assets
          /\ e.failures = old.failures /\ e.wait = old.wait
      BY <3>1, <3>2 DEF Entry
    <3>. QED
      BY <3>3 DEF old
  <2>. HIDE DEF e
  <2>4. fetch' \in [Fetches -> Fetch] /\ FetchesHold' /\ LocksAreHeld'
    <3>1. (reader' = reader /\ reader.fetch # f) \/ (reader' = NoReader /\ reader.fetch = f)
      BY <1>1, <2>1
    <3>. QED
      BY <2>1, <2>2, <2>3, <3>1, ReleaseStep
  <2>5. \A d \in Entries : /\ entry'[d].assets = entry[d].assets
                           /\ entry'[d].failures = entry[d].failures
                           /\ entry'[d].wait = entry[d].wait
    BY <2>1, <2>2, <2>3
  <2>6. CoreTypes'
    BY <1>1, <2>1, <2>2, <2>3, <2>4 DEF IInv, CoreTypes
  <2>7. ReaderOwns' /\ EntriesAreOwn'
    <3>1. reader.fetch # NoFetch =>
            fetch'[reader.fetch] = fetch[reader.fetch]
      BY <2>1, <2>2 DEF IInv, CoreTypes, Reader
    <3>. QED
      BY <1>1, <2>5, <3>1 DEF IInv, ReaderOwns, EntriesAreOwn
  <2>8. \A u \in Users : listed[u] # NoEntry => listed[u] \in Entries
    BY DEF IInv, CoreTypes
  <2>9. EntriesAreCurrent' /\ FailuresAreCounted'
    BY <1>1, <2>5, <2>8 DEF IInv, EntriesAreCurrent, FailuresAreCounted
  <2>. QED
    BY <2>4, <2>6, <2>7, <2>9 DEF IInv
<1>. QED
  BY <1>2, <1>3

\* Time wears an entry down without touching its lock or its failures.
LEMMA EntryStep ==
  ASSUME IInv, NEW d \in Entries, NEW e \in Entry,
         e.assets = entry[d].assets, e.failures = entry[d].failures,
         e.locked = entry[d].locked, e.wait \in {entry[d].wait, 0},
         entry' = [entry EXCEPT ![d] = e],
         UNCHANGED <<listed, fetch, reader, logins, streak>>
  PROVE  IInv'
<1>1. entry \in [Entries -> Entry]
  BY DEF IInv, CoreTypes
<1>2. \A c \in Entries : /\ entry'[c].assets = entry[c].assets
                         /\ entry'[c].failures = entry[c].failures
                         /\ entry'[c].locked = entry[c].locked
                         /\ entry'[c].wait \in {entry[c].wait, 0}
  BY <1>1
<1>3. CoreTypes'
  BY <1>1 DEF IInv, CoreTypes
<1>4. FetchesHold' /\ LocksAreHeld'
  BY <1>2 DEF IInv, FetchesHold, LocksAreHeld, Holds
<1>5. ReaderOwns' /\ EntriesAreOwn'
  BY <1>2 DEF IInv, ReaderOwns, EntriesAreOwn
<1>6. \A u \in Users : listed[u] # NoEntry => listed[u] \in Entries
  BY DEF IInv, CoreTypes
<1>7. EntriesAreCurrent' /\ FailuresAreCounted'
  BY <1>2, <1>6 DEF IInv, EntriesAreCurrent, FailuresAreCounted
<1>. QED
  BY <1>3, <1>4, <1>5, <1>7 DEF IInv

\* A catalogue grows stale, a backoff runs out.
LEMMA TimeStep ==
  ASSUME IInv, NEW d \in Entries, CatalogueExpires(d) \/ BackoffEnds(d)
  PROVE  IInv'
<1>1. entry \in [Entries -> Entry] /\ entry[d] \in Entry
  BY DEF IInv, CoreTypes
<1>2. CASE CatalogueExpires(d)
  <2>. DEFINE e == [entry[d] EXCEPT !.fresh = FALSE]
  <2>1. /\ e \in Entry /\ e.assets = entry[d].assets /\ e.failures = entry[d].failures
        /\ e.locked = entry[d].locked /\ e.wait = entry[d].wait
    BY <1>1 DEF Entry
  <2>2. entry' = [entry EXCEPT ![d] = e] /\ UNCHANGED <<listed, fetch, reader, logins, streak>>
    BY <1>1, <1>2 DEF CatalogueExpires
  <2>. QED
    BY <2>1, <2>2, EntryStep
<1>3. CASE BackoffEnds(d)
  <2>. DEFINE e == [entry[d] EXCEPT !.wait = 0]
  <2>1. /\ e \in Entry /\ e.assets = entry[d].assets /\ e.failures = entry[d].failures
        /\ e.locked = entry[d].locked /\ e.wait = 0
    BY <1>1 DEF Entry
  <2>2. entry' = [entry EXCEPT ![d] = e] /\ UNCHANGED <<listed, fetch, reader, logins, streak>>
    BY <1>1, <1>3 DEF BackoffEnds
  <2>. QED
    BY <2>1, <2>2, EntryStep
<1>. QED
  BY <1>2, <1>3

\* A connect drops the entry of its user, whose fetches may still go on; it
\* never changes the session under a reader of that user.
LEMMA ConnectStep ==
  ASSUME IInv, NEW u \in Users, Connects(u) \/ ConnectTailClears(u)
  PROVE  IInv'
<1>1. /\ listed' = [listed EXCEPT ![u] = NoEntry] /\ streak' = [streak EXCEPT ![u] = 0]
      /\ UNCHANGED <<entry, fetch, reader>>
  BY DEF Connects, ConnectTailClears, Cleared
<1>2. /\ listed \in [Users -> Entries \cup {NoEntry}] /\ streak \in [Users -> 0..3]
      /\ logins \in [Users -> 1..MaxLogins]
  BY DEF IInv, CoreTypes
<1>3. /\ logins' \in [Users -> 1..MaxLogins]
      /\ \A v \in Users : v # u \/ reader.user = u => logins'[v] = logins[v]
  BY <1>2, CacheAssumption DEF Connects, ConnectTailClears
<1>4. CoreTypes'
  BY <1>1, <1>2, <1>3 DEF IInv, CoreTypes
<1>5. FetchesHold' /\ LocksAreHeld'
  BY <1>1 DEF IInv, FetchesHold, LocksAreHeld, Holds
<1>6. ReaderOwns'
  <2>1. reader # NoReader => logins'[reader.user] = logins[reader.user]
    BY <1>3 DEF IInv, ReaderOwns
  <2>2. reader.fetch # NoFetch => reader # NoReader
    BY Blanks
  <2>. QED
    BY <1>1, <1>2, <2>1, <2>2, CacheAssumption DEF IInv, ReaderOwns
<1>7. EntriesAreOwn' /\ EntriesAreCurrent' /\ FailuresAreCounted'
  BY <1>1, <1>2, <1>3 DEF IInv, EntriesAreOwn, EntriesAreCurrent, FailuresAreCounted
<1>. QED
  BY <1>4, <1>5, <1>6, <1>7 DEF IInv

\* The invariant is inductive.
LEMMA NextIInv == IInv /\ [Next]_vars => IInv'
<1>. SUFFICES ASSUME IInv, [Next]_vars PROVE IInv'
  OBVIOUS
<1>1. CASE \E u \in Users : Reads(u) \/ Connects(u) \/ ConnectTailClears(u)
  BY <1>1, SubmitsStep, WaitsForLockStep, ConnectStep DEF Reads
<1>2. CASE ReaderStep
  BY <1>2, WaitEndsStep, FetchReturnsStep, FetchTimesOutStep DEF ReaderStep
<1>3. ASSUME NEW f \in Fetches, FetchStarts(f) PROVE IInv'
  <2>1. /\ fetch[f].st = "queued" /\ fetch' = [fetch EXCEPT ![f].st = "running"]
        /\ UNCHANGED <<listed, entry, reader, logins, streak>>
    BY <1>3 DEF FetchStarts
  <2>. QED
    BY <2>1, FetchStep
<1>4. CASE \E e \in Entries : CatalogueExpires(e) \/ BackoffEnds(e)
  BY <1>4, TimeStep
<1>5. CASE UNCHANGED <<listed, entry, fetch, reader, logins, streak>>
  BY <1>5 DEF IInv, CoreTypes, FetchesHold, LocksAreHeld, Holds, ReaderOwns, EntriesAreOwn,
              EntriesAreCurrent, FailuresAreCounted
<1>6. ASSUME NEW u \in Users, ReadsCache(u) \/ AnswerStored(u) \/ ProbeCleared(u) PROVE IInv'
  BY <1>5, <1>6 DEF ReadsCache, AnswerStored, ProbeCleared
<1>7. CASE UNCHANGED vars
  BY <1>5, <1>7 DEF vars
<1>. QED
  BY <1>1, <1>2, <1>3, <1>4, <1>6, <1>7, FetchEndsStep DEF Next

\* An answer handed over is as recent as the catalogue it is made of.
LEMMA HandsStep ==
  ASSUME IInv, AnswersAreCurrent, NEW u \in Users, NEW a \in {0, logins[u]}, Hands(u, a),
         UNCHANGED logins
  PROVE  AnswersAreCurrent'
<1>1. a \in 0..MaxLogins
  BY CacheAssumption DEF IInv, CoreTypes
<1>2. UNCHANGED <<probe, overtaken>>
  BY DEF Hands
<1>3. CASE UNCHANGED answer
  BY <1>2, <1>3 DEF AnswersAreCurrent
<1>4. CASE answer' = [answer EXCEPT ![u] = a]
  BY <1>1, <1>2, <1>4 DEF AnswersAreCurrent
<1>. QED
  BY <1>3, <1>4 DEF Hands

\* A read that ends finds in its entry a catalogue fetched since its user's
\* last connect, or none.
LEMMA ReaderFinds ==
  ASSUME IInv, ReaderStep
  PROVE  /\ reader.user \in Users
         /\ entry'[reader.entry].assets \in {0, logins[reader.user]}
         /\ Hands(reader.user, entry'[reader.entry].assets)
         /\ UNCHANGED logins
<1>. DEFINE old == entry[reader.entry]
<1>1. reader # NoReader /\ Answered /\ UNCHANGED logins
  BY DEF ReaderStep, WaitEnds, FetchReturns, FetchTimesOut
<1>2. /\ reader.user \in Users /\ reader.entry \in Entries /\ entry \in [Entries -> Entry]
      /\ old \in Entry /\ old.assets \in {0, logins[reader.user]}
      /\ reader.fetch # NoFetch => fetch[reader.fetch].logins = logins[reader.user]
  BY <1>1 DEF IInv, CoreTypes, ReaderOwns
<1>3. Failed(old) \in Entry /\ Failed(old).assets = old.assets
  BY <1>2, FailedFacts
<1>4. [Failed(old) EXCEPT !.locked = FALSE].assets = old.assets
  BY <1>3 DEF Entry
<1>5. entry'[reader.entry].assets \in {old.assets, logins[reader.user]}
  <2>1. CASE WaitEnds
    BY <2>1 DEF WaitEnds
  <2>2. CASE FetchReturns
    <3>1. CASE entry' = [entry EXCEPT ![reader.entry] = Stores(@, Mine.logins)]
      BY <1>2, <2>2, <3>1 DEF FetchReturns, Stores, Mine
    <3>2. CASE entry' = [entry EXCEPT ![reader.entry] = [Failed(@) EXCEPT !.locked = FALSE]]
      BY <1>2, <1>4, <3>2
    <3>. QED
      BY <2>2, <3>1, <3>2 DEF FetchReturns
  <2>3. CASE FetchTimesOut
    <3>1. CASE entry' = [entry EXCEPT ![reader.entry] = Failed(@)]
      BY <1>2, <1>3, <3>1
    <3>2. CASE entry' = [entry EXCEPT ![reader.entry] = [Failed(@) EXCEPT !.locked = FALSE]]
      BY <1>2, <1>4, <3>2
    <3>. QED
      BY <2>3, <3>1, <3>2 DEF FetchTimesOut
  <2>. QED
    BY <2>1, <2>2, <2>3 DEF ReaderStep
<1>. QED
  BY <1>1, <1>2, <1>5 DEF Answered

\* A connect clears the stored answers of its user; one on its way marks the
\* user as overtaken.
LEMMA ConnectClears ==
  ASSUME IInv, AnswersAreCurrent, NEW u \in Users, Connects(u) \/ ConnectTailClears(u)
  PROVE  AnswersAreCurrent'
<1>1. /\ logins \in [Users -> 1..MaxLogins]
      /\ probe' = [probe EXCEPT ![u] = 0] /\ answer' = answer
  BY DEF IInv, CoreTypes, Connects, ConnectTailClears, Cleared
<1>2. probe' \in [Users -> 0..MaxLogins] /\ \A v \in Users : probe'[v] \in {0, probe[v]}
  BY <1>1, CacheAssumption DEF AnswersAreCurrent
<1>3. CASE ConnectTailClears(u)
  BY <1>1, <1>2, <1>3 DEF AnswersAreCurrent, ConnectTailClears
<1>4. CASE Connects(u)
  <2>1. /\ overtaken' = IF answer[u] > 0 THEN overtaken \cup {u} ELSE overtaken \ {u}
        /\ \A v \in Users : v # u => logins'[v] = logins[v]
    BY <1>1, <1>4 DEF Connects
  <2>2. answer[u] \in 0..MaxLogins /\ MaxLogins \in Nat
    BY CacheAssumption DEF AnswersAreCurrent
  <2>3. ASSUME NEW v \in Users \ overtaken' PROVE {answer'[v], probe'[v]} \subseteq {0, logins'[v]}
    <3>1. CASE v = u
      BY <1>1, <2>1, <2>2, <2>3, <3>1 DEF AnswersAreCurrent
    <3>2. CASE v # u
      BY <1>1, <2>1, <2>3, <3>2 DEF AnswersAreCurrent
    <3>. QED
      BY <3>1, <3>2
  <2>. QED
    BY <1>1, <1>2, <2>1, <2>3 DEF AnswersAreCurrent
<1>. QED
  BY <1>3, <1>4

\* Every step keeps the answers recent.
LEMMA NextAnswers == IInv /\ AnswersAreCurrent /\ [Next]_vars => AnswersAreCurrent'
<1>. SUFFICES ASSUME IInv, AnswersAreCurrent, [Next]_vars PROVE AnswersAreCurrent'
  OBVIOUS
<1>1. CASE UNCHANGED <<logins, served>>
  BY <1>1 DEF served, AnswersAreCurrent
<1>2. ASSUME NEW u \in Users, Reads(u) PROVE AnswersAreCurrent'
  BY <1>1, <1>2 DEF Reads, Submits, WaitsForLock
<1>3. ASSUME NEW u \in Users, ReadsCache(u) PROVE AnswersAreCurrent'
  BY <1>3, HandsStep DEF ReadsCache, IInv, EntriesAreCurrent
<1>4. ASSUME NEW u \in Users, AnswerStored(u) PROVE AnswersAreCurrent'
  BY <1>4, CacheAssumption DEF AnswerStored, AnswersAreCurrent
<1>5. ASSUME NEW u \in Users, ProbeCleared(u) PROVE AnswersAreCurrent'
  BY <1>5, CacheAssumption DEF ProbeCleared, AnswersAreCurrent
<1>6. CASE ReaderStep
  BY <1>6, ReaderFinds, HandsStep
<1>7. ASSUME NEW f \in Fetches, FetchStarts(f) \/ FetchEnds(f) PROVE AnswersAreCurrent'
  BY <1>1, <1>7 DEF FetchStarts, FetchEnds
<1>8. ASSUME NEW e \in Entries, CatalogueExpires(e) \/ BackoffEnds(e) PROVE AnswersAreCurrent'
  BY <1>1, <1>8 DEF CatalogueExpires, BackoffEnds
<1>9. CASE UNCHANGED vars
  BY <1>1, <1>9 DEF vars
<1>. QED
  BY <1>2, <1>3, <1>4, <1>5, <1>6, <1>7, <1>8, <1>9, ConnectClears DEF Next

\* No answer is stored at first.
LEMMA InitAnswers == Init => AnswersAreCurrent
BY CacheAssumption DEF Init, AnswersAreCurrent

\* The invariants of the entries and of the answers hold in every reachable
\* state, for any number of users, entries, fetches and workers.
THEOREM CacheInvariance == Spec => [](IInv /\ AnswersAreCurrent)
BY InitIInv, NextIInv, InitAnswers, NextAnswers, PTL DEF Spec

\* Every variable of the cache keeps its type.
THEOREM CacheTypeCorrect == Spec => []TypeOK
<1>1. IInv /\ AnswersAreCurrent => TypeOK
  BY DEF IInv, CoreTypes, AnswersAreCurrent, TypeOK
<1>. QED
  BY <1>1, CacheInvariance, PTL

\* read_assets: the lock of an entry is taken exactly while one fetch, read or
\* abandoned, is to release it.
THEOREM LockIsHeldOnce == Spec => []LockHasOneHolder
<1>1. IInv => LockHasOneHolder
  <2>. SUFFICES ASSUME IInv, NEW e \in Entries
                PROVE  Cardinality(Holders(e)) = (IF entry[e].locked THEN 1 ELSE 0)
    BY DEF LockHasOneHolder
  <2>1. Holders(e) = {f \in Fetches : Holds(f) /\ fetch[f].entry = e}
    BY DEF Holders, Holds
  <2>2. CASE entry[e].locked
    <3>1. PICK f \in Fetches : Holds(f) /\ fetch[f].entry = e
      BY <2>2 DEF IInv, LocksAreHeld
    <3>2. Holders(e) = {f}
      BY <2>1, <3>1 DEF IInv, LocksAreHeld
    <3>. QED
      BY <2>2, <3>2, FS_Singleton
  <2>3. CASE ~entry[e].locked
    <3>1. Holders(e) = {}
      BY <2>1, <2>3 DEF IInv, LocksAreHeld
    <3>. QED
      BY <2>3, <3>1, FS_EmptySet
  <2>. QED
    BY <2>2, <2>3
<1>. QED
  BY <1>1, CacheInvariance, PTL

\* connect: what an entry holds was fetched since its user's last connect, and so
\* was every answer of /assets unless one was on its way when the user connected.
THEOREM CatalogueIsCurrent == Spec => []CatalogueSinceConnect
<1>1. IInv /\ AnswersAreCurrent => CatalogueSinceConnect
  BY DEF IInv, EntriesAreCurrent, AnswersAreCurrent, CatalogueSinceConnect
<1>. QED
  BY <1>1, CacheInvariance, PTL

\* instruments_backoff_seconds: consecutive failures wait 10, 30 and 60 s, also
\* when connects and late fetches come in between.
THEOREM BackoffIsSequential == Spec => []BackoffSequence
<1>1. IInv => BackoffSequence
  <2>. SUFFICES ASSUME IInv, NEW u \in Users, listed[u] # NoEntry, entry[listed[u]].wait > 0
                PROVE  entry[listed[u]].wait =
                         (CASE streak[u] = 1 -> 10 [] streak[u] = 2 -> 30 [] OTHER -> 60)
    BY DEF BackoffSequence
  <2>1. /\ streak[u] \in 0..3 /\ streak[u] > 0
        /\ entry[listed[u]].wait = BackoffOf(streak[u])
    BY DEF IInv, CoreTypes, FailuresAreCounted
  <2>2. streak[u] \in {1, 2, 3}
    BY <2>1
  <2>. QED
    BY <2>1, <2>2, Backoff
<1>. QED
  BY <1>1, CacheInvariance, PTL

\* At most one fetch of an entry runs, abandoned ones included.
THEOREM FetchesAreExclusive == Spec => []OneFetchPerEntry
<1>1. IInv => OneFetchPerEntry
  BY DEF IInv, FetchesHold, LocksAreHeld, Holds, OneFetchPerEntry, Running
<1>. QED
  BY <1>1, CacheInvariance, PTL
=============================================================================
