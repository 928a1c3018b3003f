------------------------------ MODULE ListCache ------------------------------
(***************************************************************************)
(* The web UI's infinite lists (ui/src/lib/pagination.ts) over the         *)
(* server's keyset pages (sqlite/libraryread.go), while imports change the *)
(* rows: the cache of accumulated pages, the list of the route on screen,  *)
(* the scroll sentinel, and invalidateLibrary.  There is one thread, so a  *)
(* step is what runs between two awaits.                                   *)
(*                                                                         *)
(* A key is a filter set and stands for its query.  Lists that are mounted *)
(* together (the sections of an artist) have keys of their own and share   *)
(* nothing; one is modelled.                                               *)
(***************************************************************************)
EXTENDS Naturals, Sequences, FiniteSets

CONSTANTS
  Row,         \* ids of rows, numbered from 1
  MaxPos,      \* a row sorts by its position, then its id
  Key,
  Match,       \* the rows that the filters of a key admit
  PageSize,
  Entry,       \* bound: entries alive at once, numbers
  MaxEdits,    \* bound: rows inserted, deleted or sorted anew
  MaxTurns,    \* bound: mounts, key changes and scrolls
  MaxClears,   \* bound: calls of invalidateLibrary
  MaxFaults    \* bound: calls that are rejected

ASSUME ConstantsType ==
  /\ IsFiniteSet(Row) /\ Row = 1 .. Cardinality(Row)
  /\ MaxPos \in Nat
  /\ Match \in [Key -> SUBSET Row]
  /\ PageSize \in Nat \ {0}
  /\ Entry \subseteq Nat \ {0} /\ Entry # {}
  /\ MaxEdits \in Nat /\ MaxTurns \in Nat /\ MaxClears \in Nat /\ MaxFaults \in Nat

VARIABLES
  pos,         \* where each row sorts; 0: no row
  cache,       \* the entry of a key; 0: none
  entries,     \* Entry objects, also those that only a fetch still holds
  key,         \* of the list on screen
  items, loading, done, error,   \* its signals
  intersecting,   \* whether its sentinel is near the viewport
  fired,       \* the sentinel's effect ran and its condition has held since
  edits, turns, clears, faults,
  missed,      \* history: the list lost an answer, or a call, to a fetch of another list
  strayed      \* history: its key changed while it was loading

vars    == <<pos, cache, entries, key, items, loading, done, error, intersecting,
             fired, edits, turns, clears, faults, missed, strayed>>
signals == <<items, loading, done, error>>
bounds  == <<edits, turns, clears, faults>>
hist    == <<missed, strayed>>

Quiet    == [on |-> FALSE, mine |-> FALSE, token |-> 0, epoch |-> 0]
NewEntry == [key |-> CHOOSE k \in Key : TRUE, items |-> <<>>, token |-> 0, done |-> FALSE,
             fetch |-> Quiet,
             epochs |-> {},    \* history: clears when its pages were asked for
             touched |-> {}]   \* history: rows edited since it was made

InFlight(e) == entries[e].fetch.on
First       == CHOOSE e \in Entry : \A f \in Entry : e <= f

\* A list has just been mounted for the first time, and asked for its first page.
Init ==
  /\ pos \in [Row -> 0 .. MaxPos]
  /\ key \in Key
  /\ cache = [k \in Key |-> IF k = key THEN First ELSE 0]
  /\ entries = [e \in Entry |->
       IF e = First
         THEN [NewEntry EXCEPT !.key = key, !.fetch = [Quiet EXCEPT !.on = TRUE, !.mine = TRUE]]
         ELSE NewEntry]
  /\ items = <<>>
  /\ loading = TRUE
  /\ done = FALSE
  /\ error = FALSE
  /\ intersecting = FALSE
  /\ fired = FALSE
  /\ edits = 0 /\ turns = 0 /\ clears = 0 /\ faults = 0
  /\ missed = FALSE
  /\ strayed = FALSE

-----------------------------------------------------------------------------
(* The server.                                                             *)

Rank(r) == pos[r] * (Cardinality(Row) + 1) + r

\* Mutant: the cursor holds the sort key without the id.
Beyond_noId(r, token) == pos[r] > token \div (Cardinality(Row) + 1)

\* The row comparison of the keyset; a token holds the sort key and id of
\* the last row of its page, as they were.
Beyond(r, token) == Rank(r) > token

\* The rows of S in the order of the list.
InOrder(S) ==
  CHOOSE s \in [1 .. Cardinality(S) -> S] :
    \A i, j \in 1 .. Cardinality(S) : i < j => Rank(s[i]) < Rank(s[j])

\* Artists, Albums: one row more than the page tells whether more follow.
Page(k, token) ==
  LET rest == InOrder({r \in Match[k] : pos[r] # 0 /\ Beyond(r, token)})
  IN  IF Len(rest) > PageSize
        THEN [rows |-> SubSeq(rest, 1, PageSize), next |-> Rank(rest[PageSize])]
        ELSE [rows |-> rest, next |-> 0]

\* An import inserts, deletes or re-sorts a row.
Edit(r) ==
  /\ edits < MaxEdits
  /\ edits' = edits + 1
  /\ \E p \in (0 .. MaxPos) \ {pos[r]} : pos' = [pos EXCEPT ![r] = p]
  /\ entries' = [e \in Entry |-> [entries[e] EXCEPT !.touched = @ \cup {r}]]
  /\ UNCHANGED <<cache, key, signals, intersecting, fired, turns, clears, faults, hist>>

-----------------------------------------------------------------------------
(* createInfiniteList.                                                     *)

\* An Entry object that nothing refers to any more.
Unused == {e \in Entry : ~InFlight(e) /\ \A k \in Key : cache[k] # e}
Fresh  == CHOOSE e \in Unused : \A f \in Unused : e <= f

\* entryFor.
EntryOf(k)   == IF cache[k] = 0 THEN Fresh ELSE cache[k]
WithEntry(k) ==
  IF cache[k] = 0 THEN [entries EXCEPT ![Fresh] = [NewEntry EXCEPT !.key = k]] ELSE entries
EntryFor(k)  == (cache[k] # 0 \/ Unused # {}) /\ cache' = [cache EXCEPT ![k] = EntryOf(k)]

\* Mutant: the guard is the loading signal, which keys share.
MayLoad_signal(E, e) == ~loading /\ ~E[e].done

\* The guard of loadMore.
MayLoad(E, e) == ~E[e].fetch.on /\ ~E[e].done

\* Mutant: the first page is asked for again.
Sent_first(E, e) ==
  [E EXCEPT ![e].fetch = [Quiet EXCEPT !.on = TRUE, !.mine = TRUE, !.epoch = clears]]

\* fetchPage is called with the entry's token.
Sent(E, e) ==
  [E EXCEPT ![e].fetch =
     [Quiet EXCEPT !.on = TRUE, !.mine = TRUE, !.token = E[e].token, !.epoch = clears]]

\* loadMore up to its await, from the sentinel or a button.
LoadMore ==
  LET E == WithEntry(key)
      e == EntryOf(key)
  IN  /\ EntryFor(key)
      /\ entries' = IF MayLoad(E, e) THEN Sent(E, e) ELSE E
      /\ loading' = (loading \/ MayLoad(E, e))
      /\ missed' = (missed \/ E[e].fetch.on)

\* The effect on the key, over the fetches F, the loading signal busy and the
\* history was: the entry is shown, and loaded if it is empty.
ShowKey(k, F, busy, was) ==
  LET E     == [e \in Entry |-> [WithEntry(k)[e] EXCEPT !.fetch = F[e]]]
      e     == EntryOf(k)
      empty == E[e].items = <<>> /\ ~E[e].done
      loads == empty /\ MayLoad(E, e)
  IN  /\ EntryFor(k)
      /\ key' = k
      /\ entries' = IF loads THEN Sent(E, e) ELSE E
      /\ loading' = (busy \/ loads)
      /\ items' = E[e].items
      /\ done' = E[e].done
      /\ error' = FALSE
      /\ strayed' = (busy /\ (~empty \/ F[e].on))
      /\ missed' = (was \/ (empty /\ F[e].on))

\* The sentinel's effect has nothing to wait for once its condition is false.
Rearmed == fired /\ intersecting' /\ ~loading' /\ ~done'

\* A route with a list is entered: the list of the one before is disposed of,
\* and what its fetches bring reaches the cache only.
Mount(k) ==
  /\ turns < MaxTurns
  /\ turns' = turns + 1
  /\ ShowKey(k, [e \in Entry |-> [entries[e].fetch EXCEPT !.mine = FALSE]],
             FALSE, FALSE)
  /\ intersecting' = FALSE
  /\ fired' = FALSE
  /\ UNCHANGED <<pos, edits, clears, faults>>

\* The filters change under a mounted list.
SetKey(k) ==
  /\ turns < MaxTurns
  /\ turns' = turns + 1
  /\ k # key
  /\ ShowKey(k, [e \in Entry |-> entries[e].fetch], loading, missed)
  /\ UNCHANGED <<pos, intersecting, edits, clears, faults>>
  /\ fired' = Rearmed

\* The reader scrolls to, or away from, the end of the list.
Scroll ==
  /\ turns < MaxTurns
  /\ turns' = turns + 1
  /\ intersecting' = ~intersecting
  /\ UNCHANGED <<pos, cache, entries, key, signals, edits, clears, faults, hist>>
  /\ fired' = Rearmed

\* The sentinel calls loadMore when its condition becomes true.
SentinelFires ==
  /\ intersecting /\ ~loading /\ ~done /\ ~fired
  /\ LoadMore
  /\ fired' = ~loading'
  /\ UNCHANGED <<pos, key, items, done, error, intersecting, bounds, strayed>>

\* The Load more button of a section, or a route's retry button.
ClickMore ==
  /\ (~done /\ ~loading) \/ error
  /\ LoadMore
  /\ fired' = (fired /\ ~loading')
  /\ UNCHANGED <<pos, key, items, done, error, intersecting, bounds, strayed>>

\* The signals are set only while the list still shows the key.
Current(e) == entries[e].fetch.mine /\ entries[e].key = key

\* loadMore from its await on.  The server's read is part of the step: an edit
\* while the answer is on its way cannot be told from one after it.
Receive(e) ==
  LET fetch == entries[e].fetch
      page  == Page(entries[e].key, fetch.token)
      grown == entries[e].items \o page.rows
  IN  /\ fetch.on
      /\ entries' = [entries EXCEPT
           ![e].items = grown, ![e].token = page.next, ![e].done = page.next = 0,
           ![e].fetch = Quiet, ![e].epochs = @ \cup {fetch.epoch}]
      /\ IF Current(e)
           THEN /\ items' = grown
                /\ done' = (page.next = 0)
                /\ error' = FALSE
                /\ loading' = FALSE
                /\ strayed' = FALSE
           ELSE UNCHANGED <<signals, strayed>>
      /\ missed' = (missed \/ (cache[key] # 0 /\ (cache[key] = e) # Current(e)))
      /\ UNCHANGED <<pos, cache, key, intersecting, bounds>>
      /\ fired' = Rearmed

\* Mutant: the finally block is left out.
Reject_noFinally(e) ==
  /\ InFlight(e)
  /\ faults < MaxFaults
  /\ faults' = faults + 1
  /\ entries' = [entries EXCEPT ![e].fetch = Quiet]
  /\ error' = (error \/ Current(e))
  /\ UNCHANGED <<pos, cache, key, items, loading, done, fired, intersecting, edits, turns,
                 clears, hist>>

\* The catch and finally blocks: what was accumulated stays.
Reject(e) ==
  /\ InFlight(e)
  /\ faults < MaxFaults
  /\ faults' = faults + 1
  /\ entries' = [entries EXCEPT ![e].fetch = Quiet]
  /\ IF Current(e)
       THEN error' = TRUE /\ loading' = FALSE /\ strayed' = FALSE
       ELSE UNCHANGED <<error, loading, strayed>>
  /\ UNCHANGED <<pos, cache, key, items, done, intersecting, edits, turns, clears, missed>>
  /\ fired' = Rearmed

\* Mutant: the entries are emptied rather than dropped.
Clear_inPlace ==
  /\ clears < MaxClears
  /\ clears' = clears + 1
  /\ entries' = [e \in Entry |-> [NewEntry EXCEPT !.key = entries[e].key,
                                                  !.fetch = entries[e].fetch]]
  /\ UNCHANGED <<pos, cache, key, signals, intersecting, fired, edits, turns, faults, hist>>

\* invalidateLibrary: clearListCache leaves the list on screen as it is.
Clear ==
  /\ clears < MaxClears
  /\ clears' = clears + 1
  /\ cache' = [k \in Key |-> 0]
  /\ UNCHANGED <<pos, entries, key, signals, intersecting, fired, edits, turns, faults, hist>>

-----------------------------------------------------------------------------
Next ==
  \/ \E r \in Row : Edit(r)
  \/ \E e \in Entry : Receive(e) \/ Reject(e)
  \/ \E k \in Key : Mount(k) \/ SetKey(k)
  \/ Scroll \/ SentinelFires \/ ClickMore
  \/ Clear

Spec == Init /\ [][Next]_vars

\* Calls are answered or rejected and effects run; nobody has to touch the page.
Fairness ==
  /\ \A e \in Entry : WF_vars(Receive(e))
  /\ WF_vars(SentinelFires)

FairSpec == Spec /\ Fairness

-----------------------------------------------------------------------------
Fetch     == [on : BOOLEAN, mine : BOOLEAN, token : Nat, epoch : Nat]
EntryType == [key : Key, items : Seq(Row), token : Nat, done : BOOLEAN, fetch : Fetch,
              epochs : SUBSET Nat, touched : SUBSET Row]

TypeOK ==
  /\ pos \in [Row -> 0 .. MaxPos]
  /\ cache \in [Key -> Entry \cup {0}]
  /\ entries \in [Entry -> EntryType]
  /\ key \in Key
  /\ items \in Seq(Row)
  /\ {loading, done, error, intersecting, fired, missed, strayed} \subseteq BOOLEAN
  /\ {edits, turns, clears, faults} \subseteq Nat

(* Properties.                                                             *)

\* Paging neither skips nor repeats a row, nor puts two out of order, as long
\* as that row's own sort key stays: whatever imports insert, delete or
\* re-sort between two pages, the row the cursor came from included.
Steady(e) == Match[entries[e].key] \ entries[e].touched
PagesAreSound ==
  \A e \in Entry : \A r \in Steady(e) :
    LET at == {i \in DOMAIN entries[e].items : entries[e].items[i] = r}
    IN  /\ Cardinality(at) =
             IF pos[r] # 0 /\ (entries[e].done \/ Rank(r) <= entries[e].token) THEN 1 ELSE 0
        /\ \A i \in at, j \in DOMAIN entries[e].items :
             i < j /\ entries[e].items[j] \in Steady(e) => Rank(r) < Rank(entries[e].items[j])

\* "page tokens issued before the scan are no longer meaningful"
\* (invalidate.ts): no accumulated list holds pages asked for before and
\* after an invalidation, wherever it fell in a fetch.
ListsAreNotMixed == \A e \in Entry : Cardinality(entries[e].epochs) <= 1

\* The loading signal keeps the sentinel and the buttons off, so it may not
\* stay up with no fetch of the list to lower it.  A key change to a list
\* that needs no load does just that (strayed).
LoadingMeansFetching ==
  loading => strayed \/ \E e \in Entry : InFlight(e) /\ Current(e)

\* A reader at the end of a list gets all of it, through failed calls, key
\* changes, invalidations and edits, unless it lost an answer or a call to a
\* fetch in flight when it was shown (missed), or loading stuck (strayed).
ListIsCompleted == <>[](intersecting => done \/ missed \/ strayed)

-----------------------------------------------------------------------------
(* The inductive invariant of the proofs, entry by entry.                  *)

\* What PagesAreSound says, without counting: of the steady rows, those up to
\* the entry's token are in its items, in order and no others.
PagesAreWhole(x) ==
  LET steady  == Match[x.key] \ x.touched
      seen(r) == pos[r] # 0 /\ (x.done \/ Rank(r) <= x.token)
  IN  /\ \A i \in DOMAIN x.items : x.items[i] \in steady => seen(x.items[i])
      /\ \A r \in steady : seen(r) => \E i \in DOMAIN x.items : x.items[i] = r
      /\ \A i, j \in DOMAIN x.items :
           i < j /\ {x.items[i], x.items[j]} \subseteq steady => Rank(x.items[i]) < Rank(x.items[j])

\* The clears before which an entry's pages were asked for.
Asked(x) == x.epochs \cup {n \in {x.fetch.epoch} : x.fetch.on}

\* A fetch asks for the page after those an entry has.
EntryIsSound(x) ==
  /\ x.fetch.on => x.fetch.token = x.token /\ ~x.done
  /\ \A m, n \in Asked(x) : m = n
  /\ PagesAreWhole(x)

\* An entry in the cache is its key's, and as new as the last clear.
CacheIsSound(k) ==
  cache[k] # 0 => /\ entries[cache[k]].key = k
                  /\ Asked(entries[cache[k]]) \subseteq {clears}

\* What entryFor and loadMore keep of every list, on screen or not, whatever the
\* server and the reader do between a call and its answer.
ListInv ==
  /\ TypeOK
  /\ \A e \in Entry : EntryIsSound(entries[e])
  /\ \A k \in Key : CacheIsSound(k)
  /\ LoadingMeansFetching

=============================================================================
