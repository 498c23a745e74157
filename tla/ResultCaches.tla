---------------------------- MODULE ResultCaches ----------------------------
(***************************************************************************)
(* The requests that show the results of the latest scan and keep their    *)
(* answers in Redis:                                                       *)
(*   list    GET /signals, GET /scans/latest/signals (routers/signals.py,  *)
(*           routers/scans.py), with the total from one statement and the  *)
(*           page from a second one;                                       *)
(*   counts  GET /scans/latest/signals/counts, one statement;              *)
(*   stats   GET /dashboard (routers/dashboard.py): the id of the latest   *)
(*           scan, then everything else by that id.                        *)
(* An answer is written to Redis long after the cache was found empty: the *)
(* worker can empty it in between.  Reads may go to a replica.             *)
(***************************************************************************)
EXTENDS ScanResults

VARIABLES
  reader,  (* request -> where it is, for which key, what it has read      *)
  replica  (* the state of the database that the replica shows             *)

cacheVars == <<reader, replica>>

Idle == [at |-> "idle", key |-> "list", got |-> Miss]

(* What the queries tell apart of the database. *)
Primary == [latest |-> Latest, n |-> Cardinality(stored)]

(* get_read_pool *)
Database == IF May("replica") THEN replica ELSE Primary

(* COUNT( * ) over the signals of a scan *)
CountOf(id, db) == IF id = "new" THEN db.n ELSE 0

CachesInit ==
  /\ reader = [r \in Readers |-> Idle]
  /\ replica = Primary

(* The look at the cache; a hit is answered and changes nothing. *)
Ask(r, k) ==
  /\ r \in setup.readers /\ k \in setup.keys
  /\ reader[r].at = "idle"
  /\ cache[k] = Miss
  /\ reader' = [reader EXCEPT ![r] = [at |-> "first", key |-> k, got |-> Miss]]
  /\ UNCHANGED <<results, replica>>

(* The first statement. For the counts it is the only one.                 *)
First(r) ==
  /\ reader[r].at = "first"
  /\ LET id == Database.latest
     IN reader' = [reader EXCEPT
                     ![r] = [at  |-> IF reader[r].key = "counts" THEN "fill" ELSE "second",
                             key |-> reader[r].key,
                             got |-> [total |-> id, items |-> id, after |-> FALSE,
                                      n |-> CountOf(id, Database)]]]
  /\ UNCHANGED <<results, replica>>

(* The page of a list is of the scan that is the latest now; the dashboard *)
(* goes on with the id it has.                                             *)
Second(r) ==
  /\ reader[r].at = "second"
  /\ LET got == reader[r].got
     IN reader' = [reader EXCEPT
                     ![r] = [at  |-> "fill",
                             key |-> reader[r].key,
                             got |-> IF reader[r].key = "list"
                                     THEN [got EXCEPT !.items = Database.latest]
                                     ELSE [got EXCEPT !.n = CountOf(got.total, Database)]]]
  /\ UNCHANGED <<results, replica>>

(* A statement fails: a list is a server error, the dashboard is empty;    *)
(* neither is kept.                                                        *)
ReadFails(r) ==
  /\ May("errors")
  /\ reader[r].at \in {"first", "second"}
  /\ reader' = [reader EXCEPT ![r] = Idle]
  /\ UNCHANGED <<results, replica>>

(* SET ... EX *)
Fill(r) ==
  /\ reader[r].at = "fill"
  /\ cache' = [cache EXCEPT ![reader[r].key] = [reader[r].got EXCEPT !.after = scan # "pending"]]
  /\ reader' = [reader EXCEPT ![r] = Idle]
  /\ UNCHANGED <<setup, scan, found, stored, wire, replica>>

(* Mutant: the entries have no time to live. *)
Expire_Never(k) ==
  /\ cache[k] # Miss /\ scan = "pending"
  /\ cache' = [cache EXCEPT ![k] = Miss]
  /\ UNCHANGED <<setup, scan, found, stored, wire, reader, replica>>

Expire(k) ==
  /\ cache[k] # Miss
  /\ cache' = [cache EXCEPT ![k] = Miss]
  /\ UNCHANGED <<setup, scan, found, stored, wire, reader, replica>>

(* The replica catches up. *)
Replicate ==
  /\ May("replica")
  /\ replica' = Primary
  /\ replica' # replica
  /\ UNCHANGED <<results, reader>>

-----------------------------------------------------------------------------
Request(r) == First(r) \/ Second(r) \/ Fill(r)

CachesNext ==
  \/ \E r \in Readers : \/ \E k \in Keys : Ask(r, k)
                        \/ Request(r)
                        \/ ReadFails(r)
  \/ \E k \in Keys : Expire(k)
  \/ Replicate

(* A request that has begun is carried on, entries expire, the replica     *)
(* follows; nobody has to ask.                                             *)
CachesFairness ==
  /\ \A r \in Readers : WF_<<results, cacheVars>>(Request(r))
  /\ \A k \in Keys : WF_<<results, cacheVars>>(Expire(k))
  /\ WF_<<results, cacheVars>>(Replicate)

(***************************************************************************)
(* Properties.                                                             *)
(***************************************************************************)
CachesTypeOK ==
  /\ \A k \in Keys : /\ cache[k].total \in {"none", "old", "new"}
                     /\ cache[k].items \in {"none", "old", "new"}
                     /\ cache[k].n \in 0..Cardinality(setup.symbols)
                     /\ cache[k].after \in BOOLEAN
  /\ \A r \in Readers : /\ reader[r].at \in {"idle", "first", "second", "fill"}
                        /\ reader[r].key \in Keys
  /\ replica \in [latest : {"old", "new"}, n : 0..Cardinality(setup.symbols)]

(* When clients are told that the scan is complete, no list and no counts  *)
(* from before its end are left in Redis (scanner_tasks.py:182-190).  Not  *)
(* promised: that none is written afterwards by a request that had read    *)
(* the database before.                                                    *)
BustLeavesNothing ==
  Published("complete") /\ ~May("redis") =>
    \A k \in {"list", "counts"} : cache[k] # Miss => cache[k].after

(* What is kept is about one scan, and about all of it. The counts of the  *)
(* new scan miss none of its signals: a scan is not the latest one before  *)
(* all it found is stored, on the replica either (queries/signals.py:112,  *)
(* routers/dashboard.py:75). The dashboard and the counts are of one scan, *)
(* even when a scan ends between two of their statements. A list may be    *)
(* torn: the total of one scan over the page of the next.                  *)
AnswersAgree ==
  /\ scan = "done" => \A k \in Keys : cache[k].total = "new" => cache[k].n >= found
  /\ \A k \in {"counts", "stats"} : cache[k].total = cache[k].items

(* Whatever was written late, torn or read from a lagging replica is gone  *)
(* in the end, and what is kept from then on is the latest scan.           *)
FreshForGood ==
  <>[](\A k \in Keys : cache[k] # Miss => cache[k].total = Latest /\ cache[k].items = Latest)
=============================================================================
