------------------------------ MODULE PriceCache ------------------------------
(***************************************************************************)
(* The live price of one symbol: the Redis key of services/                *)
(* price_service.py, the pool of threads that fetches from yfinance, and   *)
(* the requests that wait for it, one price or a list of prices. A request *)
(* that has waited too long goes on without a price; its fetch cannot be   *)
(* stopped and keeps its thread. Ages are counted in seconds; the event    *)
(* loop lets no second pass in which a timer that is due does not fire.    *)
(***************************************************************************)
EXTENDS Integers, FiniteSets

CONSTANTS
  Polls,    (* requests for the price                                      *)
  Timeout,  (* poll -> _PRICE_TIMEOUT, or _BULK_TIMEOUT for a list         *)
  PriceTTL, (* seconds the key lives                                       *)
  Threads   (* max_workers of the executor                                 *)

ASSUME PriceAssumption ==
  /\ Timeout \in [Polls -> Nat \ {0}]
  /\ \E p \in Polls : \A q \in Polls : Timeout[q] <= Timeout[p]  (* one of two *)
  /\ PriceTTL \in Nat \ {0}
  /\ Threads \in Nat \ {0}

VARIABLES
  key,    (* price:SYMBOL: the age of the price, and how long it has been  *)
          (* stored; NoKey when there is none                              *)
  poll,   (* "idle", "waiting", "served" or "none": what a request got     *)
  waited, (* how long it has waited                                        *)
  fetch,  (* its fetch: "no", "queued" or "running"                        *)
  fetched,(* the age of the price the fetch will return                    *)
  quoted  (* the age of the price it was answered with                     *)

pvars == <<key, poll, waited, fetch, fetched, quoted>>

LongestWait == CHOOSE m \in {Timeout[p] : p \in Polls} : \A p \in Polls : Timeout[p] <= m
Oldest      == PriceTTL + LongestWait + 1
NoKey       == [age |-> Oldest, stored |-> PriceTTL]

(* The key, the polls and their fetches keep their types, and a fetch that *)
(* nobody waits for any more counts against the threads.                   *)
PriceTypeOK ==
  /\ key \in [age : 0..Oldest, stored : 0..PriceTTL]
  /\ poll \in [Polls -> {"idle", "waiting", "served", "none"}]
  /\ \A p \in Polls : waited[p] \in 0..Timeout[p]
  /\ fetch \in [Polls -> {"no", "queued", "running"}]
  /\ fetched \in [Polls -> 0..Oldest]
  /\ quoted \in [Polls -> 0..Oldest]
  /\ Cardinality({p \in Polls : fetch[p] = "running"}) <= Threads

PriceInit ==
  /\ key = NoKey
  /\ poll = [p \in Polls |-> "idle"]
  /\ waited = [p \in Polls |-> 0]
  /\ fetch = [p \in Polls |-> "no"]
  /\ fetched = [p \in Polls |-> 0]
  /\ quoted = [p \in Polls |-> 0]

Older(age) == IF age = Oldest THEN age ELSE age + 1

(* A second; after PriceTTL of them Redis drops the key. *)
Second ==
  /\ \A p \in Polls : poll[p] = "waiting" => waited[p] < Timeout[p]
  /\ key' = IF key.stored + 1 >= PriceTTL THEN NoKey
            ELSE [age |-> Older(key.age), stored |-> key.stored + 1]
  /\ waited' = [p \in Polls |-> IF poll[p] = "waiting" THEN waited[p] + 1 ELSE 0]
  /\ fetched' = [p \in Polls |->
                   IF fetch[p] = "running" THEN Older(fetched[p]) ELSE 0]
  /\ UNCHANGED <<poll, fetch, quoted>>

(* GET or MGET of the key: a price, or the fetch goes to the executor. *)
AskPrice(p) ==
  /\ poll[p] # "waiting"
  /\ IF key # NoKey
     THEN /\ poll' = [poll EXCEPT ![p] = "served"]
          /\ quoted' = [quoted EXCEPT ![p] = key.age]
          /\ UNCHANGED fetch
     ELSE /\ fetch[p] = "no"
          /\ poll' = [poll EXCEPT ![p] = "waiting"]
          /\ fetch' = [fetch EXCEPT ![p] = "queued"]
          /\ quoted' = [quoted EXCEPT ![p] = 0]
  /\ waited' = [waited EXCEPT ![p] = 0]
  /\ UNCHANGED <<key, fetched>>

Busy == Cardinality({p \in Polls : fetch[p] = "running"})

HasThread == Busy < Threads

(* A thread takes the fetch; the price is one of this moment or a later one. *)
FetchStarts(p) ==
  /\ fetch[p] = "queued"
  /\ HasThread
  /\ fetch' = [fetch EXCEPT ![p] = "running"]
  /\ fetched' = [fetched EXCEPT ![p] = 0]
  /\ UNCHANGED <<key, poll, waited, quoted>>

(* Mutant: the thread itself stores its price. *)
Stored_Always(p, age) == key' = [age |-> age, stored |-> 0]

(* SETEX by the request, if it is still there. *)
Stored(p, age) ==
  key' = IF poll[p] = "waiting" THEN [age |-> age, stored |-> 0] ELSE key

(* The fetch returns; if its request has gone, its price goes nowhere. *)
FetchReturns(p) ==
  /\ fetch[p] = "running"
  /\ fetch' = [fetch EXCEPT ![p] = "no"]
  /\ \E age \in 0..fetched[p] :
       /\ Stored(p, age)
       /\ IF poll[p] = "waiting"
          THEN /\ poll' = [poll EXCEPT ![p] = "served"]
               /\ quoted' = [quoted EXCEPT ![p] = age]
          ELSE UNCHANGED <<poll, quoted>>
  /\ UNCHANGED <<waited, fetched>>

(* No price: yfinance fails, or leaves the symbol out of a list. *)
FetchFails(p) ==
  /\ fetch[p] = "running"
  /\ fetch' = [fetch EXCEPT ![p] = "no"]
  /\ poll' = [poll EXCEPT ![p] = IF @ = "waiting" THEN "none" ELSE @]
  /\ UNCHANGED <<key, waited, fetched, quoted>>

(* wait_for ends: a fetch that has not started is cancelled with it. *)
GiveUpPoll(p) ==
  /\ poll[p] = "waiting"
  /\ waited[p] = Timeout[p]
  /\ poll' = [poll EXCEPT ![p] = "none"]
  /\ fetch' = [fetch EXCEPT ![p] = IF @ = "queued" THEN "no" ELSE @]
  /\ UNCHANGED <<key, waited, fetched, quoted>>

PriceNext ==
  \/ Second
  \/ \E p \in Polls : \/ AskPrice(p) \/ FetchStarts(p) \/ FetchReturns(p)
                      \/ FetchFails(p) \/ GiveUpPoll(p)

PriceSpec == PriceInit /\ [][PriceNext]_pvars

(* A price is never older than the longest wait for a fetch and the life   *)
(* of the key together: a fetch that hangs in its thread for minutes       *)
(* (price_service.py:95-100) and then returns does not become the price of *)
(* the next sixty seconds.                                                 *)
PriceIsRecent ==
  /\ \A p \in Polls : quoted[p] < PriceTTL + LongestWait
  /\ key # NoKey => key.age < key.stored + LongestWait + 1
=============================================================================
