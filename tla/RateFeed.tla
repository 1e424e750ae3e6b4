------------------------------ MODULE RateFeed ------------------------------
(***************************************************************************)
(* The gold-rate ticker on every page (apps/rates/live.py): live rates are *)
(* fetched from GoodReturns, else from the international spot market, else *)
(* taken from the rows brokers keyed in (Pricing), and kept in the Django  *)
(* cache.  The cache is LocMemCache (config/settings/base.py), one per     *)
(* process.  Pages are served by the web workers; Celery beat has one of   *)
(* the Celery processes refresh its cache every fifteen minutes.           *)
(***************************************************************************)
EXTENDS Pricing

CONSTANTS
  WebWorkers, CeleryWorkers,
  Newest,       \* Tenant.objects.first(): tenants are ordered by -created_at
  MinuteSteps   \* the clock moves by a step, in minutes

ASSUME FeedAssumption ==
  /\ Newest \in Tenants
  /\ WebWorkers \cap CeleryWorkers = {}
  /\ MinuteSteps \subseteq Nat \ {0}

VARIABLES
  cache,     \* per process: what it holds, and the minutes until it expires
  up,        \* the sources that answer
  settled,   \* minutes since a source came up (0: down), at most Ttl + 1
  fed        \* history: per process, minutes since a fetch got it rates, at most Ttl + 1

feedVars == <<cache, up, settled, fed>>
vars == <<pricingVars, feedVars>>

Processes == WebWorkers \cup CeleryWorkers
Sources == {"goodreturns", "spot"}
Ttl == 15              \* CACHE_TTL
FallbackTtl == 2

Empty == [source |-> "none", left |-> 0]
Entry == [source : Sources \cup {"manual", "none"}, left : 0..Ttl]
AtMost(n, m) == IF n < m THEN n ELSE m

-----------------------------------------------------------------------------
\* Mutant: a fallback is kept as long as a live rate.
KeptAsLong(source) ==
  [source |-> source, left |-> Ttl]

Kept(source) ==
  [source |-> source, left |-> IF source = "manual" THEN FallbackTtl ELSE Ttl]

\* _fetch_from_db: the newest tenant's rows up to today, of any purity.
ManualRates == {p \in Purities : LatestFor(Newest, p, today) # 0}

\* get_live_rates past the cache: the first source that answers is kept; when
\* none does and nothing was keyed in, the cache is left alone.
Fetch(w) ==
  /\ cache' =
       IF "goodreturns" \in up THEN [cache EXCEPT ![w] = Kept("goodreturns")]
       ELSE IF "spot" \in up THEN [cache EXCEPT ![w] = Kept("spot")]
       ELSE IF ManualRates # {} THEN [cache EXCEPT ![w] = Kept("manual")]
       ELSE cache
  /\ fed' = IF up # {} \/ ManualRates # {} THEN [fed EXCEPT ![w] = 0] ELSE fed
  /\ UNCHANGED <<up, settled>>

\* Mutant: the page asks the sources every time.
PageUncached(w) ==
  /\ w \in WebWorkers
  /\ Fetch(w)
  /\ UNCHANGED pricingVars

\* live_gold_rates, on every page: nothing happens while the cache holds.
Page(w) ==
  /\ w \in WebWorkers /\ cache[w].source = "none"
  /\ Fetch(w)
  /\ UNCHANGED pricingVars

\* refresh_live_gold_rates(force_refresh), in whichever process takes the task.
Refresh(w) ==
  /\ w \in CeleryWorkers
  /\ Fetch(w)
  /\ UNCHANGED pricingVars

Aged(n) ==
  [w \in Processes |-> IF cache[w].left > n THEN [cache[w] EXCEPT !.left = @ - n] ELSE Empty]

Tick(n) ==
  /\ cache' = Aged(n)
  /\ settled' = [s \in Sources |-> IF s \in up THEN AtMost(settled[s] + n, Ttl + 1) ELSE 0]
  /\ fed' = [w \in Processes |-> AtMost(fed[w] + n, Ttl + 1)]
  /\ UNCHANGED <<up, pricingVars>>

\* A source stops answering, is blocked or changes its page; or it is back.
Turn(s) ==
  /\ up' = IF s \in up THEN up \ {s} ELSE up \cup {s}
  /\ settled' = [settled EXCEPT ![s] = 0]
  /\ UNCHANGED <<cache, fed, pricingVars>>

\* Over night everything expires.
Night ==
  /\ \E n \in DaySteps : NextDay(n)
  /\ cache' = [w \in Processes |-> Empty]
  /\ fed' = [w \in Processes |-> Ttl + 1]
  /\ settled' = [s \in Sources |-> IF s \in up THEN Ttl + 1 ELSE 0]
  /\ UNCHANGED up
-----------------------------------------------------------------------------
Init ==
  /\ PricingInit
  /\ cache = [w \in Processes |-> Empty]
  /\ up \in SUBSET Sources
  /\ settled = [s \in Sources |-> 0]
  /\ fed = [w \in Processes |-> Ttl + 1]

FeedStep ==
  \/ \E w \in WebWorkers : Page(w)
  \/ \E w \in CeleryWorkers : Refresh(w)
  \/ \E n \in MinuteSteps : Tick(n)
  \/ \E s \in Sources : Turn(s)
  \/ Night

Next == (DeskStep /\ UNCHANGED feedVars) \/ FeedStep

Spec == Init /\ [][Next]_vars
-----------------------------------------------------------------------------
(* Properties *)

\* Outages heal: no page shows keyed-in rates once a live source has been back for
\* two minutes, nor the lower spot price once GoodReturns has been for fifteen.
StandInsAreBrief ==
  \A w \in WebWorkers :
    /\ cache[w].source = "manual" => \A s \in Sources : settled[s] <= FallbackTtl
    /\ cache[w].source = "spot" => settled["goodreturns"] <= Ttl

\* A page waits for the network (up to three times eight seconds) no sooner than
\* two minutes after its process got rates, whatever the sources do meanwhile.
PagesSeldomWait ==
  [][\A w \in WebWorkers : Page(w) => fed[w] >= FallbackTtl]_vars
=============================================================================
