------------------------------ MODULE MCCaches ------------------------------
(* Small instances of what keeps a track's data on its way through a       *)
(* relay or proxy: the relay's cache and its interval sets, the ranges a   *)
(* filter or FETCH selects, the proxy's track with its group cache, and    *)
(* the hand-off between two upstreams.  A behaviour is one of one part;    *)
(* the others stay in an initial state.                                    *)
EXTENDS MoQUpstreamHandoffArbiter, CacheScenarios, ProxyScenarios

CONSTANTS
  Parts,
  CacheScenario, CacheGroup, CacheObject, ByteWord,        \* MoQCache
  SetGroup, SetObject,                                     \* LocationIntervalSet
  FilterGroup, FilterObject,                               \* LocationFilter
  ProxyScenario, ProxyGroup, ProxyObject, Capacity, MaxGroups  \* MoQProxyTrack

VARIABLES part, st, intervals, last, content

setVars == <<intervals, last, content>>
allVars == <<part, st, setVars, vars>>

C == INSTANCE MoQCache WITH
       c <- st, Scenarios <- CacheScenario, MaxGroup <- CacheGroup, MaxObject <- CacheObject,
       Names <- {"n1", "n2", "n3"}, Subs <- {"s1"}, Streams <- {"x1"},
       Fetches <- {"f1", "f2"}, MaxTracks <- 3
I == INSTANCE LocationIntervalSet WITH MaxGroup <- SetGroup, MaxObject <- SetObject
F == INSTANCE LocationFilterProofs WITH MaxGroup <- FilterGroup, MaxObject <- FilterObject
X == INSTANCE MoQProxyTrack WITH
       px <- st, Scenarios <- ProxyScenario, MaxGroup <- ProxyGroup, MaxObject <- ProxyObject,
       Viewers <- {"v1", "v2"}, Streams <- {"a", "b", "c"}, Joins <- {"j", "k"}

Caching == part = "cache"
Proxying == part = "proxy"

CachesInit ==
  /\ part \in Parts
  /\ I!Init
  /\ Init /\ (part # "handoff" => fromOld = {})
  /\ \/ Caching /\ C!Init
     \/ Proxying /\ X!Init
     \/ part \notin {"cache", "proxy"} /\ st = <<>>

CachesNext ==
  \/ Caching /\ C!Next /\ UNCHANGED <<part, setVars, vars>>
  \/ Proxying /\ X!Next /\ UNCHANGED <<part, setVars, vars>>
  \/ part = "intervals" /\ I!Next /\ UNCHANGED <<part, st, vars>>
  \/ part = "handoff" /\ Next /\ UNCHANGED <<part, st, setVars>>

CachesSpec == CachesInit /\ [][CachesNext]_allVars

-----------------------------------------------------------------------------
(* The state of each part has its shape: counters of bytes, pins, tracks   *)
(* and groups in range, the interval shortcut at a live interval.          *)
StateOK == (Caching => C!TypeOK) /\ (Proxying => X!TypeOK) /\ I!TypeOK /\ TypeOK

(* The cache's byte counts, pins and LRU lists are what its tracks and     *)
(* writers make them, and no FETCH waits for one that has gone or ends     *)
(* twice.                                                                  *)
CacheAccounts == Caching => C!CacheAccounts

(* A FETCH is served the objects of its range, in order, each once, from   *)
(* wherever they come, and none is claimed absent that is published.       *)
CacheServes == Caching => C!CacheServes

(* An interval set is the plain set it stands for, and no conversion of a  *)
(* filter or FETCH range changes what it selects.                          *)
RangesExact == I!IntervalsExact /\ (part = "filters" => F!FiltersKept)

(* A joining FETCH through the proxy delivers exactly what one upstream    *)
(* published in its range, and an honest upstream's groups stay cached.    *)
ProxyServes == Proxying => X!ProxyServes

(* The proxy's budget is exact, and no viewer, joining FETCH or upstream   *)
(* waits for somebody who has gone.                                        *)
ProxyReleases == Proxying => X!ProxyReleases
=============================================================================
