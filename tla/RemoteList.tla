------------------------------- MODULE RemoteList -------------------------------
(***************************************************************************)
(* The servers an OpenVPN client may use: RemoteList of                    *)
(* openvpn/client/remotelist.hpp.  Each entry is a "remote" line; its host *)
(* resolves to addresses, kept in the entry while they are cached.  Index  *)
(* points at an entry and at one of its addresses (both counted from 1     *)
(* here).  With the cache (tun_persist) every host is resolved before the  *)
(* first connection, by PreResolve.                                        *)
(***************************************************************************)
EXTENDS Integers, Sequences, FiniteSets

CONSTANTS
    Address,
    Host,     \* the names the "remote" lines use
    Remotes,  \* the host of each line, in order
    Answers,  \* the lists of addresses each host may resolve to, in every order
    Caches    \* the values enable_cache may have

ASSUME RemotesAssumption == Remotes \in Seq(Host) \ {<< >>}
ASSUME AnswersAssumption == \A h \in Host : Answers[h] \subseteq Seq(Address) \ {<< >>}
ASSUME LongestAssumption ==
    \A h \in Host : \E a \in Answers[h] : \A b \in Answers[h] : Len(b) <= Len(a)
ASSUME CachesAssumption == Caches \subseteq BOOLEAN

VARIABLES
    cache,    \* enable_cache
    list,     \* the entries: which line, and res_addr_list, << >> if undefined
    index,    \* primary_ and secondary_
    querying  \* PreResolve: the position of the entry being resolved, 0 if none

listVars == <<cache, list, index, querying>>

Entry == [line : DOMAIN Remotes, addrs : Seq(Address)]
HostOf(entry) == Remotes[entry.line]
First == [primary |-> 1, secondary |-> 1]
Current == list[index.primary]

ListTypeOK ==
    /\ cache \in BOOLEAN
    /\ list \in Seq(Entry)
    /\ index \in [primary : 1..Len(list), secondary : Nat \ {0}]
    /\ querying \in 0..Len(list)

ListInit ==
    /\ cache \in Caches
    /\ list = [i \in DOMAIN Remotes |-> [line |-> i, addrs |-> << >>]]
    /\ index = First
    /\ querying = 0

(* Defect: an index beyond the last address.                               *)
MutIncrementBeyond(i, entries, addresses) ==
    IF i.secondary <= addresses
    THEN [i EXCEPT !.secondary = @ + 1]
    ELSE [primary |-> IF i.primary < entries THEN i.primary + 1 ELSE 1, secondary |-> 1]

(* Index::increment                                                        *)
Increment(i, entries, addresses) ==
    IF i.secondary < addresses
    THEN [i EXCEPT !.secondary = @ + 1]
    ELSE [primary |-> IF i.primary < entries THEN i.primary + 1 ELSE 1, secondary |-> 1]

(* reset_cache_item                                                        *)
ResetItem(entries, i) == IF cache THEN entries ELSE [entries EXCEPT ![i].addrs = << >>]

(* next, the entries and the index it leaves                               *)
Advanced(entries, i) ==
    LET to == Increment(i, Len(entries), Len(entries[i.primary].addrs))
    IN  [list |-> ResetItem(entries, to.primary), index |-> to]

EndpointAvailable(entries, i) == i.secondary <= Len(entries[i.primary].addrs)

(* set_endpoint_range of the entry at a position                           *)
Resolved(entries, i, addrs) == [entries EXCEPT ![i].addrs = addrs]

--------------------------------------------------------------------------------
(* PreResolve                                                              *)

(* search_server_host                                                      *)
Known(entries, i) ==
    {j \in DOMAIN entries : HostOf(entries[j]) = HostOf(entries[i]) /\ entries[j].addrs # << >>}

(* PreResolve::next passes the entries whose host is known, which share    *)
(* its addresses (they all have the same), and stops at the first that is  *)
(* not known: 0 if there is none.                                          *)
Unknown(entries, from) == {i \in from..Len(entries) : Known(entries, i) = {}}
NextQuery(entries, from) ==
    LET unknown == Unknown(entries, from)
    IN  IF unknown = {} THEN {0} ELSE {i \in unknown : \A j \in unknown : i <= j}
Shared(entries, from, to) ==
    [i \in DOMAIN entries |->
        IF i \in from..to /\ entries[i].addrs = << >> /\ Known(entries, i) # {}
        THEN [entries[i] EXCEPT !.addrs = entries[CHOOSE j \in Known(entries, i) : TRUE].addrs]
        ELSE entries[i]]

(* prune_uncached, unless that would leave nothing: the positions of the   *)
(* entries that are kept, in their order.                                  *)
Cached(entries) == {i \in DOMAIN entries : entries[i].addrs # << >>}
Kept(entries) ==
    LET kept == IF Cached(entries) = {} THEN DOMAIN entries ELSE Cached(entries)
        n    == Cardinality(kept)
    IN  {f \in [1..n -> kept] : \A j, k \in 1..n : j < k => f[j] < f[k]}
Listed(entries, f) == [k \in DOMAIN f |-> entries[f[k]]]

================================================================================
