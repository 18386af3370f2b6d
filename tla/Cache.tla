-------------------------------- MODULE Cache --------------------------------
(***************************************************************************)
(* What leveldb's Cache promises its clients (include/leveldb/cache.h): a  *)
(* mapping from keys to entries that may forget an entry no client holds,  *)
(* and keeps every entry alive while it is mapped or held.                 *)
(***************************************************************************)
EXTENDS Integers

CONSTANTS Keys, Clients, NULL

VARIABLES mapped,   \* the entry of every key, or NULL
          held,     \* the entry every client holds, or NULL
          deleted   \* entries whose deleter has run

vars == <<mapped, held, deleted>>

InUse(m, h) == ({m[k] : k \in Keys} \cup {h[c] : c \in Clients}) \ {NULL}

Init ==
  /\ mapped = [k \in Keys |-> NULL]
  /\ held = [c \in Clients |-> NULL]
  /\ deleted = {}

(* The entries that a step leaves without a use are deleted by it. *)
DeleteUnused(new) ==
  deleted' = deleted \cup ((InUse(mapped, held) \cup new) \ InUse(mapped', held'))

(* Keys other than the excepted may be forgotten, unless a client holds    *)
(* their entry.                                                            *)
MayForget(except) ==
  \A k \in Keys \ except :
    \/ mapped'[k] = mapped[k]
    \/ mapped'[k] = NULL /\ mapped[k] \notin {held[c] : c \in Clients}

Lookup(c, k) ==
  /\ held[c] = NULL /\ mapped[k] # NULL
  /\ held' = [held EXCEPT ![c] = mapped[k]]
  /\ UNCHANGED <<mapped, deleted>>

Insert(c, k) ==
  /\ held[c] = NULL
  /\ held'[c] \notin InUse(mapped, held) \cup deleted \cup {NULL}
  /\ \A d \in Clients \ {c} : held'[d] = held[d]
  /\ mapped'[k] \in {held'[c], NULL}
  /\ MayForget({k})
  /\ DeleteUnused({held'[c]})

Release(c) ==
  /\ held[c] # NULL
  /\ held' = [held EXCEPT ![c] = NULL]
  /\ UNCHANGED mapped
  /\ DeleteUnused({})

Erase(k) ==
  /\ mapped' = [mapped EXCEPT ![k] = NULL]
  /\ UNCHANGED held
  /\ DeleteUnused({})

Prune ==
  /\ MayForget({})
  /\ UNCHANGED held
  /\ DeleteUnused({})

Next ==
  \/ \E c \in Clients, k \in Keys : Lookup(c, k) \/ Insert(c, k)
  \/ \E c \in Clients : Release(c)
  \/ \E k \in Keys : Erase(k)
  \/ Prune

Spec == Init /\ [][Next]_vars

=============================================================================
