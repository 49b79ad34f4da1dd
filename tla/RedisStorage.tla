---------------------------- MODULE RedisStorage ----------------------------
(***************************************************************************)
(* The tracker's Redis storage (tracker/redis_storage.go), for one torrent,*)
(* command by command: a hash per peer, which lives for thirty minutes, and*)
(* a set of peer IDs, which lives for two hours, both counted from the last*)
(* EXPIRE, whoever sent it and whatever was written since.  Redis runs one *)
(* command at a time, and the commands of a Pipeline (no MULTI) may have   *)
(* those of other clients, and an expiry, between them.                    *)
(***************************************************************************)
EXTENDS Naturals, FiniteSets

CONSTANTS
    Process,        \* peers: a process has one ID and no other
    NumWant,
    NoProcess

VARIABLES
    hash,           \* the peers whose hash "peer:ID" exists
    ttl,            \* those whose hash has a time to live
    old,            \* those whose last_seen is more than thirty minutes ago
    members,        \* the set "torrent:H:peers", a key only if not empty
    setTtl,         \* TRUE when it has a time to live
    cleaning,       \* the peer CleanupExpiredPeers has found to be old
    cleaned         \* TRUE when it has taken it out of the set

RedisInit ==
    /\ hash = {}
    /\ ttl = {}
    /\ old = {}
    /\ members = {}
    /\ setTtl = FALSE
    /\ cleaning = NoProcess
    /\ cleaned = FALSE

RedisTypeOK ==
    /\ hash \subseteq Process
    /\ ttl \subseteq hash
    /\ old \subseteq hash
    /\ members \subseteq Process
    /\ setTtl \in BOOLEAN
    /\ setTtl => members # {}
    /\ cleaning \in Process \cup {NoProcess}
    /\ cleaned \in BOOLEAN

\* What GetPeer finds of an ID in the set.
Listed == members \cap hash

-----------------------------------------------------------------------------
(* Commands. *)

\* HSET of an existing hash leaves its time to live alone, and so does SADD
\* to an existing set; a key they create has none.
HSet(p) ==
    /\ hash' = hash \cup {p}
    /\ old' = old \ {p}
    /\ UNCHANGED <<ttl, members, setTtl, cleaning, cleaned>>

SAdd(p) ==
    /\ members' = members \cup {p}
    /\ UNCHANGED <<hash, ttl, old, setTtl, cleaning, cleaned>>

\* The two EXPIREs at the end of AddPeer; on a missing key one does nothing.
Expire(p) ==
    /\ ttl' = ttl \cup ({p} \cap hash)
    /\ setTtl' = (members # {})
    /\ UNCHANGED <<hash, old, members, cleaning, cleaned>>

DropHash(p) ==
    /\ hash' = hash \ {p}
    /\ ttl' = ttl \ {p}
    /\ old' = old \ {p}

\* The last member takes the key, and with it the time to live.
DropMember(p) ==
    /\ members' = members \ {p}
    /\ setTtl' = (setTtl /\ members' # {})

Del(p) ==
    /\ DropHash(p)
    /\ UNCHANGED <<members, setTtl, cleaning, cleaned>>

SRem(p) ==
    /\ DropMember(p)
    /\ UNCHANGED <<hash, ttl, old, cleaning, cleaned>>

\* One element less than SRANDMEMBER was asked for.
SRandMemberShort ==
    { ids \in SUBSET members :
        \/ ids = members /\ Cardinality(members) < NumWant
        \/ Cardinality(ids) = NumWant - 1 }

\* The possible answers of SRANDMEMBER: live and dead IDs alike.
SRandMember ==
    { ids \in SUBSET members :
        \/ ids = members /\ Cardinality(members) <= NumWant
        \/ Cardinality(ids) = NumWant }

-----------------------------------------------------------------------------
(* Time in Redis: a deadline, that of the last EXPIRE, has come. *)

\* An HSET since then has made last_seen new and left the deadline alone.
HashExpires(p) ==
    /\ p \in ttl
    /\ Del(p)

\* The deadline says nothing of the members that were added since.
SetExpires ==
    /\ setTtl
    /\ members' = {}
    /\ setTtl' = FALSE
    /\ UNCHANGED <<hash, ttl, old, cleaning, cleaned>>

-----------------------------------------------------------------------------
(* CleanupExpiredPeers, a goroutine of its own: last_seen is read, then the*)
(* ID is taken out of every set, then the hash is deleted.                 *)

\* The comparison with the cutoff the wrong way round.
CleanupReadFresh(p) ==
    /\ cleaning = NoProcess
    /\ p \in hash \ old
    /\ cleaning' = p
    /\ UNCHANGED <<hash, ttl, old, members, setTtl, cleaned>>

CleanupRead(p) ==
    /\ cleaning = NoProcess
    /\ p \in old
    /\ cleaning' = p
    /\ UNCHANGED <<hash, ttl, old, members, setTtl, cleaned>>

CleanupSRem ==
    /\ cleaning # NoProcess /\ ~cleaned
    /\ DropMember(cleaning)
    /\ cleaned' = TRUE
    /\ UNCHANGED <<hash, ttl, old, cleaning>>

CleanupDel ==
    /\ cleaned
    /\ DropHash(cleaning)
    /\ cleaning' = NoProcess
    /\ cleaned' = FALSE
    /\ UNCHANGED <<members, setTtl>>

Cleanup ==
    \/ \E p \in Process : CleanupRead(p)
    \/ CleanupSRem
    \/ CleanupDel

=============================================================================
