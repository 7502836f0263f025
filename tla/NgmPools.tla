------------------------------ MODULE NgmPools ------------------------------
(***************************************************************************)
(* The php-fpm pools ngm keeps for PHP sites: the pool files it writes,    *)
(* one directory per PHP version, and what the php-fpm of each version has *)
(* loaded of them.  Source: internal/fpm.  The operations are steps of the *)
(* requests of NgmHost.                                                    *)
(*                                                                         *)
(* Abstractions.                                                           *)
(*  - The text of a pool file is the site it was rendered for: it holds    *)
(*    that site's user, paths and limits.  A pool also changes when these  *)
(*    do; that is as when another site of its key is rendered.  The socket *)
(*    is not part of it: it follows from the version and the key.          *)
(*  - A PHP site has a known version and a webroot under the home root:    *)
(*    NgmApply has the settings buildTemplateData refuses.                 *)
(*  - php-fpm accepts every pool file ngm renders.                         *)
(***************************************************************************)
EXTENDS NgmDomains

CONSTANTS
    Versions,    \* the PHP versions of config.phpfpm.versions
    KeyOf,       \* the key makeKey makes of each name
    NoPool,      \* no pool file
    PoolFaults   \* which of "write" (of a pool file) and "reload" can fail

Keys == {KeyOf[d] : d \in Domains}

ASSUME PoolsAssumption ==
    /\ NoPool \notin Domains
    /\ PoolFaults \subseteq {"write", "reload"}

VARIABLES
    pools,  \* the pool file of each version and key
    fpm,    \* the pool the php-fpm of the version runs for the key
    missed  \* history: versions whose last reload failed before it was done

poolVars == <<pools, fpm, missed>>

PoolMap == [Versions -> [Keys -> Domains \cup {NoPool}]]

PoolsTypeOK ==
    /\ pools \in PoolMap
    /\ fpm \in PoolMap
    /\ missed \subseteq Versions

PoolsInit ==
    /\ pools = [v \in Versions |-> [k \in Keys |-> NoPool]]
    /\ fpm = pools
    /\ missed = {}

\* makeKey maps . and - to _, so names that differ in them alone share a key.
makeKey(d) == KeyOf[d]

\* There is a php-fpm listening on SocketPath(d, v).
Listens(d, v) == fpm[v][makeKey(d)] # NoPool

\* systemctl reload: php-fpm reads all the pool files of its version.  An error
\* does not tell whether it did: the command may have been killed after 15 s.
ReloadService(v, ok) ==
    \/ /\ fpm' = [fpm EXCEPT ![v] = pools'[v]]
       /\ missed' = missed \ {v}
       /\ ok \/ "reload" \in PoolFaults
    \/ /\ ~ok /\ "reload" \in PoolFaults
       /\ missed' = missed \cup {v}
       /\ UNCHANGED fpm

\* A bug: the pool the site had under another version is removed at once.
EnsurePool_moves(d, v, ok) ==
    LET k == makeKey(d)
        moved == [u \in Versions |->
                    [pools[u] EXCEPT ![k] = IF u = v THEN d ELSE NoPool]] IN
    /\ ok
    /\ pools' = moved /\ fpm' = moved /\ missed' = {}

\* A bug: the version is rendered where the site should be.
EnsurePool_swapped(d, v, ok) ==
    /\ pools' = [pools EXCEPT ![v][makeKey(d)] = v]
    /\ ReloadService(v, ok)

\* EnsurePool: an equal file is taken for a loaded one.  Pools the site had
\* under other versions stay: a vhost that is rolled back still has its socket.
EnsurePool(d, v, ok) ==
    LET k == makeKey(d) IN
    \/ /\ ok /\ pools[v][k] = d
       /\ UNCHANGED <<pools, fpm, missed>>
    \/ /\ pools[v][k] # d
       /\ pools' = [pools EXCEPT ![v][k] = d]
       /\ ReloadService(v, ok)
    \/ /\ ~ok /\ pools[v][k] # d /\ "write" \in PoolFaults
       /\ UNCHANGED <<pools, fpm, missed>>

\* php-fpm is restarted, at boot or by hand, and reads the files.
RestartFpm(v) ==
    /\ fpm' = [fpm EXCEPT ![v] = pools[v]]
    /\ missed' = missed \ {v}
    /\ UNCHANGED pools

=============================================================================
