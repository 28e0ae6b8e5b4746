------------------------------ MODULE AiCache ------------------------------
(***************************************************************************)
(* The cache in front of the AI service: withCache reads through it, and   *)
(* invalidateUser drops a user's answers once enrichment is done.  The     *)
(* context of an answer is put together from several reads that run side   *)
(* by side, each of which sees the records as they are when it runs; as    *)
(* changes only add up, the answer is as old as its first read.  A get, a  *)
(* read, a set or a deletion may fail.                                     *)
(***************************************************************************)
EXTENDS Naturals

CONSTANTS
    Feature,         \* the cached answers of a user
    Dropped,         \* those whose key invalidateUser knows
    Table,           \* the reads of a context: tables, pages of transactions
    Reader,          \* requests that may be in progress at once
    MaxVersion       \* bound: changes of the records

ASSUME AiCacheAssumption ==
    /\ Dropped \subseteq Feature
    /\ Table # {}
    /\ MaxVersion \in Nat

VARIABLES
    version,     \* of the user's records
    cached,      \* the answer under each key
    reader,      \* what each request is doing
    dropping,    \* keys that invalidateUser has yet to delete
    since        \* the version when each key was last deleted

cvars == <<version, cached, reader, dropping, since>>

Version == 0 .. MaxVersion

\* version: what the first read saw; late: the key was deleted after it.
Empty  == [state |-> "empty"]
Filled == [state : {"filled"}, version : Version, late : BOOLEAN]
Resting == [at |-> "idle"]

CacheTypeOK ==
    /\ version \in Version
    /\ cached \in [Feature -> {Empty} \cup Filled]
    /\ reader \in [Reader -> {Resting}
                     \cup [at : {"build", "call", "fill"}, key : Feature,
                           unread : SUBSET Table, version : Version, late : BOOLEAN]]
    /\ dropping \in SUBSET Dropped
    /\ since \in [Feature -> Version]

CacheInit ==
    /\ version = 0
    /\ cached = [f \in Feature |-> Empty]
    /\ reader = [r \in Reader |-> Resting]
    /\ dropping = {}
    /\ since = [f \in Feature |-> 0]

\* A transaction, budget, goal or subscription of the user changes.
Change ==
    /\ version < MaxVersion
    /\ version' = version + 1
    /\ UNCHANGED <<cached, reader, dropping, since>>

\* Some read of the request's context has been made.
HasRead(r) == reader[r] # Resting /\ reader[r].unread # Table

\* A miss, or a get that failed; a hit is answered and changes nothing.
Miss(r, f) ==
    /\ reader[r] = Resting
    /\ reader' = [reader EXCEPT ![r] = [at |-> "build", key |-> f, unread |-> Table,
                                        version |-> version, late |-> FALSE]]
    /\ UNCHANGED <<version, cached, dropping, since>>

\* buildUserContext: the reads of Promise.all, one page after the other for the
\* transactions; the AI service is called when the last one is there.
Build(r, t) ==
    LET request == reader[r]
        unread  == request.unread \ {t}
    IN  /\ request.at = "build"
        /\ t \in request.unread
        /\ reader' = [reader EXCEPT ![r] =
              [at |-> IF unread = {} THEN "call" ELSE "build",
               key |-> request.key, unread |-> unread,
               version |-> IF HasRead(r) THEN request.version ELSE version,
               late |-> request.late]]
        /\ UNCHANGED <<version, cached, dropping, since>>

\* One read that rejects ends the request.
BuildFails(r) ==
    /\ reader[r].at = "build"
    /\ reader' = [reader EXCEPT ![r] = Resting]
    /\ UNCHANGED <<version, cached, dropping, since>>

\* The AI service answers; or it does not, and the request ends with a 503.
Answered(r) ==
    /\ reader[r].at = "call"
    /\ reader' = [reader EXCEPT ![r].at = "fill"]
    /\ UNCHANGED <<version, cached, dropping, since>>

Refused(r) ==
    /\ reader[r].at = "call"
    /\ reader' = [reader EXCEPT ![r] = Resting]
    /\ UNCHANGED <<version, cached, dropping, since>>

Fill(r) ==
    /\ reader[r].at = "fill"
    /\ cached' = [cached EXCEPT ![reader[r].key] =
                    [state |-> "filled", version |-> reader[r].version,
                     late |-> reader[r].late]]
    /\ reader' = [reader EXCEPT ![r] = Resting]
    /\ UNCHANGED <<version, dropping, since>>

FillFails(r) ==
    /\ reader[r].at = "fill"
    /\ reader' = [reader EXCEPT ![r] = Resting]
    /\ UNCHANGED <<version, cached, dropping, since>>

Invalidate ==
    /\ dropping = {}
    /\ dropping' = Dropped
    /\ UNCHANGED <<version, cached, reader, since>>

\* The mutant: the key that is deleted is not the one withCache filled.
DropElsewhere(f) ==
    /\ f \in dropping
    /\ dropping' = dropping \ {f}
    /\ since' = [since EXCEPT ![f] = version]
    /\ reader' = [r \in Reader |-> IF HasRead(r) /\ reader[r].key = f
                                   THEN [reader[r] EXCEPT !.late = TRUE] ELSE reader[r]]
    /\ UNCHANGED <<version, cached>>

Drop(f) ==
    /\ f \in dropping
    /\ dropping' = dropping \ {f}
    /\ cached' = [cached EXCEPT ![f] = Empty]
    /\ since' = [since EXCEPT ![f] = version]
    /\ reader' = [r \in Reader |-> IF HasRead(r) /\ reader[r].key = f
                                   THEN [reader[r] EXCEPT !.late = TRUE] ELSE reader[r]]
    /\ UNCHANGED version

DropFails(f) ==
    /\ f \in dropping
    /\ dropping' = dropping \ {f}
    /\ UNCHANGED <<version, cached, reader, since>>

\* The time to live of the key runs out.
Expire(f) ==
    /\ cached[f] # Empty
    /\ cached' = [cached EXCEPT ![f] = Empty]
    /\ UNCHANGED <<version, reader, dropping, since>>

CacheNext ==
    \/ Change
    \/ Invalidate
    \/ \E f \in Feature : Drop(f) \/ DropFails(f) \/ Expire(f)
    \/ \E r \in Reader :
         \/ \E f \in Feature : Miss(r, f)
         \/ \E t \in Table : Build(r, t)
         \/ BuildFails(r) \/ Answered(r) \/ Refused(r) \/ Fill(r) \/ FillFails(r)

CacheSpec == CacheInit /\ [][CacheNext]_cvars

\* Every read behind an answer in the cache saw the records as they were at the
\* last deletion of its key or later, except where the first read came before
\* that deletion and the answer was filled in after it: withCache does not
\* notice an invalidation while it reads or waits for the AI service.
CacheFresh ==
    \A f \in Feature :
        cached[f] # Empty /\ ~cached[f].late => cached[f].version >= since[f]
=============================================================================
