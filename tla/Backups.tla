--------------------------------- MODULE Backups --------------------------------
(***************************************************************************)
(* Copies of the database: the cycle of the backup service, which encrypts *)
(* and copies offsite, or the snapshot the scheduler takes, which does not.*)
(* A copy is the set of files with one stamp.  Both prune by age, and each *)
(* prune sees what earlier ones have left.                                 *)
(*                                                                         *)
(* Time is counted in cycles.  A process may be killed between two steps,  *)
(* and the next cycle starts without looking at what is left of the last.  *)
(***************************************************************************)
EXTENDS Integers, FiniteSets

CONSTANTS
    PerDay,     \* cycles in a day
    PerWeek,    \* days in a week
    KeepAll,    \* cycles for which every copy is kept,
    KeepDaily,  \* then one of each day,
    KeepWeekly, \* then one of each week
    Horizon,    \* bound: cycles
    MaxKilled,   \* bound: cycles that are killed
    MaxMisses   \* bound: steps that go wrong

ASSUME BackupsAssumption ==
    /\ {PerDay, PerWeek} \subseteq Nat \ {0}
    /\ {KeepAll, KeepDaily, KeepWeekly, Horizon, MaxKilled, MaxMisses} \subseteq Nat
    /\ KeepAll <= KeepDaily /\ KeepDaily <= KeepWeekly

VARIABLES
    job,      \* "service" or "snapshot"
    now,      \* the cycle, which is the stamp of what it makes
    step,     \* where it is
    files,    \* local files: stamp and kind
    offsite,  \* files at the remote
    made,     \* history: copies that were complete
    killed,   \* history: cycles that were killed before theirs was
    misses    \* history: steps that went wrong

kvars == <<job, now, step, files, offsite, made, killed, misses>>

CycleDay(t)  == t \div PerDay
Week(t) == CycleDay(t) \div PerWeek

Stamps   == {f[1] : f \in files}
Needed   == IF job = "service" THEN {"age", "sha256"} ELSE {"dump", "sha256"}
Complete == {t \in Stamps : {t} \X Needed \subseteq files}

-----------------------------------------------------------------------------
(* A cycle *)

StepsTo(next)  == step' = next /\ UNCHANGED <<job, now>>
Moves(next) == StepsTo(next) /\ UNCHANGED misses

\* A step goes wrong.
Misses == misses < MaxMisses /\ misses' = misses + 1

Dump ==
    /\ step = "start"
    /\ files' = files \cup {<<now, "dump">>}
    /\ Moves("checksum")
    /\ UNCHANGED <<offsite, made, killed>>

\* The checksum of the plain dump; it completes a snapshot.
Checksum ==
    /\ step = "checksum"
    /\ files' = files \cup {<<now, "sha256">>}
    /\ made' = IF job = "snapshot" THEN made \cup {now} ELSE made
    /\ Moves(IF job = "service" THEN "encrypt" ELSE "prune")
    /\ UNCHANGED <<offsite, killed>>

Encrypt ==
    /\ step = "encrypt"
    /\ files' = (files \ {<<now, "dump">>}) \cup {<<now, "age">>}
    /\ made' = made \cup {now}
    /\ Moves("sync")
    /\ UNCHANGED <<offsite, killed>>

DumpStays == {<<now, "age">>, <<now, "sha256">>}                    \* mutant

Leftovers == {now} \X {"dump", "age", "sha256"}

\* A step of the service fails: what it has written goes, and the cycle ends.
Fails ==
    /\ step \in {"start", "checksum", "encrypt"}
    /\ job = "snapshot" => step = "start"
    /\ Misses
    /\ files' = files \ Leftovers
    /\ StepsTo("end")
    /\ UNCHANGED <<offsite, made, killed>>

\* rclone sync makes the remote what the directory is, without plain dumps; a
\* failure is reported and the cycle goes on.
Sync ==
    /\ step = "sync"
    /\ StepsTo("prune")
    /\ \/ offsite' = {f \in files : f[2] # "dump"} /\ UNCHANGED misses
       \/ Misses /\ UNCHANGED offsite
    /\ UNCHANGED <<files, made, killed>>

-----------------------------------------------------------------------------
(* Retention *)

EarlierOf(S, t) == {u \in S : u < t}                                \* mutant

\* Newest first: what is later in the same bucket stands for it.
StandIns(S, t) == {u \in S : u > t}

Tier(t) ==
    IF now - t <= KeepAll THEN "all"
    ELSE IF now - t <= KeepDaily THEN "daily"
    ELSE IF now - t <= KeepWeekly THEN "weekly" ELSE "none"

InTier(tier) == {t \in Stamps : Tier(t) = tier}

Retained ==
    InTier("all")
    \cup {t \in InTier("daily") :
            \A u \in StandIns(InTier("daily"), t) : CycleDay(u) # CycleDay(t)}
    \cup {t \in InTier("weekly") :
            \A u \in StandIns(InTier("weekly"), t) : Week(u) # Week(t)}

Prune ==
    /\ step = "prune"
    /\ StepsTo("end")
    /\ \/ files' = {f \in files : f[1] \in Retained} /\ UNCHANGED misses
       \/ Misses /\ UNCHANGED files
    /\ UNCHANGED <<offsite, made, killed>>

-----------------------------------------------------------------------------
\* Killed, by a restart of the host or the container.
KillCycle ==
    /\ step \in {"checksum", "encrypt", "sync", "prune"}
    /\ Cardinality(killed) < MaxKilled
    /\ killed' = killed \cup {now}
    /\ step' = "end"
    /\ UNCHANGED <<job, now, files, offsite, made, misses>>

Sleep ==
    /\ step = "end" /\ now < Horizon
    /\ now' = now + 1
    /\ step' = "start"
    /\ UNCHANGED <<job, files, offsite, made, killed, misses>>

KInit ==
    /\ job \in {"service", "snapshot"}
    /\ now = 0 /\ step = "start"
    /\ files = {} /\ offsite = {} /\ made = {} /\ killed = {} /\ misses = 0

KNext ==
    \/ Dump \/ Checksum \/ Encrypt \/ Fails \/ Sync \/ Prune
    \/ KillCycle
    \/ Sleep

KSpec == KInit /\ [][KNext]_kvars

-----------------------------------------------------------------------------
(* Properties *)

\* Stands for t: a copy of the same day or week, not older than t.  It is whole,
\* or the cycle that made it was killed: retention goes by the name of a file.
StandsFor(u, t) == u >= t /\ (u \in Complete \/ u \in killed)

\* However often prunes follow each other, every day has a copy as long as days
\* are kept, at least as new as any that was made on it, and then every week.
NothingIsUncovered ==
    \A t \in made :
        /\ now - t <= KeepAll   => t \in Complete
        /\ now - t <= KeepDaily => \E u \in Stamps : CycleDay(u) = CycleDay(t) /\ StandsFor(u, t)
        /\ now - t <= KeepWeekly => \E u \in Stamps : Week(u) = Week(t) /\ StandsFor(u, t)

\* A plain dump of the service is on the disk while its cycle runs, or after the
\* cycle was killed; never at the remote, and never because a step has failed.
PlainIsTransient ==
    job = "service" =>
        /\ \A f \in files : f[2] = "dump" => f[1] \in killed \/ (f[1] = now /\ step # "end")
        /\ \A f \in offsite : f[2] # "dump"

\* What is kept is enough, and never plain.
CopiesKept == NothingIsUncovered /\ PlainIsTransient
=============================================================================
