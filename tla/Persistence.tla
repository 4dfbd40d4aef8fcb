---------------------------- MODULE Persistence ----------------------------
(***************************************************************************)
(* The persistence loop of internal/scoreboard/persist.go: a snapshot on   *)
(* every tick and one more when the context ends, each through a temporary *)
(* file, fsync, rename and a directory fsync, on a disk that may lose what *)
(* was not synced.                                                         *)
(*                                                                         *)
(* Of the scoreboard only how much it has learnt matters here: `memory' is *)
(* the number of outcomes recorded, a snapshot the number it covers, and a *)
(* missing file is the snapshot of nothing.  What Prune, the first step of *)
(* each flush, drops is Scoreboard's.                                      *)
(***************************************************************************)
EXTENDS Naturals

CONSTANT Torn   \* the contents of a file whose data never reached the disk

ASSUME TornAssumption == Torn \notin Nat

VARIABLES
    memory,    \* outcomes the scoreboard holds
    stopping,  \* gctx is done
    loop,      \* where PersistenceLoop is and, in flushOnce, why
    held,      \* the snapshot SaveSnapshot is writing
    path,      \* what a reader of persist_path finds
    durable,   \* what one may find there after a power loss
    \* History, read by no action:
    saved,     \* the last snapshot whose SaveSnapshot returned nil, unless a
               \* start has refused it since
    atStop     \* memory when the context ended

disk_vars == <<path, durable>>
loop_vars == <<loop, held, saved>>
persist_vars == <<memory, stopping, atStop, loop_vars, disk_vars>>

Waiting == [at |-> "waiting", final |-> FALSE, flushed |-> FALSE]
Finished == [at |-> "done", final |-> FALSE, flushed |-> FALSE]

----------------------------------------------------------------------------

\* A request's outcome reaches the scoreboard.
Record == memory' = memory + 1

\* SaveSnapshot up to the gob: a copy taken under the read lock goes to a
\* temporary file.
Build(final) ==
    /\ loop.at = "waiting"
    /\ loop' = [at |-> "written", final |-> final, flushed |-> FALSE]
    /\ held' = memory
    /\ UNCHANGED <<memory, stopping, atStop, saved, disk_vars>>

\* The ticker, which select may prefer to a context that is done.
TickFlush == Build(FALSE)

ShutdownFlush == stopping /\ Build(TRUE)

\* Defect: the temporary file is closed without an fsync.
SyncTempSkipped ==
    /\ loop.at = "written"
    /\ loop' = [loop EXCEPT !.at = "synced"]
    /\ UNCHANGED <<memory, stopping, atStop, held, saved, disk_vars>>

SyncTemp ==
    /\ loop.at = "written"
    /\ loop' = [loop EXCEPT !.at = "synced", !.flushed = TRUE]
    /\ UNCHANGED <<memory, stopping, atStop, held, saved, disk_vars>>

\* The new name is visible at once; until the directory is synced a power
\* loss may undo it, and one without its data would name a torn file.
Rename ==
    /\ loop.at = "synced"
    /\ loop' = [loop EXCEPT !.at = "renamed"]
    /\ path' = held
    /\ durable' = durable \cup {IF loop.flushed THEN held ELSE Torn}
    /\ UNCHANGED <<memory, stopping, atStop, held, saved>>

\* Defect: a flush under way when the context ends counts as the last one.
FlushedAny == loop' = IF stopping THEN Finished ELSE Waiting

\* The end of flushOnce: back to select, or out of Run.
Flushed == loop' = IF loop.final THEN Finished ELSE Waiting

\* Defect: success is reported without syncing the directory.
SyncDirSkipped ==
    /\ loop.at = "renamed"
    /\ saved' = held
    /\ Flushed
    /\ UNCHANGED <<memory, stopping, atStop, held, disk_vars>>

SyncDir ==
    /\ loop.at = "renamed"
    /\ durable' = {path}
    /\ saved' = held
    /\ Flushed
    /\ UNCHANGED <<memory, stopping, atStop, held, path>>

\* An error of any of these: the temporary file is removed if it still has
\* its name, and the loop goes on.
SaveFails ==
    /\ loop.at \in {"written", "synced", "renamed"}
    /\ Flushed
    /\ UNCHANGED <<memory, stopping, atStop, held, saved, disk_vars>>

\* LoadSnapshot reads the file at startup...
Loads ==
    /\ path' # Torn
    /\ memory' = path'
    /\ saved' = saved

\* ...or refuses it, torn or whole (an I/O error, another version): main logs
\* that and starts empty, and the next flush overwrites what the file held.
Refuses ==
    /\ memory' = 0
    /\ saved' = IF path' = Torn THEN saved ELSE 0

Load == Loads \/ Refuses

PersistInit ==
    /\ memory = 0 /\ stopping = FALSE /\ atStop = 0
    /\ loop = Waiting /\ held = 0 /\ saved = 0
    /\ path = 0 /\ durable = {0}

Save == SyncTemp \/ Rename \/ SyncDir \/ SaveFails

Persist == TickFlush \/ ShutdownFlush \/ Save

----------------------------------------------------------------------------
(* Properties *)

PersistTypeOK ==
    /\ {memory, held, saved, atStop} \subseteq Nat
    /\ stopping \in BOOLEAN
    /\ loop \in [at : {"waiting", "written", "synced", "renamed", "done"},
                 final : BOOLEAN, flushed : BOOLEAN]
    /\ path \in Nat \cup {Torn} /\ durable \subseteq Nat \cup {Torn}
    /\ path \in durable

\* "Atomic write ... so a crash mid-write cannot leave the path holding a
\* half-written file", and the directory fsync keeps a power loss from
\* reverting it (persist.go): whenever the machine stops, the file it finds
\* is whole and no older than the last save that reported success, or than
\* what the scoreboard has started from since a start refused that file.
SavedStateSurvives ==
    \A found \in durable \cup {path} : found # Torn /\ found >= saved

\* "ctx cancellation ... one final flush so a graceful shutdown does not lose
\* the last few seconds of scoreboard activity" (PersistenceLoop): a loop that
\* has ended with a successful save has written all that was recorded when
\* the context ended, even if a tick's flush was under way then.
LastFlushCoversActivity ==
    loop.at = "done" /\ saved = held => path >= atStop

=============================================================================
