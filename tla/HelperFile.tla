----------------------------- MODULE HelperFile ------------------------------
(***************************************************************************)
(* native/systemdns/helper.go: ensureHelper puts the dex of this core      *)
(* where the helper process loads it from, unless it is there already.     *)
(*                                                                         *)
(* Cores of one home directory run it at once, of the same version or not. *)
(* Any of them may be killed between two calls, any call may fail, and the *)
(* device may lose power, after which the disk holds the directory as it   *)
(* was last written and of a file that was not synced anything.            *)
(***************************************************************************)
EXTENDS FiniteSets

CONSTANTS
    Core,      \* runs of ensureHelper, each in a process of its own
    Payload,   \* the dex each of them embeds
    OldFiles,  \* the files a core of before may have left
    Old,       \* the file there is before any of them runs
    Absent, Link, Dir, Other, Partial

FileType == [content: {Payload[c] : c \in Core} \union {Other, Partial},
             private: BOOLEAN, owned: BOOLEAN, synced: BOOLEAN]

ASSUME FileAssumption ==
    /\ Old \notin Core /\ {Absent, Link, Dir} \intersect (Core \union {Old}) = {}
    /\ Payload \in [Core -> STRING]
    /\ {Other, Partial} \intersect {Payload[c] : c \in Core} = {}
    /\ OldFiles \subseteq FileType

VARIABLES
    file,      \* files by number: that of core c is the one its CreateTemp makes
    path,      \* what system-dns-helper.dex is
    temps,     \* the temporaries in the directory, by their file
    stale,     \* those last written more than a minute ago
    disk,      \* the directory as a power loss leaves it
    run        \* each core in ensureHelper, and its locals

fileVars == <<file, path, temps, stale, disk, run>>

PathType == Core \union {Old, Absent, Link, Dir}
Ended == {"done", "failed", "dead"}

FileTypeOK ==
    /\ file \in [Core \union {Old} -> FileType]
    /\ path \in PathType
    /\ temps \subseteq Core /\ stale \subseteq temps
    /\ disk \in [path: PathType, temps: SUBSET Core]
    /\ run \in [Core -> [at: {"idle", "match", "mode", "glob", "sweep", "create", "write",
                              "chmod", "sync", "rename", "remove"} \union Ended,
                         names: SUBSET Core, found: PathType, ok: BOOLEAN]]

At(place) == [at |-> place, names |-> {}, found |-> Absent, ok |-> FALSE]

NewFile == [content |-> Partial, private |-> FALSE, owned |-> TRUE, synced |-> FALSE]

FileInit ==
    /\ \E old \in OldFiles : file = [f \in Core \union {Old} |-> IF f = Old THEN old ELSE NewFile]
    /\ path \in {Old, Absent, Link, Dir}
    /\ temps = {} /\ stale = {}
    /\ disk = [path |-> path, temps |-> {}]
    /\ run = [c \in Core |-> At("idle")]

Step(c, from, to) == run[c].at = from /\ run' = [run EXCEPT ![c] = At(to)]

\* An error: the deferred calls close the temporary and remove it.
Error(c, from) ==
    /\ Step(c, from, "remove")
    /\ UNCHANGED <<file, path, temps, stale, disk>>

-----------------------------------------------------------------------------

\* MkdirAll, which may fail.
Begin(c) ==
    /\ \/ Step(c, "idle", "match")
       \/ Step(c, "idle", "failed")
    /\ UNCHANGED <<file, path, temps, stale, disk>>

\* Mutant: a file of the same size is taken for the same file.
SamePayloadBySize(f, c) == file[f].owned /\ file[f].content # Partial

\* helperMatches compares owner, size and content of the file it has opened.
SamePayload(f, c) == file[f].owned /\ file[f].content = Payload[c]

Match(c) ==
    /\ \/ /\ path = Dir
          /\ Step(c, "match", "failed")
       \/ /\ path \in {Absent, Link}
          /\ Step(c, "match", "glob")
       \/ /\ path \in Core \union {Old}
          /\ run[c].at = "match"
          /\ LET next == IF ~SamePayload(path, c) THEN "glob"
                         ELSE IF file[path].private THEN "done" ELSE "mode"
             IN  run' = [run EXCEPT ![c] = [At(next) EXCEPT !.found = IF next = "mode" THEN path ELSE Absent]]
    /\ UNCHANGED <<file, path, temps, stale, disk>>

\* The mode of the opened file, whatever the path is by now.
FixMode(c) ==
    /\ \/ /\ Step(c, "mode", "done")
          /\ file' = [file EXCEPT ![run[c].found].private = TRUE]
       \/ Step(c, "mode", "failed") /\ UNCHANGED file
    /\ UNCHANGED <<path, temps, stale, disk>>

(* removeStaleTemporaries: one name after the other.                       *)

Glob(c) ==
    /\ run[c].at = "glob"
    /\ run' = [run EXCEPT ![c].at = "sweep", ![c].names = temps]
    /\ UNCHANGED <<file, path, temps, stale, disk>>

\* Mutant: the age is not looked at.
SweepAll(c, t) ==
    /\ run[c].at = "sweep" /\ t \in run[c].names
    /\ temps' = temps \ {t} /\ stale' = stale \ {t}
    /\ run' = [run EXCEPT ![c].names = @ \ {t}]
    /\ UNCHANGED <<file, path, disk>>

Sweep(c, t) ==
    /\ run[c].at = "sweep" /\ t \in run[c].names
    /\ temps' = IF t \in stale THEN temps \ {t} ELSE temps
    /\ stale' = stale \ {t}
    /\ run' = [run EXCEPT ![c].names = @ \ {t}]
    /\ UNCHANGED <<file, path, disk>>

Swept(c) ==
    /\ run[c].names = {}
    /\ Step(c, "sweep", "create")
    /\ UNCHANGED <<file, path, temps, stale, disk>>

(* The temporary.                                                          *)

CreateTemp(c) ==
    /\ \/ Step(c, "create", "write") /\ temps' = temps \union {c}
       \/ Step(c, "create", "failed") /\ UNCHANGED temps
    /\ UNCHANGED <<file, path, stale, disk>>

Write(c) ==
    \/ /\ Step(c, "write", "chmod")
       /\ file' = [file EXCEPT ![c].content = Payload[c]]
       /\ stale' = stale \ {c}
       /\ UNCHANGED <<path, temps, disk>>
    \/ Error(c, "write")

Chmod(c) ==
    \/ /\ Step(c, "chmod", "sync")
       /\ file' = [file EXCEPT ![c].private = TRUE]
       /\ UNCHANGED <<path, temps, stale, disk>>
    \/ Error(c, "chmod")

\* Mutant: no fsync.
SyncSkipped(c) ==
    /\ Step(c, "sync", "rename")
    /\ UNCHANGED <<file, path, temps, stale, disk>>

\* Sync and Close.
Sync(c) ==
    \/ /\ Step(c, "sync", "rename")
       /\ file' = [file EXCEPT ![c].synced = TRUE]
       /\ UNCHANGED <<path, temps, stale, disk>>
    \/ Error(c, "sync")

\* A temporary another core took for stale is no more.
Rename(c) ==
    \/ /\ c \in temps
       /\ run[c].at = "rename"
       /\ run' = [run EXCEPT ![c].at = "remove", ![c].ok = TRUE]
       /\ path' = c
       /\ temps' = temps \ {c} /\ stale' = stale \ {c}
       /\ UNCHANGED <<file, disk>>
    \/ Error(c, "rename")

\* Mutant: the temporary of a failed call stays.
RemoveOnSuccess(c) ==
    /\ Step(c, "remove", IF run[c].ok THEN "done" ELSE "failed")
    /\ UNCHANGED <<file, path, temps, stale, disk>>

\* The deferred Remove, and the result.
RemoveTemp(c) ==
    /\ Step(c, "remove", IF run[c].ok THEN "done" ELSE "failed")
    /\ temps' = temps \ {c} /\ stale' = stale \ {c}
    /\ UNCHANGED <<file, path, disk>>

-----------------------------------------------------------------------------
(* Time, crashes and the disk.                                             *)

Age(t) ==
    /\ t \in temps \ stale
    /\ stale' = stale \union {t}
    /\ UNCHANGED <<file, path, temps, disk, run>>

Killed(c) ==
    /\ run[c].at \notin Ended \union {"idle"}
    /\ run' = [run EXCEPT ![c] = At("dead")]
    /\ UNCHANGED <<file, path, temps, stale, disk>>

WriteBack ==
    /\ disk' = [path |-> path, temps |-> temps]
    /\ UNCHANGED <<file, path, temps, stale, run>>

PowerLoss ==
    /\ run' = [c \in Core |-> IF run[c].at = "idle" THEN run[c] ELSE At("dead")]
    /\ path' = disk.path /\ temps' = disk.temps
    /\ stale' = stale \intersect disk.temps
    /\ \E torn \in SUBSET {f \in disk.temps \union {disk.path} : f \in Core /\ ~file[f].synced} :
           file' = [f \in Core \union {Old} |->
                       IF f \in torn THEN [file[f] EXCEPT !.content = Partial] ELSE file[f]]
    /\ UNCHANGED disk

FileNext ==
    \/ \E c \in Core :
           \/ Begin(c) \/ Match(c) \/ FixMode(c) \/ Glob(c) \/ Swept(c) \/ CreateTemp(c)
           \/ Write(c) \/ Chmod(c) \/ Sync(c) \/ Rename(c) \/ RemoveTemp(c)
           \/ Age(c) \/ Killed(c)
           \/ \E t \in Core : Sweep(c, t)
    \/ WriteBack \/ PowerLoss

FileSpec == FileInit /\ [][FileNext]_fileVars

-----------------------------------------------------------------------------

(* Whatever fails and whenever power is lost, a dex that a core put at the *)
(* path is complete and private: no helper loads a part of one.            *)
PathComplete ==
    path \in Core => file[path].content = Payload[path] /\ file[path].private

(* A core whose call succeeded finds its own dex at the path, unless a     *)
(* core of another version is at work in the directory too.                *)
ReturnedDex ==
    \A c \in Core :
        /\ run[c].at = "done"
        /\ \A d \in Core : Payload[d] = Payload[c] \/ run[d].at = "idle"
        => /\ path \in Core \union {Old}
           /\ file[path].content = Payload[c] /\ file[path].private /\ file[path].owned

(* A call that returned, with the path or an error, has left no temporary. *)
NoLeftovers ==
    \A c \in Core : run[c].at \in {"done", "failed"} => c \notin temps

(* No core takes the temporary from under another that is still writing    *)
(* it, unless that one was stopped for a minute.                           *)
WritersUndisturbed ==
    [][\A c \in Core : c \in temps \ stale /\ c \notin temps' => run'[c].at \in Ended \union {"remove"}]_fileVars
=============================================================================
