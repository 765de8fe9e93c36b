------------------------------- MODULE BaseCache -------------------------------
(***************************************************************************)
(* The command that decompresses a WinSxS manifest and its cache of base   *)
(* manifests (main.rs, with winsxs.rs).  A base belongs to a build of      *)
(* Windows; it comes from a file, from a wcp.dll, or, when neither is      *)
(* named, from the cache if that holds exactly one, or else from the       *)
(* system's wcp.dll.  A base extracted is cached under a name that is a    *)
(* hash of it.                                                             *)
(*                                                                         *)
(* Processes share the cache without a lock, and writing a file is three   *)
(* steps: it is created empty, filled, and done.  A process may be killed  *)
(* at any of them, and the disk may fill up.  A delta of a manifest holds  *)
(* no hash: decoded with the wrong base it gives something else.           *)
(***************************************************************************)
EXTENDS Integers, FiniteSets

CONSTANTS
  Procs,      (* the processes                                             *)
  Builds,     (* the builds of Windows whose bases there are               *)
  MaxRuns     (* bound: the commands run in all                            *)

VARIABLES
  system,     (* the build of the system's wcp.dll, or NoBuild             *)
  cacheFile,  (* of each build's base: "absent", "part" or "whole"         *)
  cachePc,    (* of each process: what it does next                        *)
  manifest,   (* of each process: the build its manifest is of             *)
  source,     (* of each process: --base, --wcp-dll or neither             *)
  dll,        (* of each process: the build it extracts the base of        *)
  listed,     (* of each process: the cached bases it saw                  *)
  baseUsed,   (* of each process: the base it has, and whether all of it   *)
  cut,        (* the builds the write of whose base was cut                *)
  torn,       (* the processes that read a file another was writing        *)
  runs        (* the commands run                                          *)

cacheVars ==
  <<system, cacheFile, cachePc, manifest, source, dll, listed, baseUsed, cut, torn, runs>>

NoBuild == "none"
NoBase  == [build |-> NoBuild, whole |-> FALSE]

CacheInit ==
  /\ system \in Builds \cup {NoBuild}
  /\ cacheFile = [b \in Builds |-> "absent"]
  /\ cachePc = [p \in Procs |-> "idle"]
  /\ manifest = [p \in Procs |-> NoBuild]
  /\ source = [p \in Procs |-> "none"]
  /\ dll = [p \in Procs |-> NoBuild]
  /\ listed = [p \in Procs |-> {}]
  /\ baseUsed = [p \in Procs |-> NoBase]
  /\ cut = {} /\ torn = {} /\ runs = 0

Goes(p, to) == cachePc' = [cachePc EXCEPT ![p] = to]

\* cmd_decompress, and the first two choices of resolve_base.  What --base names is
\* read, whole, before anything else is done.
RunCommand(p) ==
  /\ cachePc[p] = "idle" /\ runs < MaxRuns
  /\ runs' = runs + 1
  /\ \E b \in Builds, how \in {"base", "dll", "cache", "no cache"}, of \in Builds :
       /\ manifest' = [manifest EXCEPT ![p] = b]
       /\ source' = [source EXCEPT ![p] = how]
       /\ dll' = [dll EXCEPT ![p] = IF how = "dll" THEN of ELSE NoBuild]
       /\ baseUsed' = [baseUsed EXCEPT ![p] =
            IF how = "base" THEN [build |-> of, whole |-> TRUE] ELSE NoBase]
       /\ Goes(p, CASE how = "base" -> "decode" [] how = "dll" -> "extract"
                    [] how = "cache" -> "list"  [] how = "no cache" -> "locate")
  /\ listed' = [listed EXCEPT ![p] = {}]
  /\ torn' = torn \ {p}
  /\ UNCHANGED <<system, cacheFile, cut>>

\* cached_bases: one is used, several are refused.
Cached == {b \in Builds : cacheFile[b] # "absent"}
\* A mistake: one of several cached bases is used.
ListCacheAny(p) ==
  /\ cachePc[p] = "list"
  /\ listed' = [listed EXCEPT ![p] = Cached]
  /\ Goes(p, IF Cached # {} THEN "read" ELSE "locate")
  /\ UNCHANGED <<system, cacheFile, manifest, source, dll, baseUsed, cut, torn, runs>>

ListCache(p) ==
  /\ cachePc[p] = "list"
  /\ listed' = [listed EXCEPT ![p] = Cached]
  /\ Goes(p, IF Cardinality(Cached) = 1 THEN "read"
             ELSE IF Cached = {} THEN "locate" ELSE "refused")
  /\ UNCHANGED <<system, cacheFile, manifest, source, dll, baseUsed, cut, torn, runs>>

\* The file may be longer or shorter by now than when it was listed.
Writing(b) == \E q \in Procs : cachePc[q] \in {"fill"} /\ dll[q] = b
ReadCached(p) ==
  /\ cachePc[p] = "read"
  /\ \E b \in listed[p] :
       /\ baseUsed' = [baseUsed EXCEPT ![p] = [build |-> b, whole |-> cacheFile[b] = "whole"]]
       /\ torn' = IF Writing(b) THEN torn \cup {p} ELSE torn
  /\ Goes(p, "decode")
  /\ UNCHANGED <<system, cacheFile, manifest, source, dll, listed, cut, runs>>

\* locate_wcp.
Locate(p) ==
  /\ cachePc[p] = "locate"
  /\ dll' = [dll EXCEPT ![p] = system]
  /\ Goes(p, IF system = NoBuild THEN "refused" ELSE "extract")
  /\ UNCHANGED <<system, cacheFile, manifest, source, listed, baseUsed, cut, torn, runs>>

\* extract_and_cache: a base that is in the cache is not written again.
Extract(p) ==
  /\ cachePc[p] = "extract"
  /\ baseUsed' = [baseUsed EXCEPT ![p] = [build |-> dll[p], whole |-> TRUE]]
  /\ Goes(p, IF cacheFile[dll[p]] # "absent" THEN "decode" ELSE "create")
  /\ UNCHANGED <<system, cacheFile, manifest, source, dll, listed, cut, torn, runs>>

\* write_cache: the file is created, or emptied if it has come to be.
CreateFile(p) ==
  /\ cachePc[p] = "create"
  /\ cacheFile' = [cacheFile EXCEPT ![dll[p]] = "part"]
  /\ Goes(p, "fill")
  /\ UNCHANGED <<system, manifest, source, dll, listed, baseUsed, cut, torn, runs>>

\* That the file could not be created is a warning.
CannotCreate(p) ==
  /\ cachePc[p] = "create"
  /\ Goes(p, "decode")
  /\ UNCHANGED <<system, cacheFile, manifest, source, dll, listed, baseUsed, cut, torn, runs>>

FillFile(p) ==
  /\ cachePc[p] = "fill"
  /\ cacheFile' = [cacheFile EXCEPT ![dll[p]] = "whole"]
  /\ Goes(p, "decode")
  /\ UNCHANGED <<system, manifest, source, dll, listed, baseUsed, cut, torn, runs>>

\* So is that it could not be filled: what is there of it stays.
CannotFill(p) ==
  /\ cachePc[p] = "fill"
  /\ cut' = cut \cup {dll[p]}
  /\ Goes(p, "decode")
  /\ UNCHANGED <<system, cacheFile, manifest, source, dll, listed, baseUsed, torn, runs>>

\* The manifests are decoded with the base; another command may follow.
Decode(p) ==
  /\ cachePc[p] \in {"decode", "refused"}
  /\ Goes(p, "idle")
  /\ UNCHANGED <<system, cacheFile, manifest, source, dll, listed, baseUsed, cut, torn, runs>>

\* The process is killed.
Killed(p) ==
  /\ cachePc[p] \notin {"idle"}
  /\ cut' = IF cachePc[p] = "fill" THEN cut \cup {dll[p]} ELSE cut
  /\ Goes(p, "idle")
  /\ UNCHANGED <<system, cacheFile, manifest, source, dll, listed, baseUsed, torn, runs>>

CacheNext ==
  \E p \in Procs :
    \/ RunCommand(p) \/ ListCache(p) \/ ReadCached(p) \/ Locate(p) \/ Extract(p)
    \/ CreateFile(p) \/ CannotCreate(p) \/ FillFile(p) \/ CannotFill(p)
    \/ Decode(p) \/ Killed(p)

CacheSpec == CacheInit /\ [][CacheNext]_cacheVars

-----------------------------------------------------------------------------
\* A manifest is decoded with the whole base of its build unless the base was given, or
\* the cache held but another, or the system has another, or the base was cached in part:
\* its write had been cut, or was under way as it was read (resolve_base).
Excused(p) ==
  \/ source[p] \in {"base", "dll"}
  \/ source[p] = "cache" /\ listed[p] # {}
       /\ \/ listed[p] # {manifest[p]}
          \/ manifest[p] \in cut
          \/ p \in torn
  \/ (source[p] = "no cache" \/ listed[p] = {}) /\ system # manifest[p]

ManifestsGetTheirBase ==
  \A p \in Procs : cachePc[p] = "decode" =>
    /\ baseUsed[p] = [build |-> manifest[p], whole |-> TRUE] \/ Excused(p)
    /\ source[p] # "cache" \/ listed[p] = {} => baseUsed[p].whole
    /\ source[p] = "cache" => Cardinality(listed[p]) < 2

\* A cached file that no process is writing holds what its name is the hash of: main.rs
\* says the file is "keyed by a short hash of its content" (cache_path).
CachedIsItsContent ==
  \A b \in Builds : cacheFile[b] = "part" => Writing(b)

=============================================================================
