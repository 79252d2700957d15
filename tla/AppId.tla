-------------------------------- MODULE AppId --------------------------------
(***************************************************************************)
(* How the compositor finds the Steam app of a window: from the window's   *)
(* process it walks up the process tree until a command line names an app, *)
(* with a cache that is keyed by process and start time and whose entries  *)
(* live for a while (get_appid_from_pid).                                  *)
(*                                                                         *)
(* Processes start, exec and exit while the walk is under way; an exited   *)
(* process's number is used again.  A turn of the walk's loop reads /proc  *)
(* up to four times, each time what then runs under the number: its stat,  *)
(* the start time for the cache's look up, the command line, and the start *)
(* time again for the entry that is added.  Each is a step of its own.     *)
(***************************************************************************)
EXTENDS Integers, Sequences

CONSTANTS
  Pids,        \* process numbers; 1 is the init of the namespace
  Programs,    \* what a process runs: whether it is a reaper, and its arguments
  TTL,         \* APPID_CACHE_TTL_SECS
  MaxStarts,   \* bound: processes started
  MaxExecs,    \* bound: command lines replaced
  Horizon      \* bound: seconds

ASSUME AppIdAssumption ==
  /\ 1 \in Pids /\ Pids \subseteq Nat \ {0}
  /\ Programs \subseteq [reaper : BOOLEAN, cmdline : Seq([kind : STRING, app : Nat])]
  /\ TTL \in Nat /\ MaxStarts \in Nat /\ MaxExecs \in Nat /\ Horizon \in Nat

Shell == [reaper |-> FALSE, cmdline |-> <<>>]
Gone == [start |-> 0, parent |-> 0, program |-> Shell]
Miss == -1

\* What the walk has read of its process, from step to step; "of" and "read" are
\* history: whose command line it read (0 for nobody's), and when.
NoWalk == [at |-> "idle", pid |-> 0, reaper |-> FALSE, parent |-> 0, start |-> 0, app |-> 0, of |-> 0, read |-> 0]

VARIABLES
  proc,     \* the process of each number
  starts, execs, clock,
  cache,    \* APPID_CACHE; with history: when the command line was read, and whether
            \* the number had passed to another process when the entry was added
  walk,     \* NoWalk when no walk is under way
  named     \* history: when the process of a number last named an app

appIdVars == <<proc, starts, execs, clock, cache, walk, named>>

Alive(p) == p \in Pids /\ proc[p].start # 0
AppsNamed == {0} \cup UNION {{g.cmdline[i].app : i \in DOMAIN g.cmdline} : g \in Programs}

-----------------------------------------------------------------------------
(* Command lines.                                                          *)

\* scan_cmdline_for_app_id(): an argument is "SteamLaunch", "AppId=<app>",
\* "--appids=<app>" (its first app that is not 0) or another.
scan_argument(acc, part) ==
  IF acc.done THEN acc
  ELSE IF part.kind = "appids" /\ (part.app # 0 \/ acc.app # 0)
    THEN [acc EXCEPT !.app = IF part.app # 0 THEN part.app ELSE @, !.done = TRUE]
  ELSE IF part.kind = "SteamLaunch" THEN [acc EXCEPT !.steam = TRUE]
  ELSE IF part.kind = "AppId" /\ part.app # 0
    THEN IF acc.steam THEN [acc EXCEPT !.app = part.app, !.done = TRUE]
         ELSE IF acc.app = 0 THEN [acc EXCEPT !.app = part.app] ELSE acc
  ELSE acc

scan_cmdline_for_app_id(cmdline) ==
  LET scanned[n \in 0 .. Len(cmdline)] ==
        IF n = 0 THEN [app |-> 0, steam |-> FALSE, done |-> FALSE]
        ELSE scan_argument(scanned[n - 1], cmdline[n])
  IN scanned[Len(cmdline)].app

\* What a command line names: the first argument that launches an app, and without
\* one the first AppId=.  An --appids= without an app settles for an AppId= before it.
NamedApp(cmdline) ==
  LET plain == {i \in DOMAIN cmdline : cmdline[i].app # 0 /\ cmdline[i].kind = "AppId"}
      launches(i) == cmdline[i].app # 0 /\
        (cmdline[i].kind = "appids" \/
         (cmdline[i].kind = "AppId" /\ \E j \in 1 .. (i - 1) : cmdline[j].kind = "SteamLaunch"))
      settles(i) == cmdline[i].kind = "appids" /\ cmdline[i].app = 0 /\ \E j \in plain : j < i
      ends == {i \in DOMAIN cmdline : launches(i) \/ settles(i)}
      first(S) == cmdline[CHOOSE i \in S : \A j \in S : i <= j].app
  IN IF ends # {} /\ first(ends) # 0 THEN first(ends) ELSE IF plain # {} THEN first(plain) ELSE 0

-----------------------------------------------------------------------------
(* Processes.                                                              *)

AppIdInit ==
  /\ \E parent \in {0, 1} :
       proc = [p \in Pids |-> IF p = 1 THEN [Gone EXCEPT !.start = 1, !.parent = parent] ELSE Gone]
  /\ starts = 1 /\ execs = 0 /\ clock = 0 /\ cache = <<>> /\ walk = NoWalk
  /\ named = [p \in Pids |-> [a \in AppsNamed |-> IF p = 1 /\ a = 0 THEN 0 ELSE -TTL]]

LookupStill == UNCHANGED <<cache, walk>>

Spawn(p, parent) ==
  /\ ~Alive(p) /\ Alive(parent) /\ starts < MaxStarts
  /\ starts' = starts + 1
  /\ \E g \in Programs :
       /\ proc' = [proc EXCEPT ![p] = [start |-> starts + 1, parent |-> parent, program |-> g]]
       /\ named' = [named EXCEPT ![p] = [a \in AppsNamed |-> IF a = NamedApp(g.cmdline) THEN clock ELSE -TTL]]
  /\ UNCHANGED <<execs, clock>> /\ LookupStill

Exec(p) ==
  /\ Alive(p) /\ p # 1 /\ execs < MaxExecs
  /\ execs' = execs + 1
  /\ \E g \in Programs :
       /\ proc' = [proc EXCEPT ![p].program = g]
       /\ named' = [named EXCEPT ![p][NamedApp(g.cmdline)] = clock]
  /\ UNCHANGED <<starts, clock>> /\ LookupStill

Exit(p) ==
  /\ Alive(p) /\ p # 1
  /\ proc' = [q \in Pids |-> IF q = p THEN Gone
                             ELSE IF proc[q].parent = p THEN [proc[q] EXCEPT !.parent = 1] ELSE proc[q]]
  /\ UNCHANGED <<starts, execs, clock, named>> /\ LookupStill

Second ==
  /\ clock < Horizon /\ clock' = clock + 1
  /\ named' = [p \in Pids |-> IF Alive(p) THEN [named[p] EXCEPT ![NamedApp(proc[p].program.cmdline)] = clock + 1] ELSE named[p]]
  /\ UNCHANGED <<proc, starts, execs>> /\ LookupStill

-----------------------------------------------------------------------------
(* The walk.                                                               *)

\* Mutant: the cache is keyed by the number alone.
KeyByPid(p, start) == <<p, 0>>

\* AppIdCacheKey
Key(p, start) == <<p, start>>

\* What cache_get() finds: an entry that has expired is no hit.
cache_get(k) == IF k \in DOMAIN cache /\ clock - cache[k].time < TTL THEN cache[k].app ELSE Miss

\* It is removed.
cache_pruned(k) == IF cache_get(k) = Miss THEN [j \in DOMAIN cache \ {k} |-> cache[j]] ELSE cache

cache_set(k, entry) == [j \in DOMAIN cache \cup {k} |-> IF j = k THEN entry ELSE cache[j]]

ProcessesStill == UNCHANGED <<proc, starts, execs, clock, named>>

\* A turn of the loop begins at a process.
AtStat(p) == [NoWalk EXCEPT !.at = "stat", !.pid = p]

Lookup(p) ==
  /\ walk = NoWalk /\ Alive(p)
  /\ walk' = AtStat(p)
  /\ UNCHANGED cache /\ ProcessesStill

\* The name and the parent in /proc/<pid>/stat.
ReadStat ==
  /\ walk.at = "stat"
  /\ walk' = IF Alive(walk.pid)
             THEN [walk EXCEPT !.at = "start", !.reaper = proc[walk.pid].program.reaper, !.parent = proc[walk.pid].parent]
             ELSE NoWalk
  /\ UNCHANGED cache /\ ProcessesStill

\* Without a hit: the top of the tree and PID 1 end the walk, unless a reaper.
AfterMiss ==
  IF ~walk.reaper /\ (walk.parent = 0 \/ walk.pid = 1) THEN NoWalk
  ELSE [walk EXCEPT !.at = "cmdline", !.start = 0]

\* cache_get() reads the start time; of a process that is gone there is none.
ReadStart ==
  /\ walk.at = "start"
  /\ walk' = IF Alive(walk.pid) THEN [walk EXCEPT !.at = "lookup", !.start = proc[walk.pid].start] ELSE AfterMiss
  /\ UNCHANGED cache /\ ProcessesStill

\* A reaper ends the walk whether it names an app or not.
Onward(app) == IF app # 0 \/ walk.reaper THEN NoWalk ELSE AtStat(walk.parent)

CacheLookup ==
  LET k == Key(walk.pid, walk.start) IN
  /\ walk.at = "lookup"
  /\ cache' = cache_pruned(k)
  /\ walk' = IF cache_get(k) = Miss THEN AfterMiss ELSE Onward(cache_get(k))
  /\ ProcessesStill

\* A command line that cannot be read names no app.
ReadCmdline ==
  /\ walk.at = "cmdline"
  /\ walk' = [walk EXCEPT !.at = "set", !.read = clock,
                !.app = IF Alive(walk.pid) THEN scan_cmdline_for_app_id(proc[walk.pid].program.cmdline) ELSE 0,
                !.of = IF Alive(walk.pid) THEN proc[walk.pid].start ELSE 0]
  /\ UNCHANGED cache /\ ProcessesStill

\* cache_set() reads the start time again; without one nothing is added.
ReadStartAgain ==
  /\ walk.at = "set"
  /\ walk' = IF Alive(walk.pid) THEN [walk EXCEPT !.at = "insert", !.start = proc[walk.pid].start] ELSE Onward(walk.app)
  /\ UNCHANGED cache /\ ProcessesStill

CacheInsert ==
  /\ walk.at = "insert"
  /\ cache' = cache_set(Key(walk.pid, walk.start),
                        [app |-> walk.app, time |-> clock, read |-> walk.read, mixed |-> walk.start # walk.of])
  /\ walk' = Onward(walk.app)
  /\ ProcessesStill

AppIdNext ==
  \/ Second
  \/ ReadStat \/ ReadStart \/ CacheLookup \/ ReadCmdline \/ ReadStartAgain \/ CacheInsert
  \/ \E p \in Pids : Exec(p) \/ Exit(p) \/ Lookup(p) \/ \E q \in Pids : Spawn(p, q)

AppIdSpec == AppIdInit /\ [][AppIdNext]_appIdVars

-----------------------------------------------------------------------------

\* The entry that a look up of a living process finds now.
HitKey(p) == Key(p, proc[p].start)
Hit(p) == Alive(p) /\ cache_get(HitKey(p)) # Miss

\* "keyed on (pid, starttime) to avoid stale hits after PID reuse": a hit of the
\* cache is an app that the process itself has named, not one that had its number
\* before (APPID_CACHE).
HitsOwn == \A p \in Pids : Hit(p) => named[p][cache[HitKey(p)].app] # -TTL

\* Unless the number passed to another process between the read of the command line
\* and cache_set()'s read of the start time, a hit of the cache is an app that this
\* very process, and not one that had its number before, named less than the TTL ago,
\* counted from when its command line was read (cache_get, cache_set,
\* scan_cmdline_for_app_id).
HitsRecent ==
  \A p \in Pids : LET entry == cache[HitKey(p)] IN
    Hit(p) /\ ~entry.mixed => clock - named[p][entry.app] < TTL + (entry.time - entry.read)

=============================================================================
