------------------------------ MODULE MCAppId -------------------------------
(***************************************************************************)
(* App ids of processes, on two numbers: one of PID 1, and one that passes *)
(* from process to process while the walk reads /proc.                     *)
(***************************************************************************)
EXTENDS AppId

\* Processes: a shell, a reaper of Steam's, and one that names two apps.
MCArg(kind, app) == [kind |-> kind, app |-> app]
MCPrograms ==
  {Shell, [reaper |-> TRUE, cmdline |-> <<MCArg("SteamLaunch", 0), MCArg("AppId", 7)>>],
   [reaper |-> FALSE, cmdline |-> <<MCArg("AppId", 5), MCArg("appids", 9)>>]}

\* The scan of a command line finds what the command line names, for every command
\* line of up to four of these arguments (scan_cmdline_for_app_id).
MCArguments == {MCArg(kind, app) : kind \in {"SteamLaunch", "AppId", "appids", "other"}, app \in {0, 5, 7}}
ASSUME MCScans ==
  \A n \in 0 .. 4 : \A line \in [1 .. n -> MCArguments] : scan_cmdline_for_app_id(line) = NamedApp(line)
=============================================================================
