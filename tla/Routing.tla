--------------------------------- MODULE Routing ---------------------------------
(***************************************************************************)
(* pipeline/router.py and pipeline/filters.py: which scan requests an      *)
(* event leads to under a configuration.                                   *)
(*                                                                         *)
(* A path is the sequence of its segments, <<>> the root directory.  A     *)
(* segment is what name.rpartition(".") yields: [base, dot, ext].          *)
(***************************************************************************)
EXTENDS Naturals, Sequences, SequencesExt

CONSTANTS Ignored,  \* RuntimeConfig.ignore_dirs, as segments
          Lower     \* str.lower() on extensions

IsPath(path) == path \in Seq(Range(path))

\* is_ignored(): any segment counts, also one above the watched folder.
IsIgnored(path) == \E i \in DOMAIN path : path[i] \in Ignored

\* extension_matches(): no dot, or only a leading one, is no extension; no filter
\* matches everything.
ExtensionMatches(path, extensions) ==
  \/ extensions = {}
  \/ /\ path # <<>>
     /\ Last(path).dot /\ Last(path).base # ""
     /\ Lower[Last(path).ext] \in extensions

\* compute_scan_path(): the folder with the first segment below it, when the file is
\* deeper than that.
ScanPath(folder, file) ==
  IF Len(file) >= Len(folder) + 2 THEN SubSeq(file, 1, Len(folder) + 1) ELSE folder

Matches(route, event) ==
  /\ IsPrefix(route.folder, event.path)
  /\ ExtensionMatches(event.path, route.extensions)
  /\ event.type \in route.types

\* Bug variant: the debounce key is the top folder's name alone.
KeyIsTopFolder(route, event) ==
  IF route.mode = "targeted"
  THEN <<"path", IF Len(event.path) >= Len(route.folder) + 2
                 THEN <<event.path[Len(route.folder) + 1]>> ELSE route.folder>>
  ELSE <<"lib", route.library>>

\* scan_key: the path to scan, or the library.
ScanKey(route, event) == IF route.mode = "targeted"
                         THEN <<"path", ScanPath(route.folder, event.path)>>
                         ELSE <<"lib", route.library>>

\* The ScanRequest of a route; scan_path is None (<<"none">>) in library mode.  The folder is
\* not part of it: it tells which route it is of.
Request(route, event) ==
  [server  |-> route.server,
   folder  |-> route.folder,
   library |-> route.library,
   scan    |-> IF route.mode = "targeted" THEN <<"path", ScanPath(route.folder, event.path)>>
                                          ELSE <<"none">>,
   key     |-> ScanKey(route, event),
   file    |-> event.path]

\* route(): one request per matching route, numbered in the order of the routes.
Requests(event, routes) ==
  {[nr |-> i, request |-> Request(routes[i], event)] :
     i \in {i \in DOMAIN routes : ~IsIgnored(event.path) /\ Matches(routes[i], event)}}
=============================================================================
