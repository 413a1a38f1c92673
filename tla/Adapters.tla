-------------------------------- MODULE Adapters --------------------------------
(***************************************************************************)
(* servers/: the HTTP request an adapter makes of a ScanRequest (trigger), *)
(* and what it leads to at the server.  registry.py gives a server the     *)
(* adapter of its type; a type can be changed, so a request can be carried *)
(* out by an adapter of another type than it was routed for.               *)
(***************************************************************************)
EXTENDS Routing

ServerType == {"plex", "emby", "jellyfin", "audiobookshelf", "webhook"}

WholeLibrary == <<"none">>
NoCall == [library |-> "none", path |-> <<"nothing">>]

\* PlexAdapter: the section, or only the path in targeted mode.
PlexScan(request) == [library |-> request.library, path |-> request.scan]

\* The others have no path targeting: they refresh the whole library, also when the server's
\* mode is targeted (the default of ServerCreate).
Whole(request) == [library |-> request.library, path |-> WholeLibrary]
EmbyRefresh(request) == Whole(request)
JellyfinRefresh(request) == Whole(request)
AudiobookshelfScan(request) == Whole(request)

\* WebhookAdapter: the receiver is told the library and the path to scan.
Delivery(request) == [library |-> request.library, path |-> request.scan]

\* The trigger() of the adapter the registry has for the type.
Call(type, request) == CASE type = "plex"           -> PlexScan(request)
                         [] type = "emby"           -> EmbyRefresh(request)
                         [] type = "jellyfin"       -> JellyfinRefresh(request)
                         [] type = "audiobookshelf" -> AudiobookshelfScan(request)
                         [] type = "webhook"        -> Delivery(request)

\* The call carried out for a request also finds the file of an earlier one: it scans a
\* directory the file is in, or refreshes the earlier request's library or one that holds the
\* folder of its own request, with the file below it.
Finds(call, request, earlier) ==
  \/ call.path = WholeLibrary /\ (\/ call.library = earlier.library
                                  \/ IsPrefix(request.folder, earlier.file))
  \/ call.path[1] = "path" /\ IsPrefix(call.path[2], earlier.file)
=============================================================================
