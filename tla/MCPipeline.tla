------------------------------- MODULE MCPipeline -------------------------------
\* Pipeline for TLC: a Plex server with nested folders of two libraries, a webhook that
\* is not debounced, and a server of a type nobody registered.
EXTENDS Pipeline

Dir(name) == [base |-> "", dot |-> FALSE, ext |-> name]
File(ext) == [base |-> "ep", dot |-> TRUE, ext |-> ext]

TV == <<Dir("tv")>>
Anime == TV \o <<Dir("Anime")>>

IgnoredDirs == {Dir("@eaDir")}
LowerCase == [x \in {"MKV", "mkv", "jpg"} |-> IF x = "MKV" THEN "mkv" ELSE x]

Route(server, folder, library, mode, extensions, types) ==
  [server |-> server, folder |-> folder, library |-> library, mode |-> mode,
   extensions |-> extensions, types |-> types]

Every == {"created", "deleted"}
PlexTV == Route("plex", TV, "shows", "targeted", {"mkv"}, Every)
PlexAnime == Route("plex", Anime, "anime", "targeted", {"mkv"}, Every)
PlexLibrary == Route("plex", TV, "shows", "library", {"mkv"}, {"created"})
HookTV == Route("hook", TV, "none", "targeted", {}, Every)
OtherTV == Route("other", TV, "none", "library", {}, Every)

Types(plex) == [s \in Server |-> IF s = "plex" THEN plex ELSE "webhook"]

Setup(routes, plex, hook, other) ==
  [routes |-> routes,
   policy |-> [s \in Server |-> CASE s = "plex" -> plex [] s = "hook" -> hook [] OTHER -> other],
   type   |-> Types("plex"),
   broken |-> {}]

Nested == Setup(<<PlexTV, PlexAnime>>, "trailing", "gone", "gone")
NowEmby == [Nested EXCEPT !.type = Types("emby")]
Mixed == Setup(<<HookTV, PlexLibrary>>, "trailing", "off", "gone")
NoUrl == [Mixed EXCEPT !.broken = {"hook"}]
WithoutPlex == Setup(<<HookTV, OtherTV>>, "gone", "off", "trailing")
Configs == {Nested, NowEmby, Mixed, NoUrl, WithoutPlex}

Reported(path, type) == [path |-> path, type |-> type]
Episode == Reported(TV \o <<Dir("Show"), File("MKV")>>, "created")
AnimeEpisode == Reported(Anime \o <<Dir("Show"), File("mkv")>>, "created")
LooseFile == Reported(Anime \o <<File("mkv")>>, "deleted")
Thumbnail == Reported(TV \o <<Dir("@eaDir"), File("jpg")>>, "created")
Events == {Episode, AnimeEpisode, LooseFile, Thumbnail}
=============================================================================
