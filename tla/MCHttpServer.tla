----------------------------- MODULE MCHttpServer -----------------------------
(***************************************************************************)
(* The requests TLC sends: each endpoint's least remarkable request, and   *)
(* those that differ from it in one field.  Durations range over the whole *)
(* word, so that every way the product with Ms can wrap is among them; the *)
(* other numbers over the edges of their columns.                          *)
(***************************************************************************)
EXTENDS HttpServer

Edges == {-WordMax - 1, -1, 0, IntMax, IntMax + 1, WordMax}
Ids == {"uuid", "UUID", "urn", "junk"}

Values ==
    [head |-> BOOLEAN, requestId |-> {"", "mine"},
     id |-> Ids, track |-> Ids, artist |-> Ids, album |-> Ids \cup {""},
     json |-> {"good", "bad"}, title |-> {"", "x", "nul"},
     duration |-> Word, bitrate |-> Edges, fileSize |-> Edges,
     trackNumber |-> Edges, discNumber |-> Edges, date |-> {"", "day", "bad"},
     tracks |-> {Null, <<>>, <<"t">>, <<"T">>, <<"t", "u">>, <<"T", "u">>, <<"t", "t">>,
                 <<"t", "T">>, <<"t", "urn">>, <<"junk">>},
     upload |-> {"audio", "empty", "noAudio", "tooLong", "overCap", "cut"}]

\* The fields that a client of the endpoint fills in.
Fields(e) ==
    CASE e = "CreateArtist" -> {"json", "title"}
      [] e = "CreateTrack" -> {"json", "title", "artist", "album", "duration", "bitrate",
                               "fileSize", "trackNumber", "discNumber"}
      [] e = "CreateAlbum" -> {"json", "title", "artist", "date"}
      [] e = "CreatePlaylist" -> {"json", "title", "tracks"}
      [] e \in {"AddTrackToPlaylist", "RemoveTrackFromPlaylist"} -> {"id", "track"}
      [] e = "UploadTrackFile" -> {"id", "upload"}
      [] e \in Fetches \cup {"StreamTrack"} -> {"id", "head"}
      [] e \in {"Healthz", "Readyz", "noRoute", "wrongMethod"} -> {"head"}
      [] e = "uncleanPath" -> {}
      [] OTHER -> {"id"}

Destinations ==
    Creates \cup Fetches \cup MuxRoutes
      \cup {"DeleteArtist", "DeleteTrack", "DeleteAlbum", "DeletePlaylist", "UploadTrackFile",
            "StreamTrack", "AddTrackToPlaylist", "RemoveTrackFromPlaylist", "Healthz", "Readyz"}

MCInputs ==
    UNION {{[Plain(e) EXCEPT ![f] = v] : v \in Values[f]} :
             <<e, f>> \in {p \in Destinations \X DOMAIN Values :
                             p[2] \in Fields(p[1]) \cup {"requestId"}}}

=============================================================================
