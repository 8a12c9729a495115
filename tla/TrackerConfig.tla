---------------------------- MODULE TrackerConfig ----------------------------
(***************************************************************************)
(* The tracker's configuration (cmd/tracker/main.go) and what the server   *)
(* makes of it (tracker/server.go): environment, then flags in the order   *)
(* given, then the files they name.                                        *)
(*                                                                         *)
(* A text is a Go string.  env maps variables to texts, cut at commas: a   *)
(* variable that is not set has no text, one that is empty has the text    *)
(* "".  A flag is a pair of its name and its text.                         *)
(***************************************************************************)
EXTENDS Durations, Sequences, SequencesExt

CONSTANTS
  Texts,           \* the strings of the environment, the command line and the file system
  ParseDuration,   \* the durations, from the texts that are one
  ParseInfoHash,   \* the info hashes, from the texts that are one in hexadecimal
  MetaInfoAt,      \* the info hashes of the metainfo files that can be read, by path
  TorrentsIn       \* the sequence of metainfo files in each directory that can be read

ASSUME ParsersAssumption ==
  /\ \A text \in DOMAIN ParseDuration : ParseDuration[text] \in -MaxInt64 - 1 .. MaxInt64
  /\ \A dir \in DOMAIN TorrentsIn : TorrentsIn[dir] \in Seq(Texts)
  /\ { "", ":", "6969" } \subseteq Texts

Variables == { "TRACKER_LISTEN", "PORT", "TRACKER_STATUS_LISTEN", "TRACKER_INTERVAL",
               "TRACKER_PEER_TTL", "TRACKER_ALLOWED_INFO_HASHES", "TRACKER_TORRENT_DIR" }

Rejected == [ok |-> FALSE]

\* The text of a variable, if it is set.
Text(texts, default) == IF texts = <<>> THEN default ELSE texts[1]

Duration(texts, default) == IF texts = <<>> THEN default ELSE ParseDuration[texts[1]]

\* The variables over the defaults; PORT counts only when TRACKER_LISTEN is not set.
ReadEnvironment(env) ==
  IF /\ env["TRACKER_LISTEN"] # <<"">>
     /\ env["TRACKER_LISTEN"] = <<>> => env["PORT"] # <<"">>
     /\ ToSet(env["TRACKER_INTERVAL"]) \subseteq DOMAIN ParseDuration
     /\ ToSet(env["TRACKER_PEER_TTL"]) \subseteq DOMAIN ParseDuration
     /\ "" \notin ToSet(env["TRACKER_ALLOWED_INFO_HASHES"])
     /\ env["TRACKER_TORRENT_DIR"] # <<"">>
    THEN [ok |-> TRUE,
          ListenAddress |-> IF env["TRACKER_LISTEN"] = <<>> THEN <<":", Text(env["PORT"], "6969")>>
                            ELSE env["TRACKER_LISTEN"],
          StatusAddress       |-> Text(env["TRACKER_STATUS_LISTEN"], ""),
          AnnounceInterval    |-> Duration(env["TRACKER_INTERVAL"], 30 * Second),
          PeerTTL             |-> Duration(env["TRACKER_PEER_TTL"], 0),
          allowedTorrentPaths |-> <<>>,
          allowedHashValues   |-> env["TRACKER_ALLOWED_INFO_HASHES"],
          torrentDirectory    |-> Text(env["TRACKER_TORRENT_DIR"], ""),
          allowlistConfigured |-> \/ env["TRACKER_ALLOWED_INFO_HASHES"] # <<>>
                                  \/ env["TRACKER_TORRENT_DIR"] # <<>>]
    ELSE Rejected

\* One flag; anything that is not a flag of the command is an error.
ReadFlag(c, name, text) ==
  CASE name = "listen"        -> [c EXCEPT !.ListenAddress = <<text>>]
    [] name = "status-listen" -> [c EXCEPT !.StatusAddress = text]
    [] name = "interval" /\ text \in DOMAIN ParseDuration ->
         [c EXCEPT !.AnnounceInterval = ParseDuration[text]]
    [] name = "peer-ttl" /\ text \in DOMAIN ParseDuration ->
         [c EXCEPT !.PeerTTL = ParseDuration[text]]
    [] name = "torrent-dir"   -> [c EXCEPT !.torrentDirectory = text]
    [] name = "allow-torrent" /\ text # "" ->
         [c EXCEPT !.allowedTorrentPaths = Append(@, text), !.allowlistConfigured = TRUE]
    [] name = "allow-info-hash" /\ text # "" ->
         [c EXCEPT !.allowedHashValues = Append(@, text), !.allowlistConfigured = TRUE]
    [] OTHER -> Rejected

\* The flags one after the other, up to the first error.
ReadFlags(c, flags) ==
  LET read[k \in 0 .. Len(flags)] ==
        IF k = 0 THEN c
        ELSE IF ~read[k - 1].ok THEN Rejected
        ELSE ReadFlag(read[k - 1], flags[k][1], flags[k][2])
  IN  read[Len(flags)]

\* torrentFiles: a directory without metainfo files is an error.
WithDirectory(c) ==
  IF ~c.ok \/ c.torrentDirectory = "" THEN c
  ELSE IF c.torrentDirectory \notin DOMAIN TorrentsIn THEN Rejected
  ELSE IF TorrentsIn[c.torrentDirectory] = <<>> THEN Rejected
  ELSE [c EXCEPT !.allowlistConfigured = TRUE,
                 !.allowedTorrentPaths = @ \o TorrentsIn[c.torrentDirectory]]

\* resolveAllowedInfoHashes, and nil (no entry) when no list was configured.
AllowList_lenient(c) ==
  IF c.allowedTorrentPaths \o c.allowedHashValues = <<>> THEN <<>>
  ELSE <<{ MetaInfoAt[p] : p \in ToSet(c.allowedTorrentPaths) }
           \cup { ParseInfoHash[h] : h \in ToSet(c.allowedHashValues) }>>

AllowList(c) ==
  IF ~c.allowlistConfigured THEN <<>>
  ELSE <<{ MetaInfoAt[p] : p \in ToSet(c.allowedTorrentPaths) }
           \cup { ParseInfoHash[h] : h \in ToSet(c.allowedHashValues) }>>

Validate_equal(c) ==
  /\ c.AnnounceInterval > 0 /\ c.AnnounceInterval % Second = 0

Validate(c) ==
  /\ c.AnnounceInterval > 0 /\ c.AnnounceInterval % Second = 0
  /\ c.PeerTTL # 0 => c.PeerTTL >= c.AnnounceInterval

loadConfig(env, flags) ==
  LET read == ReadEnvironment(env)
      c    == WithDirectory(ReadFlags(read, flags))
  IN  IF /\ c.ok /\ Validate(c)
         /\ ToSet(c.allowedTorrentPaths) \subseteq DOMAIN MetaInfoAt
         /\ ToSet(c.allowedHashValues) \subseteq DOMAIN ParseInfoHash
        THEN [ok |-> TRUE, ListenAddress |-> c.ListenAddress, StatusAddress |-> c.StatusAddress,
              AnnounceInterval |-> c.AnnounceInterval, PeerTTL |-> c.PeerTTL,
              AllowedInfoHashes |-> AllowList(c)]
        ELSE Rejected

NewServer(config) ==
  [interval |-> config.AnnounceInterval,
   peerTTL  |-> IF config.PeerTTL = 0 THEN Int64(3 * config.AnnounceInterval) ELSE config.PeerTTL,
   allowedInfoHashes |-> config.AllowedInfoHashes]

allows(server, infoHash) ==
  server.allowedInfoHashes # <<>> => infoHash \in server.allowedInfoHashes[1]
=============================================================================
