--------------------------- MODULE Configurations ---------------------------
(***************************************************************************)
(* TrackerConfig over its inputs: environments, and command lines that     *)
(* grow by a flag.                                                         *)
(***************************************************************************)
EXTENDS TrackerConfig, Samples

CONSTANTS
  Environs,         \* environments of the tracker
  Flag, MaxFlags,   \* flags of the tracker, and how many are given
  AnyHash           \* info hashes in the tracker's world

\* At most one text for each variable that is not a list.
Environment ==
  { env \in [Variables -> Seq(Texts)] :
      \A name \in Variables \ {"TRACKER_ALLOWED_INFO_HASHES"} : Len(env[name]) <= 1 }

ASSUME InputAssumption == Environs \subseteq Environment /\ Flag \subseteq Texts \X Texts

ConfigInit == \E env \in Environs : sample = [of |-> "config", flags |-> <<>>, env |-> env]

GiveFlag ==
  /\ Is("config") /\ Len(sample.flags) < MaxFlags
  /\ \E f \in Flag : sample' = [sample EXCEPT !.flags = Append(@, f)]

ConfigSpec == ConfigInit /\ [][GiveFlag]_sample

-----------------------------------------------------------------------------
(* What the operator wrote that speaks of an allow list.                   *)

Given(flags, name) == { flags[k][2] : k \in { k \in DOMAIN flags : flags[k][1] = name } }

\* The directory that is in force, if any: the flag given last, or the variable's.
Directory(env, flags) ==
  LET places == { k \in DOMAIN flags : flags[k][1] = "torrent-dir" }
  IN  IF places = {} THEN ToSet(env["TRACKER_TORRENT_DIR"])
      ELSE { flags[k][2] : k \in { k \in places : \A j \in places : j <= k } }

HashesNamed(env, flags) ==
  ToSet(env["TRACKER_ALLOWED_INFO_HASHES"]) \cup Given(flags, "allow-info-hash")

FilesNamed(env, flags) ==
  Given(flags, "allow-torrent")
    \cup UNION { ToSet(TorrentsIn[dir]) : dir \in Directory(env, flags) \ {""} }

\* A variable counts also when a flag takes its directory back.
ListNamed(env, flags) ==
  \/ env["TRACKER_ALLOWED_INFO_HASHES"] # <<>> \/ env["TRACKER_TORRENT_DIR"] # <<>>
  \/ Given(flags, "allow-torrent") # {} \/ Given(flags, "allow-info-hash") # {}
  \/ Directory(env, flags) \ {""} # {}

(***************************************************************************)
(* A tracker that starts serves exactly what its operator named, and fails *)
(* closed.  Once any allow list was named, by a variable or a flag, it     *)
(* serves the info hashes given and those of the files given or in the     *)
(* directory in force, and no others, also when a later flag takes the     *)
(* directory back and nothing is left; without a list it serves all.       *)
(***************************************************************************)
ServesWhatIsNamed(env, flags) ==
  LET config == loadConfig(env, flags)
  IN  config.ok => \A hash \in AnyHash :
        allows(NewServer(config), hash) <=>
          (ListNamed(env, flags) =>
             \/ \E h \in HashesNamed(env, flags) : ParseInfoHash[h] = hash
             \/ \E p \in FilesNamed(env, flags) : MetaInfoAt[p] = hash)

(***************************************************************************)
(* A client that follows the interval of an accepted configuration is not  *)
(* forgotten in between: the interval is a whole number of seconds, one or *)
(* more, and silence is tolerated at least as long as the client's timer   *)
(* makes of it; if the time is not given, three intervals of it, as long   *)
(* as that many fit into a duration.                                       *)
(***************************************************************************)
ClientsOutliveInterval(env, flags) ==
  LET config == loadConfig(env, flags)
      server == NewServer(config)
  IN  config.ok /\ (config.PeerTTL = 0 => 3 * config.AnnounceInterval <= MaxInt64) =>
        /\ server.interval >= Second /\ server.interval % Second = 0
        /\ server.peerTTL >= normalizeTrackerInterval(server.interval)
        /\ config.PeerTTL = 0 => server.peerTTL = 3 * server.interval

(***************************************************************************)
(* A tracker that starts serves what its operator named, and keeps the     *)
(* clients that do as it says.                                             *)
(***************************************************************************)
ConfigurationSound ==
  Is("config") => /\ ServesWhatIsNamed(sample.env, sample.flags)
                  /\ ClientsOutliveInterval(sample.env, sample.flags)
=============================================================================
