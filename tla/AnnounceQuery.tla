--------------------------- MODULE AnnounceQuery ---------------------------
(***************************************************************************)
(* The query of an announce, as torrents make it and trackers read it, and *)
(* the number of seconds that comes back (tracker/announce.go).            *)
(*                                                                         *)
(* A query is a function from keys to values, which are sequences of       *)
(* bytes; a byte is a string that may stand for a whole word.  Durations   *)
(* are integers that wrap around like an int64.                            *)
(***************************************************************************)
EXTENDS Durations, Decimal

CONSTANTS
  IDBytes,          \* the length of info hashes and peer ids
  PortValues        \* 2^16 in the code

\* A port is a number of a query, and an id is not empty.
ASSUME QueryAssumption ==
  IDBytes \in Nat \ {0} /\ PortValues \in Nat /\ PortValues <= 2 * MaxInt64 + 2

Events == { <<>>, <<"started">>, <<"completed">>, <<"stopped">> }

Get(query, key) == IF key \in DOMAIN query THEN query[key] ELSE <<>>

\* The parameters that an announce sets; an empty event is not passed on.
Parameters(request) ==
  [info_hash |-> request.InfoHash, peer_id |-> request.PeerID, port |-> FormatUint(request.Port),
   uploaded |-> FormatUint(request.Uploaded), downloaded |-> FormatUint(request.Downloaded),
   left |-> FormatUint(request.Left), compact |-> IF request.Compact THEN <<"1">> ELSE <<"0">>,
   event |-> request.Event]

buildAnnounceUrl_kept(base, request) ==
  LET set == Parameters(request)
  IN  [key \in DOMAIN set \cup DOMAIN base |->
         IF key \in DOMAIN set /\ set[key] # <<>> THEN set[key] ELSE Get(base, key)]

\* The announce URL's own parameters stay, but for the ones that are set.
buildAnnounceUrl(base, request) ==
  LET set == Parameters(request)
  IN  [key \in { k \in DOMAIN set \cup DOMAIN base : k = "event" => request.Event # <<>> } |->
         IF key \in DOMAIN set THEN set[key] ELSE base[key]]

parseUint64Query(query, key) ==
  LET value == Get(query, key)
  IN  IF value = <<>> \/ ~AllDigits(value) \/ ParseUint(value) > 2 * MaxInt64 + 1 THEN Failed
      ELSE [ok |-> TRUE, n |-> ParseUint(value)]

\* A number of more than 16 bits is cut off, not refused.
parseUint16Query(query, key) ==
  LET value == parseUint64Query(query, key)
  IN  IF value.ok THEN [ok |-> TRUE, n |-> value.n % PortValues] ELSE Failed

parseAnnounceRequest(query) ==
  LET port       == parseUint16Query(query, "port")
      uploaded   == parseUint64Query(query, "uploaded")
      downloaded == parseUint64Query(query, "downloaded")
      left       == parseUint64Query(query, "left")
  IN  IF /\ Len(Get(query, "info_hash")) = IDBytes /\ Len(Get(query, "peer_id")) = IDBytes
         /\ port.ok /\ uploaded.ok /\ downloaded.ok /\ left.ok
         /\ port.n # 0 /\ Get(query, "event") \in Events
        THEN [ok |-> TRUE, InfoHash |-> query["info_hash"], PeerID |-> query["peer_id"],
              Port |-> port.n, Uploaded |-> uploaded.n, Downloaded |-> downloaded.n,
              Left |-> left.n, Compact |-> Get(query, "compact") = <<"1">>,
              Event |-> Get(query, "event")]
        ELSE Failed

-----------------------------------------------------------------------------
(* The interval of an answer.                                              *)

IntervalInRange_any(n) == n >= 0

IntervalInRange(n) == n >= 0 /\ n <= MaxInt64 \div Second

\* time.Duration(seconds) * time.Second.
IntervalOf(n) == Int64(n * Second)
=============================================================================
