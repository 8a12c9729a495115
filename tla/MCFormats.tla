----------------------------- MODULE MCFormats -----------------------------
(* Small alphabets for Formats: texts that are right, empty and wrong.     *)
EXTENDS Formats

MCProtocol == <<2, 3>>

\* Messages with extreme numbers and payloads, up to the longest.
MCMessage ==
  LET biggest == ByteValues ^ WordBytes - 1
      block   == [PieceIndex |-> 1, Begin |-> biggest, Length |-> ByteValues]
  IN  { KeepAlive } \cup
      [type : { "Choke", "Unchoke", "Interested", "NotInterested" }] \cup
      [type : {"Have"}, PieceIndex : { 0, ByteValues, biggest }] \cup
      [type : {"Bitfield"}, Bits : { <<>>, <<ByteValues - 1, 0>> }] \cup
      [type : { "Request", "CancelRequest" }, Block : {block}] \cup
      [type : {"Piece"}, PieceIndex : {0}, Begin : {ByteValues},
       Data : { <<>>, [k \in 1 .. maxPeerMessageSize - 1 - 2 * WordBytes |-> 1] }]

\* Dictionary keys, in the order of their bytes.
MCWords == <<"announce", "failure reason", "files", "info", "interval", "ip", "length", "name",
             "peer id", "peers", "piece length", "pieces", "port", "private">>

MCTextStart == { <<>>, <<"l">>, <<"d">>, <<"d", "1", ":", "0", "i", "0", "e">> }

\* Besides the brackets: strings, a string whose length has a leading zero, and
\* integers at zero, below it, too big, and written in a way that is not allowed.
MCToken == { <<"d">>, <<"l">>, <<"e">>, <<"0", ":">>, <<"1", ":", "0">>, <<"1", ":", "e">>,
             <<"0", "1", ":", "0">>, <<"i", "-", "1", "e">>, <<"i", "0", "e">>,
             <<"i", "0", "1", "e">>, <<"i", "-", "0", "e">>, <<"i", "2", "0", "1", "e">> }

MCTexts    == STRING
MCDuration == ("0s" :> 0) @@ ("half" :> Second \div 2) @@ ("1s" :> Second) @@ ("2s" :> 2 * Second)
                @@ ("long" :> Second * (MaxInt64 \div Second))
MCHash     == ("AA" :> "a") @@ ("BB" :> "b")
MCMetaInfo == ("f1" :> "b") @@ ("f2" :> "a")
MCTorrents == ("dir" :> <<"f1", "f2">>) @@ ("none" :> <<>>)

MCEnvirons ==
  { [TRACKER_LISTEN |-> listen, PORT |-> port, TRACKER_STATUS_LISTEN |-> <<>>,
     TRACKER_INTERVAL |-> every, TRACKER_PEER_TTL |-> <<>>,
     TRACKER_ALLOWED_INFO_HASHES |-> hashes, TRACKER_TORRENT_DIR |-> dir] :
      hashes \in { <<>>, <<"">>, <<"AA">>, <<"AA", "">> }, dir \in { <<>>, <<"">>, <<"dir">> },
      every \in { <<>>, <<"1s">> }, listen \in { <<>>, <<"">> }, port \in { <<>>, <<"">> } }

MCFlag == { <<"torrent-dir", "">>, <<"torrent-dir", "dir">>, <<"torrent-dir", "none">>,
            <<"allow-torrent", "f1">>, <<"allow-torrent", "bad">>,
            <<"allow-info-hash", "AA">>, <<"allow-info-hash", "bad">>, <<"allow-info-hash", "">>,
            <<"interval", "0s">>, <<"interval", "half">>, <<"interval", "2s">>, <<"interval", "long">>,
            <<"peer-ttl", "1s">>, <<"peer-ttl", "2s">>, <<"listen", "">>, <<"status-listen", "x">>,
            <<"unknown", "">> }
=============================================================================
