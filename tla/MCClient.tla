------------------------------ MODULE MCClient ------------------------------
(* One torrent that is started, once or twice, and removed, and an         *)
(* incoming connection for it.                                             *)
EXTENDS Client, TLC

CONSTANTS t1, h1, s1, s2, u1, c1

OneTorrent  == t1 :> h1
OneStart    == s1 :> h1
TwoStarts   == (s1 :> h1) @@ (s2 :> h1)
OneRemoval  == u1 :> h1
OneConn     == c1 :> h1
=============================================================================
