----------------------------- MODULE Announces -----------------------------
(***************************************************************************)
(* AnnounceQuery over its inputs: announces, with what their URL brings    *)
(* along.                                                                  *)
(***************************************************************************)
EXTENDS AnnounceQuery, Samples

RequestInit == \E event \in Events, compact \in BOOLEAN, port \in { 1, 10, PortValues - 1 },
                  left \in { 0, 12 }, stale \in { <<>>, "event" :> <<"started">>,
                                                 ("port" :> <<"x">>) @@ ("passkey" :> <<"x">>) } :
  sample = [of |-> "request", base |-> stale,
            request |-> [ok |-> TRUE, InfoHash |-> <<"h">>, PeerID |-> <<"p">>, Port |-> port,
                         Uploaded |-> 0, Downloaded |-> left, Left |-> left, Compact |-> compact,
                         Event |-> event]]

\* The tracker reads what the torrent meant, and the URL's other parameters.
Understood(base, request) ==
  LET query == buildAnnounceUrl(base, request)
  IN  /\ parseAnnounceRequest(query) = request
      /\ \A key \in DOMAIN base \ DOMAIN Parameters(request) :
           key \in DOMAIN query /\ query[key] = base[key]

(***************************************************************************)
(* The tracker understands what the torrent meant, whatever parameters the *)
(* announce URL brings along (an event or a port of its own, say), and     *)
(* those it does not know are passed on.                                   *)
(***************************************************************************)
RequestUnderstood == Is("request") => Understood(sample.base, sample.request)

\* An interval of n seconds that is accepted becomes a timer of at least a
\* second and at least n.
TimerSound(n, interval) ==
  LET timer == normalizeTrackerInterval(interval) IN timer >= Second /\ timer >= n * Second
=============================================================================
