------------------------- MODULE PriceSubscriptions -------------------------
(***************************************************************************)
(* The price stream of one process: the maps of PriceSubscriptionManager   *)
(* (ws/PriceSubscriptionManager.js), its heartbeat and its drain, and the  *)
(* server that feeds it connections (ws/priceWebSocket.js).                *)
(*                                                                         *)
(* A callback runs to its end, so it is one action.  Every shutdown signal *)
(* and the close of the HTTP server start a drain of their own.            *)
(***************************************************************************)
EXTENDS Naturals, FiniteSets

CONSTANTS
  Socket, Ip, Asset,
  MaxConnections, MaxConnectionsPerIp,  \* config.ws
  MaxAssetsPerClient,                   \* MAX_ASSETS_PER_CLIENT
  MaxMissedPings,                       \* MAX_MISSED_PINGS
  Drainer,                              \* calls of drain()
  NoIp                                  \* a socket that is no client

ASSUME SubscriptionsConfig ==
  /\ {MaxConnections, MaxConnectionsPerIp, MaxAssetsPerClient, MaxMissedPings} \subseteq Nat \ {0}
  /\ IsFiniteSet(Socket)
  /\ NoIp \notin Ip

VARIABLES
  wire,         \* the transport of each socket
  clientIp,     \* _clientIpBySocket; NoIp: not in _clients
  assets,       \* the assets of each client
  missedPings,
  perIp,        \* _connectionsByIp, 0 where there is no entry
  subscribers,  \* _assetSubscribers, {} where there is no entry
  lastPrice,    \* _previousPrices: undefined or a price
  beating,      \* _pingTimer
  draining,     \* _draining
  drain         \* each drain's phase and frozen list

wsVars == <<wire, clientIp, assets, missedPings, perIp, subscribers, lastPrice, beating,
            draining, drain>>
lifecycle == <<beating, draining, drain>>

clients == {s \in Socket : clientIp[s] # NoIp}

WsInit ==
  /\ wire = [s \in Socket |-> "new"]
  /\ clientIp = [s \in Socket |-> NoIp]
  /\ assets = [s \in Socket |-> {}]
  /\ missedPings = [s \in Socket |-> 0]
  /\ perIp = [i \in Ip |-> 0]
  /\ subscribers = [a \in Asset |-> {}]
  /\ lastPrice = [a \in Asset |-> "undefined"]
  /\ beating = TRUE /\ draining = FALSE
  /\ drain = [d \in Drainer |-> [phase |-> "none", frozen |-> {}]]

-----------------------------------------------------------------------------

\* add(), for an upgrade that authenticateUpgrade let through.
add(s, ip) ==
  /\ wire[s] = "new"
  /\ IF draining \/ Cardinality(clients) >= MaxConnections \/ perIp[ip] >= MaxConnectionsPerIp
     THEN /\ wire' = [wire EXCEPT ![s] = "closing"]
          /\ UNCHANGED <<clientIp, perIp>>
     ELSE /\ wire' = [wire EXCEPT ![s] = "open"]
          /\ clientIp' = [clientIp EXCEPT ![s] = ip]
          /\ perIp' = [perIp EXCEPT ![ip] = @ + 1]
  /\ UNCHANGED <<assets, missedPings, subscribers, lastPrice, lifecycle>>

\* _remove() of all of S; a socket that is no client is left alone.
_remove(S) ==
  LET out == S \cap clients
  IN  /\ clientIp' = [s \in Socket |-> IF s \in out THEN NoIp ELSE clientIp[s]]
      /\ assets' = [s \in Socket |-> IF s \in out THEN {} ELSE assets[s]]
      /\ missedPings' = [s \in Socket |-> IF s \in out THEN 0 ELSE missedPings[s]]
      /\ perIp' = [i \in Ip |-> perIp[i] - Cardinality({s \in out : clientIp[s] = i})]
      /\ subscribers' = [a \in Asset |-> subscribers[a] \ {s \in out : a \in assets[s]}]

\* The 'close' and 'error' events.
SocketCloses(s) ==
  /\ wire[s] \in {"open", "closing"}
  /\ wire' = [wire EXCEPT ![s] = "closed"]
  /\ _remove({s})
  /\ UNCHANGED <<lastPrice, lifecycle>>

\* _handleMessage: subscribe in the order of the request, up to the cap.
subscribe(s, requested) ==
  /\ wire[s] = "open" /\ s \in clients
  /\ \E added \in SUBSET (requested \ assets[s]) :
       /\ Cardinality(assets[s] \cup added) <= MaxAssetsPerClient
       /\ \/ added = requested \ assets[s]
          \/ Cardinality(assets[s] \cup added) = MaxAssetsPerClient
       /\ assets' = [assets EXCEPT ![s] = @ \cup added]
       /\ subscribers' = [a \in Asset |->
                            IF a \in added THEN subscribers[a] \cup {s} ELSE subscribers[a]]
  /\ UNCHANGED <<wire, clientIp, missedPings, perIp, lastPrice, lifecycle>>

unsubscribe_KeepsIndex(s, toRemove) ==
  /\ wire[s] = "open" /\ s \in clients
  /\ assets' = [assets EXCEPT ![s] = @ \ toRemove]
  /\ UNCHANGED <<subscribers, wire, clientIp, missedPings, perIp, lastPrice, lifecycle>>

unsubscribe(s, toRemove) ==
  /\ wire[s] = "open" /\ s \in clients
  /\ subscribers' = [a \in Asset |->
                       IF a \in toRemove THEN subscribers[a] \ {s} ELSE subscribers[a]]
  /\ assets' = [assets EXCEPT ![s] = @ \ toRemove]
  /\ UNCHANGED <<wire, clientIp, missedPings, perIp, lastPrice, lifecycle>>

pong(s) ==
  /\ wire[s] = "open" /\ s \in clients
  /\ missedPings' = [missedPings EXCEPT ![s] = 0]
  /\ UNCHANGED <<wire, clientIp, assets, perIp, subscribers, lastPrice, lifecycle>>

\* notifyPriceUpdates of one asset; _broadcast sends to subscribers[a] when
\* the price moved, and changes nothing here.
notifyPriceUpdates(a) ==
  /\ lastPrice' = [lastPrice EXCEPT ![a] = "a price"]
  /\ UNCHANGED <<wire, clientIp, assets, missedPings, perIp, subscribers, lifecycle>>

\* One beat: who missed too many pings is terminated, the rest are pinged.
Heartbeat ==
  LET timedOut == {s \in clients : missedPings[s] >= MaxMissedPings}
  IN  /\ beating
      /\ wire' = [s \in Socket |-> IF s \in timedOut THEN "closed" ELSE wire[s]]
      /\ clientIp' = [s \in Socket |-> IF s \in timedOut THEN NoIp ELSE clientIp[s]]
      /\ assets' = [s \in Socket |-> IF s \in timedOut THEN {} ELSE assets[s]]
      /\ missedPings' = [s \in Socket |-> CASE s \in timedOut -> 0
                                            [] s \in clients \ timedOut -> missedPings[s] + 1
                                            [] OTHER -> missedPings[s]]
      /\ perIp' = [i \in Ip |-> perIp[i] - Cardinality({s \in timedOut : clientIp[s] = i})]
      /\ subscribers' = [a \in Asset |-> subscribers[a] \ {s \in timedOut : a \in assets[s]}]
      /\ UNCHANGED <<lastPrice, lifecycle>>

\* drain(): stop the heartbeat, refuse newcomers, freeze the list and warn.
Drain(d) ==
  /\ drain[d].phase = "none"
  /\ beating' = FALSE /\ draining' = TRUE
  /\ drain' = [drain EXCEPT ![d] = [phase |-> IF clients = {} THEN "done" ELSE "warned",
                                    frozen |-> clients]]
  /\ UNCHANGED <<wire, clientIp, assets, missedPings, perIp, subscribers, lastPrice>>

\* closeTimer: close frames for the clients still there.
DrainCloses(d) ==
  /\ drain[d].phase = "warned"
  /\ wire' = [s \in Socket |-> IF s \in drain[d].frozen \cap clients THEN "closing" ELSE wire[s]]
  /\ drain' = [drain EXCEPT ![d].phase = "closed"]
  /\ UNCHANGED <<clientIp, assets, missedPings, perIp, subscribers, lastPrice, beating, draining>>

\* deadline: whoever is left is terminated.
DrainEnds(d) ==
  /\ drain[d].phase = "closed"
  /\ wire' = [s \in Socket |-> IF s \in drain[d].frozen \cap clients THEN "closed" ELSE wire[s]]
  /\ _remove(drain[d].frozen)
  /\ drain' = [drain EXCEPT ![d] = [phase |-> "done", frozen |-> {}]]
  /\ UNCHANGED <<lastPrice, beating, draining>>

WsNext ==
  \/ \E s \in Socket, ip \in Ip : add(s, ip)
  \/ \E s \in Socket, A \in SUBSET Asset : subscribe(s, A) \/ unsubscribe(s, A)
  \/ \E s \in Socket : pong(s) \/ SocketCloses(s)
  \/ \E a \in Asset : notifyPriceUpdates(a)
  \/ Heartbeat
  \/ \E d \in Drainer : Drain(d) \/ DrainCloses(d) \/ DrainEnds(d)

-----------------------------------------------------------------------------

\* The reverse index lists exactly the clients of each asset, so a push goes to
\* whoever asked for it; the counters per address are exact, so no address is
\* locked out by sockets that are gone; and the caps hold.
MapsAgree ==
  /\ \A a \in Asset : subscribers[a] = {s \in clients : a \in assets[s]}
  /\ \A i \in Ip : perIp[i] = Cardinality({s \in clients : clientIp[s] = i})
  /\ \A i \in Ip : perIp[i] <= MaxConnectionsPerIp
  /\ Cardinality(clients) <= MaxConnections
  /\ \A s \in clients : wire[s] \in {"open", "closing"}

\* When one drain is done no client is left, whatever other drains were started
\* before or after it and whoever connected in between.
DrainLeavesNobody == (\E d \in Drainer : drain[d].phase = "done") => clients = {}

\* The maps of the PriceSubscriptionManager agree through every callback, and a
\* finished drain leaves no client in them.
SubscriptionsConsistent == MapsAgree /\ DrainLeavesNobody

=============================================================================
