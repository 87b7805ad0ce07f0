----------------------------- MODULE PublicHttp -----------------------------
(***************************************************************************)
(* Public HTTP (src/src/http.rs): the middleware observe with its rate     *)
(* limiter and its gauge of requests in flight, the layers around it that  *)
(* drop a request, and the tool call inside it, which is that of           *)
(* BriefCache or one that leaves no state.                                 *)
(*                                                                         *)
(* A request awaits the limiter's mutex and the tool's answer.  At either  *)
(* it may be dropped, by TimeoutLayer or for a client that goes away.      *)
(* That ends the middleware, not the tool call: the MCP service runs it in *)
(* a task of its own, and it goes on to write the cache.                   *)
(***************************************************************************)
EXTENDS BriefCache

CONSTANTS
    Clients,      \* peer addresses
    Limit,        \* requests_per_minute
    Window,       \* 60 s
    MaxClients,   \* 4096 in the code
    MaxWait       \* the longest wait for the limiter, which is held for no await

ASSUME HttpAssumption ==
    /\ {Limit, Window} \subseteq Nat \ {0}
    /\ {MaxClients, MaxWait} \subseteq Nat
    /\ MaxWait < Window

VARIABLES
    status,     \* how far each request is
    peer,       \* the client that sent it
    arrived,    \* when, while it lasts: `now` of allow_request
    admitted,   \* when the limiter let it pass
    windows,    \* the limiter: a RateWindow for each client it knows
    inFlight    \* the gauge

http == <<status, peer, arrived, admitted, windows, inFlight>>
vars == <<clock, briefs, http>>

Pending == {"limiting", "handling"}

\* Refused or answered; dropped at the limiter; dropped with its tool call going on, and
\* with the call over.
Ended == {"rejected", "done", "lost", "stray", "leaked"}

TypeOK ==
    /\ CacheTypeOK
    /\ status \in [Requests -> Pending \cup Ended \cup {"new"}]
    /\ peer \in [Requests -> Clients]
    /\ arrived \in [Requests -> 0..MaxTime]
    /\ admitted \in [Requests -> 0..MaxTime]
    /\ DOMAIN windows \subseteq Clients
    /\ \A c \in DOMAIN windows :
          windows[c] \in [started : 0..MaxTime, count : 0..Limit]
    /\ inFlight \in Nat

Init ==
    /\ CacheInit
    /\ status = [r \in Requests |-> "new"]
    /\ peer \in [Requests -> Clients]
    /\ arrived = [r \in Requests |-> 0]
    /\ admitted = [r \in Requests |-> 0]
    /\ windows = << >>
    /\ inFlight = 0

-----------------------------------------------------------------------------

Arrive(r) ==
    /\ status[r] = "new"
    /\ status' = [status EXCEPT ![r] = "limiting"]
    /\ arrived' = [arrived EXCEPT ![r] = clock]
    /\ UNCHANGED <<clock, briefs, peer, admitted, windows, inFlight>>

\* Instant::duration_since, which does not go below zero.
Since(now, then) == IF now < then THEN 0 ELSE now - then

\* mutant: a full limiter forgets all it knows
KeptNone(now) ==
    IF Cardinality(DOMAIN windows) >= MaxClients THEN {} ELSE DOMAIN windows

\* Beyond MaxClients the windows of two minutes ago are forgotten.
Kept(now) ==
    IF Cardinality(DOMAIN windows) > MaxClients
    THEN {c \in DOMAIN windows : Since(now, windows[c].started) < 2 * Window}
    ELSE DOMAIN windows

\* The window a request counts in: a new one, or the one begun less than Window ago.
Current(c, now) ==
    IF c \in Kept(now) /\ Since(now, windows[c].started) < Window
    THEN windows[c]
    ELSE [started |-> now, count |-> 0]

\* mutant: the gauge is raised before the limiter is asked
RaisedAlways(pass) == inFlight + 1

\* The gauge counts the request once it has passed.
Raised(pass) == IF pass THEN inFlight + 1 ELSE inFlight

\* allow_request with the mutex held, and what observe does of its answer.
Admit(r) ==
    /\ status[r] = "limiting"
    /\ LET c    == peer[r]
           now  == arrived[r]
           w    == Current(c, now)
           pass == w.count < Limit
       IN /\ windows' = [d \in Kept(now) \cup {c} |->
                            IF d # c THEN windows[d]
                            ELSE IF pass THEN [w EXCEPT !.count = @ + 1] ELSE w]
          /\ IF pass
             THEN /\ status' = [status EXCEPT ![r] = "handling"]
                  /\ admitted' = [admitted EXCEPT ![r] = clock]
                  /\ UNCHANGED arrived
             ELSE /\ status' = [status EXCEPT ![r] = "rejected"]
                  /\ arrived' = [arrived EXCEPT ![r] = 0]
                  /\ UNCHANGED admitted
          /\ inFlight' = Raised(pass)
    /\ UNCHANGED <<clock, briefs, peer>>

\* next.run returns: the gauge is lowered.
Answer(r) ==
    /\ status' = [status EXCEPT ![r] = "done"]
    /\ inFlight' = inFlight - 1
    /\ arrived' = [arrived EXCEPT ![r] = 0]
    /\ UNCHANGED <<clock, peer, admitted, windows>>

\* The tool call is over: its answer goes out, or the request it was for is gone.
Over(r) ==
    \/ status[r] = "handling" /\ Answer(r)
    \/ /\ status[r] = "stray"
       /\ status' = [status EXCEPT ![r] = "leaked"]
       /\ UNCHANGED <<clock, peer, arrived, admitted, windows, inFlight>>

\* The tool call.  Another tool than get_market_brief answers and leaves no trace; a call
\* that panics takes no further step.
Handle(r) ==
    /\ status[r] \in {"handling", "stray"}
    /\ \/ \E k \in Keys : Hit(r, k) /\ Over(r)
       \/ \E k \in Keys : Miss(r, k) /\ UNCHANGED <<clock, http>>
       \/ Fail(r) /\ Over(r)
       \/ Store(r) /\ Over(r)
       \/ asking[r] = NoKey /\ UNCHANGED briefs /\ Over(r)

\* The future of observe is dropped, and with it what would have lowered the gauge.
Drop(r) ==
    /\ status[r] \in Pending
    /\ status' = [status EXCEPT ![r] = IF @ = "handling" THEN "stray" ELSE "lost"]
    /\ arrived' = [arrived EXCEPT ![r] = 0]
    /\ UNCHANGED <<clock, briefs, peer, admitted, windows, inFlight>>

\* No request waits longer than MaxWait for the limiter.
Tick ==
    /\ clock < MaxTime
    /\ \A r \in Requests : status[r] = "limiting" => clock - arrived[r] < MaxWait
    /\ clock' = clock + 1
    /\ UNCHANGED <<briefs, http>>

Next ==
    \/ \E r \in Requests : Arrive(r) \/ Admit(r) \/ Handle(r) \/ Drop(r)
    \/ Tick

Spec == Init /\ [][Next]_vars

-----------------------------------------------------------------------------
(* Safety. *)

Admitted(c) ==
    {r \in Requests : peer[r] = c /\ status[r] \in {"handling", "done", "stray", "leaked"}}

\* allow_request counts in fixed windows: twice the limit may pass around the end of
\* one, but never more within a window's length less the wait for the mutex, although
\* the time it decides by is taken before that wait, and windows are forgotten.
TwiceTheLimit ==
    \A c \in Clients, t \in 0..MaxTime :
        Cardinality({r \in Admitted(c) :
                        admitted[r] >= t /\ admitted[r] < t + (Window - MaxWait)})
            <= 2 * Limit

\* in_flight is raised before the tool is called and lowered after: it never misses a
\* request that is being handled, and is too high by exactly those dropped meanwhile,
\* for good, whether or not their tool calls are still running.
GaugeOffByDropped ==
    inFlight = Cardinality({r \in Requests : status[r] \in {"handling", "stray", "leaked"}})

\* The calls that missed at the same time write one after the other, with those whose
\* requests are long gone among them: the cache still never holds more than MaxBriefs,
\* and a brief only goes while it is fresh if all but one of these places are taken by
\* others, none stored before it.  All but one: to write anew what is in a full cache
\* also makes the oldest go.
BoundedCache ==
    [][/\ Cardinality(DOMAIN cache') <= MaxBriefs
       /\ \A k \in DOMAIN cache \ DOMAIN cache' :
             Fresh(k) => Cardinality({j \in DOMAIN cache' : cache'[j] >= cache[k]})
                           >= MaxBriefs - 1
      ]_cache

=============================================================================
