-------------------------------- MODULE Feed --------------------------------
(***************************************************************************)
(* binance.Client: the reference prices.  wsLoop keeps a stream open and   *)
(* redials it with a back-off, handleMessage stores what the stream sends, *)
(* and restFallbackLoop asks the REST endpoint when it finds the stream    *)
(* missing, empty or stalled.                                              *)
(*                                                                         *)
(* A sample matters to the readers by its age alone: of a symbol's history *)
(* age keeps that of the newest sample, the last of the slice, as both     *)
(* writers stamp what they append with the current time.  Ages are counted *)
(* up to Old.                                                              *)
(***************************************************************************)
EXTENDS Naturals

CONSTANTS
    Symbols,
    Payloads,    \* the shapes of the stream's messages: their keys with the JSON type of each
    RestEvery,   \* the ticker of restFallbackLoop
    StaleAfter,  \* how long the last tick may lie back before the stream counts as stalled
    MaxBackoff,  \* the ceiling of wsLoop's back-off
    Old          \* bound on the ages that are told apart

ASSUME FeedAssumption ==
    /\ Symbols # {}
    /\ {RestEvery, StaleAfter, MaxBackoff} \subseteq Nat \ {0}
    /\ Old \in Nat /\ Old > StaleAfter + RestEvery

VARIABLES
    ws,       \* wsLoop: "dial", "read" (Client.conn is set) or "sleep"
    backoff,  \* its back-off
    wait,     \* what is left of its sleep
    restIn,   \* until the next tick of restFallbackLoop
    restDue,  \* a tick waits in the ticker's channel
    toFetch,  \* the symbols fetchRESTPrices has yet to ask for
    age,      \* the age of each symbol's newest sample
    missed,   \* history: since the last sample a REST request failed or kept the loop waiting
    unstored  \* history: the symbols whose newest price on the stream was not stored

feedVars == <<ws, backoff, wait, restIn, restDue, toFetch, age, missed, unstored>>

\* The age of the newest sample of a symbol that has none.
Never == Old + 1

FeedTypeOK ==
    /\ ws \in {"dial", "read", "sleep"}
    /\ backoff \in 1..MaxBackoff
    /\ wait \in 0..MaxBackoff
    /\ restIn \in 1..RestEvery
    /\ restDue \in BOOLEAN
    /\ toFetch \subseteq Symbols
    /\ age \in [Symbols -> 0..Never]
    /\ missed \in BOOLEAN
    /\ unstored \subseteq Symbols

FeedInit ==
    /\ ws = "dial" /\ backoff = 1 /\ wait = 0
    /\ restIn = RestEvery /\ restDue = FALSE /\ toFetch = {}
    /\ age = [s \in Symbols |-> Never]
    /\ missed = FALSE
    /\ unstored = {}

-----------------------------------------------------------------------------
(* handleMessage decodes with encoding/json, which binds a key that has no *)
(* field of its own to the one whose name differs from it in case only,    *)
(* and reports a value of another type than its field's.                   *)

\* The fields of handleMessage's Data, by their tags.
Field == [e |-> "string", s |-> "string", p |-> "string", c |-> "string", T |-> "number"]

\* Names that differ in case only.
SameFold == {{"e", "E"}, {"s", "S"}, {"p", "P"}, {"c", "C"}, {"t", "T"}}

\* The fields that a key is bound to.
BoundTo(key) ==
    IF key \in DOMAIN Field THEN {key} ELSE {f \in DOMAIN Field : {f, key} \in SameFold}

Decodes(payload) ==
    \A key \in DOMAIN payload : \A f \in BoundTo(key) : payload[key] = Field[f]

\* A trade price, or the close price in its place.
HasPrice(payload) == {"p", "c"} \cap DOMAIN payload # {}

Store(sym) ==
    /\ age' = [age EXCEPT ![sym] = 0]
    /\ missed' = FALSE

\* handleMessage, of a message with a price: the others it ignores.
Receive(sym, payload) ==
    /\ ws = "read"
    /\ HasPrice(payload)
    /\ IF Decodes(payload)
       THEN Store(sym) /\ unstored' = unstored \ {sym}
       ELSE unstored' = unstored \cup {sym} /\ UNCHANGED <<age, missed>>
    /\ UNCHANGED <<ws, backoff, wait, restIn, restDue, toFetch>>

-----------------------------------------------------------------------------
(* wsLoop. *)

Sleep ==
    /\ ws' = "sleep"
    /\ wait' = backoff
    /\ backoff' = IF 2 * backoff < MaxBackoff THEN 2 * backoff ELSE MaxBackoff

Dialled ==
    /\ ws = "dial"
    /\ ws' = "read"
    /\ backoff' = 1
    /\ UNCHANGED <<wait, restIn, restDue, toFetch, age, missed, unstored>>

\* The dial fails, or readLoop returns on a read error.
Lost ==
    /\ ws \in {"dial", "read"}
    /\ Sleep
    /\ UNCHANGED <<restIn, restDue, toFetch, age, missed, unstored>>

Wake ==
    /\ ws = "sleep" /\ wait = 0
    /\ ws' = "dial"
    /\ UNCHANGED <<backoff, wait, restIn, restDue, toFetch, age, missed, unstored>>

-----------------------------------------------------------------------------
(* restFallbackLoop. *)

NoPrices == \A s \in Symbols : age[s] = Never

\* The last tick lies further back: every sample sets lastTick, whatever its symbol.
Quiet(t) == \A s \in Symbols : age[s] > t

Stalled == ~NoPrices /\ Quiet(StaleAfter)

\* Faulty: only a missing connection and an empty cache make the loop fall back.
FallBackUnlessConnected == ws # "read" \/ NoPrices

FallBack == ws # "read" \/ NoPrices \/ Stalled

RestTick ==
    /\ restDue /\ toFetch = {}
    /\ restDue' = FALSE
    /\ toFetch' = IF FallBack THEN Symbols ELSE {}
    /\ UNCHANGED <<ws, backoff, wait, restIn, age, missed, unstored>>

\* One request of fetchRESTPrices ends, with a price or without.
Fetched(sym) ==
    /\ sym \in toFetch
    /\ toFetch' = toFetch \ {sym}
    /\ \/ Store(sym) /\ unstored' = unstored \ {sym}
       \/ missed' = TRUE /\ UNCHANGED <<age, unstored>>
    /\ UNCHANGED <<ws, backoff, wait, restIn, restDue>>

FeedNext ==
    \/ Dialled \/ Lost \/ Wake \/ RestTick
    \/ \E s \in Symbols : Fetched(s) \/ \E p \in Payloads : Receive(s, p)

-----------------------------------------------------------------------------
(* One step of the clock.  A tick that is due and whose loop is free is    *)
(* served first; a request may take any time (http.Get has no deadline).   *)

Older(a) == IF a < Old THEN a + 1 ELSE a

FeedTime ==
    /\ ~(restDue /\ toFetch = {})
    /\ age' = [s \in Symbols |-> Older(age[s])]
    /\ wait' = IF wait > 0 THEN wait - 1 ELSE 0
    /\ restIn' = IF restIn = 1 THEN RestEvery ELSE restIn - 1
    /\ restDue' = (restDue \/ restIn = 1)
    /\ missed' = (missed \/ toFetch # {})
    /\ UNCHANGED <<ws, backoff, toFetch, unstored>>

-----------------------------------------------------------------------------
(* As long as REST requests are answered at once, the feed is never silent *)
(* for longer than the stall threshold and one period of the fallback,     *)
(* whatever the stream does: it may be lost, or stay open and send nothing *)
(* (restFallbackLoop, ws_client.go:148-155).                               *)
FeedNeverSilent == missed \/ NoPrices \/ ~Quiet(StaleAfter + RestEvery)

(* ws_client.go:57 chose the miniTicker stream "for smoother,              *)
(* high-frequency UI updates": a price it sends becomes the symbol's.      *)
StreamStored == unstored = {}

=============================================================================
