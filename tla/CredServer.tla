------------------------------ MODULE CredServer ------------------------------
(***************************************************************************)
(* The local credential server, internal/credserver: one loopback listener *)
(* per session, from which the game fetches fresh fleet-role credentials.  *)
(* The launchers compose these operations with their Run.                  *)
(*                                                                         *)
(* A request is in flight from the moment its connection is accepted until *)
(* its handler has answered.  The handler of a request with the right      *)
(* token calls GetFleetRoleCredentials, which looks at no context and may  *)
(* take any time; one without it is answered 401 in one step and leaves no *)
(* trace here.                                                             *)
(***************************************************************************)

CONSTANT Requests    \* the requests the game may have under way at one time

VARIABLES
    listening,       \* the listener is open
    inFlight         \* the requests whose handlers have not answered

credVars == <<listening, inFlight>>

CredInit == listening = FALSE /\ inFlight = {}

\* Start binds a port and serves in a goroutine.
Serve == listening' = TRUE /\ inFlight' = inFlight

BeginRequest(r) ==
    /\ listening
    /\ inFlight' = inFlight \union {r}
    /\ listening' = listening

\* Credentials, 503 without a fetcher, or 500 if the fetch failed.
EndRequest(r) ==
    /\ r \in inFlight
    /\ inFlight' = inFlight \ {r}
    /\ listening' = listening

\* Stop calls http.Server.Shutdown, which closes the listener first ...
Shutdown == listening' = FALSE /\ inFlight' = inFlight

\* Mutant: Stop is http.Server.Close, which waits for no one.
DrainedAtOnce(ctxDone) == inFlight = {} \/ TRUE

\* ... and returns when no request is in flight or the context it was given is done.
Drained(ctxDone) == inFlight = {} \/ ctxDone
=============================================================================
